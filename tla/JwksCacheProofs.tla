--------------------------- MODULE JwksCacheProofs ---------------------------
(***************************************************************************)
(* Theorems about JwksCache for every set of realms and tasks, ttl, latency*)
(* and number of retries: its types, that the lock lets one task at a time *)
(* through, and what follows for the keys: no herd of fetches, keys that   *)
(* never go back, keys that are not too old.                               *)
(***************************************************************************)
EXTENDS JwksCache, Integers, TLAPS

\* The calls that run have a realm, their answers are there.
CallsOK ==
    \A r \in Requests :
        /\ ~At(r, "idle") => task[r].realm \in Realms
        /\ At(r, "fetched") => task[r].reply # NULL
        /\ At(r, "redis_setex") => jwks_cache[task[r].realm] # NULL

TypeInv == TypeOK /\ CallsOK

\* The lock's queue holds the calls that wait for it or have it, each once; only
\* its head is past the lock.
Queued(r)  == \E i \in DOMAIN lock : lock[i] = r
LockInv ==
    /\ \A i, j \in DOMAIN lock : lock[i] = lock[j] => i = j
    /\ \A r \in Requests : ~At(r, "idle") <=> Queued(r)
    /\ \A r \in Requests : task[r].pc \in Awaiting => lock # << >> /\ lock[1] = r

\* What a call may rely on while it has the lock.
HolderOK(r) ==
    LET k     == task[r].realm
        reply == task[r].reply
        since == task[r].since
    IN  task[r].pc \in Awaiting =>
            /\ since <= now /\ now <= since + Latency
            /\ reply # NULL => reply <= now
            /\ ~At(r, "redis_setex") => ~Fresh(k)
            /\ At(r, "got") /\ reply # NULL =>
                   /\ newest[k] <= reply
                   /\ InRedis(k) => reply <= redis[k].keys
                   /\ since < reply + TTL + 2 * Latency
            /\ (At(r, "got") /\ reply = NULL) \/ At(r, "fetch") \/ At(r, "fetched") =>
                   ~InRedis(k)
            /\ At(r, "fetched") => since <= reply /\ newest[k] <= reply
            /\ At(r, "redis_setex") => since <= jwks_cache[k] + Latency

\* The keys of realm k in the process: the newest, and not long ago when fetched.
ProcessOK(k) ==
    /\ newest[k] <= now /\ jwks_fetched_at[k] <= now
    /\ jwks_cache[k] # NULL =>
           /\ jwks_cache[k] = newest[k]
           /\ jwks_fetched_at[k] < jwks_cache[k] + TTL + 3 * Latency

\* The fetches of realm k lie a TTL apart; the cache is not older than the last.
FetchesOK(k) ==
    \A i \in DOMAIN fetches[k] :
        /\ jwks_cache[k] # NULL
        /\ fetches[k][i] <= jwks_fetched_at[k]
        /\ i + 1 \in DOMAIN fetches[k] => fetches[k][i + 1] >= fetches[k][i] + TTL

\* The keys of realm k in Redis: the newest as long as they live.
RedisOK(k) ==
    redis[k] # NULL =>
        /\ redis[k].keys <= now
        /\ redis[k].expires <= redis[k].keys + TTL + 2 * Latency
        /\ InRedis(k) => newest[k] <= redis[k].keys

KeysInv ==
    /\ \A r \in Requests : HolderOK(r)
    /\ \A k \in Realms : ProcessOK(k) /\ FetchesOK(k) /\ RedisOK(k)

IInv == TypeInv /\ LockInv /\ KeysInv

-----------------------------------------------------------------------------
LEMMA ConstantTypes ==
    /\ TTL \in Nat /\ TTL > 0
    /\ Retries \in Nat /\ Retries > 0
    /\ Latency \in Nat /\ MaxTime \in Nat /\ MaxCrashes \in Nat
    /\ NULL \notin Nat /\ NULL \notin Realms
    /\ 0 \in Time /\ 0 \in 0..(Retries - 1)
BY NumbersAssumption, NullAssumption DEF Time

\* NULL is no key set and no entry of Redis.
LEMMA NullIsNone == NULL \notin Time /\ NULL \notin Stored
<1>1. Stored \subseteq [keys : Nat, expires : Nat]
  BY ConstantTypes DEF Stored, Time
<1>. QED  BY <1>1, ConstantTypes, NullAssumption DEF Time

LEMMA IdleType == Idle \in Task
BY ConstantTypes DEF Idle, Task

LEMMA InitInv == Init => IInv
<1>. SUFFICES ASSUME Init PROVE IInv
  OBVIOUS
<1>. USE ConstantTypes
<1>1. \A r \in Requests : task[r] = Idle /\ task[r].pc = "idle"
  BY DEF Init, Idle
<1>2. TypeOK
  BY IdleType DEF Init, TypeOK, NoKeys, NoFetch
<1>3. CallsOK
  BY <1>1 DEF CallsOK, At
<1>4. LockInv
  BY <1>1 DEF Init, LockInv, Queued, At, Awaiting
<1>5. \A r \in Requests : HolderOK(r)
  BY <1>1 DEF HolderOK, Awaiting
<1>6. ASSUME NEW k \in Realms PROVE ProcessOK(k) /\ FetchesOK(k) /\ RedisOK(k)
  <2>1. /\ jwks_cache[k] = NULL /\ jwks_fetched_at[k] = 0 /\ newest[k] = 0
        /\ now = 0 /\ redis[k] = NULL
    BY DEF Init, NoKeys
  <2>2. fetches[k] = << >> /\ DOMAIN << >> = {}
    BY DEF Init, NoFetch
  <2>. QED  BY <2>1, <2>2 DEF ProcessOK, FetchesOK, RedisOK
<1>. QED  BY <1>2, <1>3, <1>4, <1>5, <1>6 DEF IInv, TypeInv, KeysInv

-----------------------------------------------------------------------------
(* What the steps of a call do to its task.                                 *)

\* Only the task of r changes, and keeps its type.
OnlyTask(r) ==
    /\ task' \in [Requests -> Task]
    /\ \A q \in Requests \ {r} : task'[q] = task[q]

\* r goes on to pc with an answer, for the same realm.
GoesOn(r, pc, reply) ==
    /\ OnlyTask(r)
    /\ task'[r].pc = pc /\ task'[r].reply = reply
    /\ task'[r].realm = task[r].realm

LEMMA AwaitTask ==
    ASSUME TypeOK, NEW r \in Requests, NEW pc \in Awaiting, Await(r, pc)
    PROVE  GoesOn(r, pc, NULL) /\ task'[r].since = now
<1>. DEFINE new == [Idle EXCEPT !.pc = pc, !.realm = task[r].realm, !.since = now]
<1>1. task[r] \in Task /\ now \in Time
  BY DEF TypeOK
<1>2. /\ new \in Task
      /\ new.pc = pc /\ new.reply = NULL /\ new.realm = task[r].realm
      /\ new.since = now
  BY <1>1, ConstantTypes DEF Task, Idle
<1>3. task' = [task EXCEPT ![r] = new]
  BY DEF Await
<1>. HIDE DEF new
<1>. QED  BY <1>2, <1>3 DEF TypeOK, OnlyTask, GoesOn

LEMMA AnsweredTask ==
    ASSUME TypeOK, NEW r \in Requests, NEW pc \in Awaiting,
           NEW reply \in Time \cup {NULL}, Answered(r, pc, reply)
    PROVE  GoesOn(r, pc, reply) /\ task'[r].since = task[r].since
<1>1. task[r] \in Task
  BY DEF TypeOK
<1>2. [task[r] EXCEPT !.pc = pc, !.reply = reply] \in Task
  BY <1>1 DEF Task
<1>3. /\ OnlyTask(r)
      /\ task'[r] = [task[r] EXCEPT !.pc = pc, !.reply = reply]
  BY <1>2 DEF Answered, TypeOK, OnlyTask
<1>. QED  BY <1>1, <1>3 DEF GoesOn, Task

LEMMA LeaveTask ==
    ASSUME TypeOK, NEW r \in Requests, Leave(r)
    PROVE  OnlyTask(r) /\ task'[r].pc = "idle" /\ lock' = Tail(lock)
BY IdleType DEF Leave, TypeOK, OnlyTask, Idle

LEMMA FailedTask ==
    ASSUME TypeOK, NEW r \in Requests, NEW pc \in Awaiting, Failed(r, pc)
    PROVE  \/ /\ GoesOn(r, pc, NULL) /\ task'[r].since = task[r].since
              /\ lock' = lock
           \/ Leave(r)
<1>. SUFFICES ASSUME ~Leave(r)
              PROVE  /\ GoesOn(r, pc, NULL) /\ task'[r].since = task[r].since
                     /\ lock' = lock
  OBVIOUS
<1>. DEFINE new == [task[r] EXCEPT !.tries = @ + 1, !.pc = pc, !.reply = NULL]
<1>1. task[r] \in Task
  BY DEF TypeOK
<1>2. /\ ~LastAttempt(r) /\ lock' = lock
      /\ task' = [task EXCEPT ![r] = new]
  BY DEF Failed, Raise
<1>3. task[r].tries + 1 \in 0..(Retries - 1)
  BY <1>1, <1>2, ConstantTypes DEF LastAttempt, Task
<1>4. /\ new \in Task
      /\ new.pc = pc /\ new.reply = NULL /\ new.realm = task[r].realm
      /\ new.since = task[r].since
  BY <1>1, <1>3 DEF Task
<1>. HIDE DEF new
<1>. QED  BY <1>2, <1>4 DEF TypeOK, OnlyTask, GoesOn

-----------------------------------------------------------------------------
(* Types.                                                                   *)

LEMMA StoreTypes ==
    ASSUME TypeInv, NEW r \in Requests, NEW k \in Realms,
           task[r].reply \in Time, Store(r, k)
    PROVE  /\ jwks_cache' \in [Realms -> Time \cup {NULL}]
           /\ jwks_fetched_at' \in [Realms -> Time]
           /\ newest' \in [Realms -> Time]
           /\ jwks_cache' = [jwks_cache EXCEPT ![k] = task[r].reply]
           /\ jwks_fetched_at' = [jwks_fetched_at EXCEPT ![k] = now]
           /\ newest' = [newest EXCEPT
                  ![k] = IF task[r].reply > @ THEN task[r].reply ELSE @]
BY DEF Store, TypeInv, TypeOK

\* A call's step keeps the types if its own task is fine and keys are not lost.
LEMMA StepTypes ==
    ASSUME TypeInv, NEW r \in Requests, OnlyTask(r),
           ~At(r, "idle") /\ (At(r, "idle")' \/ task'[r].realm = task[r].realm),
           At(r, "fetched")' => task'[r].reply # NULL,
           At(r, "redis_setex")' => jwks_cache'[task'[r].realm] # NULL,
           lock' \in Seq(Requests), UNCHANGED <<now, crashes>>,
           redis' \in [Realms -> Stored \cup {NULL}],
           jwks_cache' \in [Realms -> Time \cup {NULL}],
           \A k \in Realms : jwks_cache[k] # NULL => jwks_cache'[k] # NULL,
           jwks_fetched_at' \in [Realms -> Time],
           newest' \in [Realms -> Time], fetches' \in [Realms -> Seq(Time)]
    PROVE  TypeInv'
<1>1. TypeOK'
  BY DEF TypeInv, TypeOK, OnlyTask
<1>2. CallsOK'
  BY DEF TypeInv, CallsOK, OnlyTask, At
<1>. QED  BY <1>1, <1>2 DEF TypeInv

\* Every step of a call at one of its awaits leaves the lock as it is and stays
\* between its awaits, or leaves the locked block.
LEMMA ContinueTask ==
    ASSUME TypeInv, NEW r \in Requests, Continue(r)
    PROVE  /\ OnlyTask(r) /\ ~At(r, "idle")
           /\ HasLock(r) \/ task[r].pc \in Awaiting
           /\ \/ /\ lock' = lock /\ task'[r].pc \in Awaiting
                 /\ task'[r].realm = task[r].realm
              \/ lock' = Tail(lock) /\ task'[r].pc = "idle"
           /\ At(r, "fetched")' => task'[r].reply # NULL
           /\ UNCHANGED <<now, crashes>>
<1>. USE NullIsNone DEF GoesOn, OnlyTask
<1>0. /\ TypeOK /\ now \in Time /\ \A k \in Realms : redis[k] \in Stored \cup {NULL}
      /\ task[r] \in Task
      /\ ~At(r, "idle") => task[r].realm \in Realms
  BY DEF TypeInv, TypeOK, CallsOK
<1>1. /\ "redis_get" \in Awaiting /\ "got" \in Awaiting /\ "fetch" \in Awaiting
      /\ "fetched" \in Awaiting /\ "redis_setex" \in Awaiting
      /\ "idle" \notin Awaiting /\ "lock" \notin Awaiting
  BY DEF Awaiting
<1>2. CASE Leave(r) /\ (HasLock(r) \/ task[r].pc \in Awaiting) /\ UNCHANGED <<now, crashes>>
  BY <1>0, <1>1, <1>2, LeaveTask DEF At, HasLock
<1>3. ASSUME NEW pc \in {"redis_get", "fetch", "redis_setex"},
             Failed(r, pc), task[r].pc \in Awaiting, UNCHANGED <<now, crashes>>
      PROVE  /\ OnlyTask(r) /\ ~At(r, "idle")
             /\ \/ /\ lock' = lock /\ task'[r].pc \in Awaiting
                   /\ task'[r].realm = task[r].realm
                \/ lock' = Tail(lock) /\ task'[r].pc = "idle"
             /\ At(r, "fetched")' => task'[r].reply # NULL
  BY <1>0, <1>1, <1>3, LeaveTask, FailedTask DEF At
<1>4. CASE Acquire(r)
  <2>1. /\ HasLock(r) /\ At(r, "lock")
        /\ Leave(r) \/ (Await(r, "redis_get") /\ lock' = lock)
        /\ UNCHANGED <<now, crashes>>
    BY <1>4 DEF Acquire, HasLock
  <2>. QED  BY <1>0, <1>1, <1>2, <2>1, AwaitTask DEF At
<1>5. CASE RedisGet(r)
  <2>. DEFINE reply == IF InRedis(task[r].realm)
                       THEN redis[task[r].realm].keys ELSE NULL
  <2>1. /\ task[r].pc = "redis_get"
        /\ (Answered(r, "got", reply) /\ lock' = lock) \/ Failed(r, "redis_get")
        /\ UNCHANGED <<now, crashes>>
    BY <1>5 DEF RedisGet, At
  <2>2. reply \in Time \cup {NULL}
    BY <1>0, <2>1 DEF InRedis, Stored, At
  <2>. HIDE DEF reply
  <2>. QED  BY <1>0, <1>1, <1>3, <2>1, <2>2, AnsweredTask DEF At
<1>6. CASE Got(r)
  <2>1. /\ task[r].pc = "got"
        /\ Leave(r) \/ (Await(r, "fetch") /\ lock' = lock)
        /\ UNCHANGED <<now, crashes>>
    BY <1>6 DEF Got, At
  <2>. QED  BY <1>0, <1>1, <1>2, <2>1, AwaitTask DEF At
<1>7. CASE Fetch(r)
  <2>1. /\ task[r].pc = "fetch"
        /\ \/ Answered(r, "fetched", now) /\ lock' = lock
           \/ Failed(r, "fetch")
           \/ Leave(r)
        /\ UNCHANGED <<now, crashes>>
    BY <1>7 DEF Fetch, At, Raise
  <2>. QED  BY <1>0, <1>1, <1>2, <1>3, <2>1, AnsweredTask DEF At
<1>8. CASE Fetched(r)
  <2>1. /\ task[r].pc = "fetched"
        /\ (Await(r, "redis_setex") /\ lock' = lock) \/ Failed(r, "fetch")
        /\ UNCHANGED <<now, crashes>>
    BY <1>8 DEF Fetched, At
  <2>. QED  BY <1>0, <1>1, <1>3, <2>1, AwaitTask DEF At
<1>9. CASE RedisSetex(r)
  <2>1. /\ task[r].pc = "redis_setex"
        /\ Leave(r) \/ Failed(r, "redis_setex")
        /\ UNCHANGED <<now, crashes>>
    BY <1>9 DEF RedisSetex, At
  <2>. QED  BY <1>0, <1>1, <1>2, <1>3, <2>1 DEF At
<1>. QED  BY <1>4, <1>5, <1>6, <1>7, <1>8, <1>9 DEF Continue

\* A call at one of its awaits, or with the lock, is at the head of the queue.
LEMMA HeadOfQueue ==
    ASSUME TypeInv, LockInv, NEW r \in Requests, ~At(r, "idle"),
           HasLock(r) \/ task[r].pc \in Awaiting
    PROVE  lock \in Seq(Requests) /\ lock # << >> /\ lock[1] = r
<1>1. lock \in Seq(Requests)
  BY DEF TypeInv, TypeOK
<1>2. Queued(r)
  BY DEF LockInv
<1>3. lock # << >>
  BY <1>1, <1>2 DEF Queued
<1>4. Head(lock) = r \/ lock[1] = r
  BY DEF HasLock, LockInv
<1>. QED  BY <1>1, <1>3, <1>4

\* The lock lets one call at a time through.
LEMMA OneHolder ==
    ASSUME TypeInv, LockInv, NEW r \in Requests, ~At(r, "idle"),
           HasLock(r) \/ task[r].pc \in Awaiting,
           NEW q \in Requests \ {r}
    PROVE  task[q].pc \notin Awaiting
<1>1. lock[1] = r
  BY HeadOfQueue
<1>. QED  BY <1>1 DEF LockInv

LEMMA LockStep ==
    ASSUME TypeInv, LockInv, NEW r \in Requests, Continue(r)
    PROVE  LockInv' /\ lock' \in Seq(Requests)
<1>1. /\ OnlyTask(r) /\ ~At(r, "idle")
      /\ HasLock(r) \/ task[r].pc \in Awaiting
      /\ \/ lock' = lock /\ task'[r].pc \in Awaiting
         \/ lock' = Tail(lock) /\ task'[r].pc = "idle"
  BY ContinueTask
<1>2. lock \in Seq(Requests) /\ lock # << >> /\ lock[1] = r
  BY <1>1, HeadOfQueue
<1>3. \A q \in Requests \ {r} : task[q].pc \notin Awaiting /\ task'[q] = task[q]
  BY <1>1, OneHolder DEF OnlyTask
<1>4. "idle" \notin Awaiting
  BY DEF Awaiting
<1>5. CASE lock' = lock /\ task'[r].pc \in Awaiting
  BY <1>1, <1>2, <1>3, <1>4, <1>5 DEF LockInv, Queued, At
<1>6. CASE lock' = Tail(lock) /\ task'[r].pc = "idle"
  <2>1. /\ lock' \in Seq(Requests)
        /\ DOMAIN lock' = 1..(Len(lock) - 1) /\ DOMAIN lock = 1..Len(lock)
        /\ Len(lock) \in Nat /\ Len(lock) >= 1
        /\ \A i \in DOMAIN lock' : i + 1 \in DOMAIN lock /\ lock'[i] = lock[i + 1]
    BY <1>2, <1>6
  <2>2. \A i, j \in DOMAIN lock' : lock'[i] = lock'[j] => i = j
    <3>1. ASSUME NEW i \in DOMAIN lock', NEW j \in DOMAIN lock', lock'[i] = lock'[j]
          PROVE  i = j
      <4>1. i + 1 = j + 1
        BY <2>1, <3>1 DEF LockInv
      <4>. QED  BY <2>1, <4>1
    <3>. QED  BY <3>1
  <2>3. ASSUME NEW q \in Requests \ {r} PROVE Queued(q)' <=> Queued(q)
    <3>1. ASSUME NEW i \in DOMAIN lock, lock[i] = q PROVE Queued(q)'
      <4>1. i - 1 \in DOMAIN lock' /\ (i - 1) + 1 = i
        BY <1>2, <2>1, <3>1
      <4>. QED  BY <2>1, <3>1, <4>1 DEF Queued
    <3>. QED  BY <2>1, <3>1 DEF Queued
  <2>4. ~Queued(r)'
    <3>1. ASSUME NEW i \in DOMAIN lock', lock'[i] = r PROVE FALSE
      <4>1. lock[i + 1] = lock[1] /\ i + 1 \in DOMAIN lock /\ 1 \in DOMAIN lock
        BY <1>2, <2>1, <3>1
      <4>2. i + 1 = 1
        BY <4>1 DEF LockInv
      <4>. QED  BY <2>1, <4>2
    <3>. QED  BY <3>1 DEF Queued
  <2>5. \A q \in Requests : ~At(q, "idle")' <=> Queued(q)'
    BY <1>3, <1>6, <2>3, <2>4 DEF LockInv, At
  <2>6. \A q \in Requests : task'[q].pc \notin Awaiting
    BY <1>3, <1>4, <1>6
  <2>. QED  BY <2>1, <2>2, <2>5, <2>6 DEF LockInv
<1>. QED  BY <1>1, <1>5, <1>6

LEMMA CallStep ==
    ASSUME TypeInv, LockInv, NEW r \in Requests, NEW k \in Realms, Call(r, k)
    PROVE  /\ TypeInv' /\ LockInv'
           /\ OnlyTask(r) /\ task'[r].pc = "lock"
<1>1. /\ task' = [task EXCEPT ![r].pc = "lock", ![r].realm = k]
      /\ lock' = Append(lock, r) /\ At(r, "idle")
      /\ UNCHANGED <<now, redis, crashes, jwks_cache, jwks_fetched_at, newest, fetches>>
  BY DEF Call, cache
<1>2. task[r] \in Task /\ lock \in Seq(Requests) /\ task \in [Requests -> Task]
  BY DEF TypeInv, TypeOK
<1>3. [task[r] EXCEPT !.pc = "lock", !.realm = k] \in Task
  BY <1>2 DEF Task
<1>4. /\ OnlyTask(r) /\ task'[r] = [task[r] EXCEPT !.pc = "lock", !.realm = k]
  BY <1>1, <1>2, <1>3 DEF OnlyTask
<1>5. task'[r].pc = "lock" /\ task'[r].realm = k
  BY <1>2, <1>4 DEF Task
<1>6. TypeInv'
  <2>1. TypeOK'
    BY <1>1, <1>2, <1>4 DEF TypeInv, TypeOK, OnlyTask
  <2>2. CallsOK'
    BY <1>1, <1>4, <1>5 DEF TypeInv, CallsOK, OnlyTask, At
  <2>. QED  BY <2>1, <2>2 DEF TypeInv
<1>7. LockInv'
  <2>. DEFINE n == Len(lock)
  <2>1. /\ n \in Nat /\ DOMAIN lock = 1..n /\ DOMAIN lock' = 1..(n + 1)
        /\ \A i \in DOMAIN lock : lock'[i] = lock[i]
        /\ lock'[n + 1] = r /\ lock' # << >>
    BY <1>1, <1>2
  <2>2. \A i \in DOMAIN lock : lock[i] # r
    BY <1>1 DEF LockInv, Queued
  <2>. HIDE DEF n
  <2>3. \A i \in DOMAIN lock' : i \in DOMAIN lock \/ i = n + 1
    BY <2>1
  <2>4. \A i, j \in DOMAIN lock' : lock'[i] = lock'[j] => i = j
    BY <2>1, <2>2, <2>3 DEF LockInv
  <2>5. \A q \in Requests : Queued(q)' <=> Queued(q) \/ q = r
    BY <2>1, <2>3 DEF Queued
  <2>6. \A q \in Requests : ~At(q, "idle")' <=> Queued(q)'
    BY <1>1, <1>4, <1>5, <2>5 DEF LockInv, OnlyTask, At
  <2>7. ASSUME NEW q \in Requests, task'[q].pc \in Awaiting
        PROVE  lock' # << >> /\ lock'[1] = q
    <3>1. q # r /\ task[q].pc \in Awaiting
      BY <1>4, <1>5, <2>7 DEF OnlyTask, Awaiting
    <3>2. lock # << >> /\ lock[1] = q
      BY <3>1 DEF LockInv
    <3>3. 1 \in DOMAIN lock
      BY <1>2, <3>2
    <3>. QED  BY <2>1, <3>2, <3>3
  <2>. QED  BY <2>4, <2>6, <2>7 DEF LockInv
<1>. QED  BY <1>4, <1>5, <1>6, <1>7

-----------------------------------------------------------------------------
(* What each step of a call does, for the proofs about types and keys.      *)

AwaitingNow(r, pc) == /\ GoesOn(r, pc, NULL) /\ task'[r].since = now

\* A failed attempt: once more, from pc, or out of the locked block.
Again(r, pc) ==
    \/ GoesOn(r, pc, NULL) /\ task'[r].since = task[r].since
    \/ OnlyTask(r) /\ task'[r].pc = "idle"

Untouched == UNCHANGED <<redis, jwks_cache, jwks_fetched_at, newest, fetches>>

LEMMA AgainTask ==
    ASSUME TypeOK, NEW r \in Requests, NEW pc \in Awaiting, Failed(r, pc) \/ Leave(r)
    PROVE  Again(r, pc)
BY FailedTask, LeaveTask DEF Again

LEMMA AcquireDoes ==
    ASSUME TypeInv, NEW r \in Requests, Acquire(r)
    PROVE  /\ Untouched
           /\ \/ AwaitingNow(r, "redis_get") /\ ~Fresh(task[r].realm)
              \/ OnlyTask(r) /\ task'[r].pc = "idle"
<1>1. TypeOK /\ "redis_get" \in Awaiting
  BY DEF TypeInv, Awaiting
<1>. QED  BY <1>1, AwaitTask, LeaveTask
          DEF Acquire, CheckAgain, AwaitingNow, Untouched, cache

LEMMA RedisGetDoes ==
    ASSUME TypeInv, NEW r \in Requests, RedisGet(r)
    PROVE  /\ Untouched
           /\ \/ /\ GoesOn(r, "got", IF InRedis(task[r].realm)
                                     THEN redis[task[r].realm].keys ELSE NULL)
                 /\ task'[r].since = task[r].since
              \/ Again(r, "redis_get")
<1>. DEFINE k == task[r].realm
            reply == IF InRedis(k) THEN redis[k].keys ELSE NULL
<1>1. TypeOK /\ "redis_get" \in Awaiting /\ "got" \in Awaiting /\ k \in Realms
  BY DEF TypeInv, Awaiting, CallsOK, RedisGet, At
<1>2. reply \in Time \cup {NULL}
  BY <1>1 DEF InRedis, Stored, TypeOK
<1>3. Answered(r, "got", reply) \/ Failed(r, "redis_get")
  BY DEF RedisGet
<1>4. Untouched
  BY DEF RedisGet, Untouched, cache
<1>. HIDE DEF reply
<1>5. \/ GoesOn(r, "got", reply) /\ task'[r].since = task[r].since
      \/ Again(r, "redis_get")
  BY <1>1, <1>2, <1>3, AnsweredTask, AgainTask
<1>. QED  BY <1>4, <1>5 DEF reply

LEMMA GotDoes ==
    ASSUME TypeInv, NEW r \in Requests, Got(r)
    PROVE  /\ UNCHANGED <<redis, fetches>>
           /\ \/ /\ task[r].reply \in Time /\ Store(r, task[r].realm)
                 /\ OnlyTask(r) /\ task'[r].pc = "idle"
              \/ Untouched /\ AwaitingNow(r, "fetch") /\ task[r].reply = NULL
<1>1. TypeOK /\ "fetch" \in Awaiting /\ task[r].reply \in Time \cup {NULL}
  BY DEF TypeInv, TypeOK, Awaiting, Task
<1>. QED  BY <1>1, AwaitTask, LeaveTask DEF Got, AwaitingNow, Untouched, cache

LEMMA FetchDoes ==
    ASSUME TypeInv, NEW r \in Requests, Fetch(r)
    PROVE  /\ Untouched
           /\ \/ GoesOn(r, "fetched", now) /\ task'[r].since = task[r].since
              \/ Again(r, "fetch")
<1>1. /\ TypeOK /\ "fetch" \in Awaiting /\ "fetched" \in Awaiting
      /\ now \in Time \cup {NULL}
  BY DEF TypeInv, TypeOK, Awaiting
<1>. QED  BY <1>1, AnsweredTask, AgainTask DEF Fetch, Raise, Untouched, cache

LEMMA FetchedDoes ==
    ASSUME TypeInv, NEW r \in Requests, Fetched(r)
    PROVE  /\ redis' = redis
           /\ \/ /\ Store(r, task[r].realm)
                 /\ fetches' = [fetches EXCEPT ![task[r].realm] = Append(@, now)]
                 /\ AwaitingNow(r, "redis_setex")
              \/ Untouched /\ Again(r, "fetch")
<1>1. /\ TypeOK /\ "fetch" \in Awaiting /\ "redis_setex" \in Awaiting
  BY DEF TypeInv, Awaiting
<1>. QED  BY <1>1, AwaitTask, AgainTask DEF Fetched, AwaitingNow, Untouched, cache

LEMMA RedisSetexDoes ==
    ASSUME TypeInv, NEW r \in Requests, RedisSetex(r)
    PROVE  /\ UNCHANGED <<jwks_cache, jwks_fetched_at, newest, fetches>>
           /\ Again(r, "redis_setex")
           /\ \/ redis' = [redis EXCEPT ![task[r].realm] =
                      [keys |-> jwks_cache[task[r].realm], expires |-> now + TTL]]
              \/ redis' = redis
<1>1. TypeOK /\ "redis_setex" \in Awaiting
  BY DEF TypeInv, Awaiting
<1>. QED  BY <1>1, AgainTask DEF RedisSetex, Expiry, cache

LEMMA ContinueTypes ==
    ASSUME TypeInv, LockInv, NEW r \in Requests, Continue(r)
    PROVE  TypeInv'
<1>. USE ConstantTypes DEF AwaitingNow, Again, GoesOn
<1>. DEFINE k == task[r].realm
<1>0. /\ OnlyTask(r) /\ ~At(r, "idle")
      /\ At(r, "idle")' \/ task'[r].realm = k
      /\ At(r, "fetched")' => task'[r].reply # NULL
      /\ UNCHANGED <<now, crashes>> /\ lock' \in Seq(Requests)
      /\ k \in Realms /\ TypeOK /\ now \in Time /\ fetches[k] \in Seq(Time)
  BY ContinueTask, LockStep DEF At, TypeInv, TypeOK, CallsOK
<1>1. CASE Untouched /\ ~At(r, "redis_setex")'
  BY <1>0, <1>1, StepTypes DEF Untouched, TypeInv, TypeOK
<1>2. CASE Acquire(r)
  BY <1>1, <1>2, AcquireDoes DEF At
<1>3. CASE RedisGet(r)
  BY <1>1, <1>3, RedisGetDoes DEF At
<1>4. CASE Fetch(r)
  BY <1>1, <1>4, FetchDoes DEF At
<1>5. CASE Got(r)
  <2>1. CASE Untouched /\ AwaitingNow(r, "fetch")
    BY <1>1, <2>1 DEF At
  <2>2. CASE /\ task[r].reply \in Time /\ Store(r, k) /\ task'[r].pc = "idle"
             /\ UNCHANGED <<redis, fetches>>
    <3>1. \A j \in Realms : jwks_cache[j] # NULL => jwks_cache'[j] # NULL
      BY <1>0, <2>2, StoreTypes, NullIsNone DEF TypeOK
    <3>. QED  BY <1>0, <2>2, <3>1, StoreTypes, StepTypes DEF At, TypeOK
  <2>. QED  BY <1>5, <2>1, <2>2, GotDoes
<1>6. CASE Fetched(r)
  <2>1. CASE Untouched /\ Again(r, "fetch")
    BY <1>1, <2>1 DEF At
  <2>2. CASE /\ Store(r, k) /\ AwaitingNow(r, "redis_setex") /\ redis' = redis
             /\ fetches' = [fetches EXCEPT ![k] = Append(@, now)]
    <3>1. task[r].reply \in Time
      BY <1>0, <1>6 DEF TypeInv, CallsOK, TypeOK, Task, Fetched
    <3>2. /\ \A j \in Realms : jwks_cache[j] # NULL => jwks_cache'[j] # NULL
          /\ jwks_cache'[k] # NULL
      BY <1>0, <2>2, <3>1, StoreTypes, NullIsNone DEF TypeOK
    <3>3. fetches' \in [Realms -> Seq(Time)]
      BY <1>0, <2>2 DEF TypeOK
    <3>. QED
      BY <1>0, <2>2, <3>1, <3>2, <3>3, StoreTypes, StepTypes DEF At, TypeOK
  <2>. QED  BY <1>6, <2>1, <2>2, FetchedDoes
<1>7. CASE RedisSetex(r)
  <2>1. jwks_cache[k] # NULL /\ jwks_cache[k] \in Time
    BY <1>0, <1>7 DEF RedisSetex, TypeInv, CallsOK, TypeOK
  <2>2. [keys |-> jwks_cache[k], expires |-> now + TTL] \in Stored
    BY <1>0, <2>1 DEF Stored, Time
  <2>3. redis' \in [Realms -> Stored \cup {NULL}]
    <3>. DEFINE entry == [keys |-> jwks_cache[k], expires |-> now + TTL]
    <3>1. redis' = [redis EXCEPT ![k] = entry] \/ redis' = redis
      BY <1>7, RedisSetexDoes
    <3>. HIDE DEF entry
    <3>2. entry \in Stored
      BY <2>2 DEF entry
    <3>. QED  BY <1>0, <3>1, <3>2 DEF TypeOK
  <2>. QED
    BY <1>0, <1>7, <2>1, <2>3, RedisSetexDoes, StepTypes DEF At, TypeOK
<1>. QED  BY <1>2, <1>3, <1>4, <1>5, <1>6, <1>7 DEF Continue

LEMMA TypesAndLockStep ==
    TypeInv /\ LockInv /\ [Next]_vars => TypeInv' /\ LockInv'
<1>. SUFFICES ASSUME TypeInv, LockInv, [Next]_vars PROVE TypeInv' /\ LockInv'
  OBVIOUS
<1>. USE ConstantTypes DEF cache
<1>1. CASE UNCHANGED vars
  BY <1>1 DEF vars, TypeInv, TypeOK, CallsOK, LockInv, Queued, At
<1>2. ASSUME NEW r \in Requests, NEW k \in Realms, FastPath(r, k) \/ Call(r, k)
      PROVE  TypeInv' /\ LockInv'
  BY <1>1, <1>2, CallStep DEF FastPath
<1>3. ASSUME NEW r \in Requests, Continue(r) PROVE TypeInv' /\ LockInv'
  BY <1>3, ContinueTypes, LockStep
<1>4. CASE Restart
  <2>1. \A r \in Requests : task'[r].pc = "idle"
    BY <1>4 DEF Restart, Idle
  <2>2. TypeInv'
    BY <1>4, <2>1, IdleType
       DEF Restart, TypeInv, TypeOK, CallsOK, At, NoKeys, NoFetch
  <2>3. LockInv'
    BY <1>4, <2>1 DEF Restart, LockInv, Queued, At, Awaiting
  <2>. QED  BY <2>2, <2>3
<1>5. CASE RedisLoss
  <2>1. TypeInv'
    BY <1>5 DEF RedisLoss, TypeInv, TypeOK, CallsOK, At, NoKeys
  <2>2. LockInv'
    BY <1>5 DEF RedisLoss, LockInv, Queued, At
  <2>. QED  BY <2>1, <2>2
<1>6. CASE Tick
  <2>1. TypeInv'
    BY <1>6 DEF Tick, TypeInv, TypeOK, CallsOK, At, Time
  <2>2. LockInv'
    BY <1>6 DEF Tick, LockInv, Queued, At
  <2>. QED  BY <2>1, <2>2
<1>. QED  BY <1>1, <1>2, <1>3, <1>4, <1>5, <1>6 DEF Next

-----------------------------------------------------------------------------
(* The keys.  Only the holder of the lock changes the caches, so what it has *)
(* found out about them stays true until it leaves.                          *)

LEMMA Numbers ==
    ASSUME TypeInv
    PROVE  /\ now \in Nat
           /\ \A r \in Requests : /\ task[r].since \in Nat
                                  /\ task[r].reply \in Nat \cup {NULL}
           /\ \A k \in Realms :
                  /\ jwks_cache[k] \in Nat \cup {NULL}
                  /\ jwks_fetched_at[k] \in Nat /\ newest[k] \in Nat
                  /\ fetches[k] \in Seq(Time)
                  /\ \A i \in DOMAIN fetches[k] : fetches[k][i] \in Nat
                  /\ redis[k] # NULL =>
                         redis[k].keys \in Nat /\ redis[k].expires \in Nat
<1>1. Time \subseteq Nat
  BY ConstantTypes DEF Time
<1>2. \A k \in Realms : fetches[k] \in Seq(Time)
  BY DEF TypeInv, TypeOK
<1>3. ASSUME NEW s \in Seq(Time), NEW i \in DOMAIN s PROVE s[i] \in Nat
  <2>1. s[i] \in Time
    OBVIOUS
  <2>. QED  BY <1>1, <2>1
<1>. QED  BY <1>1, <1>2, <1>3 DEF TypeInv, TypeOK, Task, Stored

\* A step of the holder preserves what the others rely on: they are not past the
\* lock.
LEMMA HolderStep ==
    ASSUME IInv, NEW r \in Requests, Continue(r),
           HolderOK(r)',
           \A k \in Realms : ProcessOK(k)' /\ FetchesOK(k)' /\ RedisOK(k)'
    PROVE  KeysInv'
<1>1. ASSUME NEW q \in Requests \ {r} PROVE HolderOK(q)'
  <2>1. task[q].pc \notin Awaiting /\ task'[q] = task[q]
    BY ContinueTask, OneHolder DEF IInv, OnlyTask
  <2>. QED  BY <2>1 DEF HolderOK
<1>. QED  BY <1>1 DEF KeysInv

LEMMA UntouchedKeys ==
    ASSUME IInv, Untouched, now' = now
    PROVE  \A k \in Realms : /\ ProcessOK(k)' /\ FetchesOK(k)' /\ RedisOK(k)'
                             /\ Fresh(k)' = Fresh(k) /\ InRedis(k)' = InRedis(k)
BY DEF IInv, KeysInv, Untouched, ProcessOK, FetchesOK, RedisOK, Fresh, InRedis

LEMMA IdleHolder ==
    ASSUME NEW r \in Requests, task'[r].pc = "idle" PROVE HolderOK(r)'
BY DEF HolderOK, Awaiting

\* An attempt that failed is no news.
LEMMA AgainHolder ==
    ASSUME IInv, NEW r \in Requests, Untouched, now' = now,
           task[r].pc \in Awaiting,
           NEW pc \in {"redis_get", "fetch"}, Again(r, pc),
           ~At(r, "redis_setex"),
           pc = "fetch" => At(r, "fetch") \/ At(r, "fetched")
    PROVE  HolderOK(r)'
<1>1. CASE task'[r].pc = "idle"
  BY <1>1, IdleHolder
<1>2. CASE GoesOn(r, pc, NULL) /\ task'[r].since = task[r].since
  <2>1. HolderOK(r) /\ task[r].realm \in Realms
    BY DEF IInv, KeysInv, TypeInv, CallsOK, Awaiting, At
  <2>2. ~Fresh(task[r].realm)
    BY <2>1 DEF HolderOK
  <2>3. pc = "fetch" => ~InRedis(task[r].realm)
    BY <2>1 DEF HolderOK
  <2>. QED
    BY <1>2, <2>1, <2>2, <2>3, UntouchedKeys DEF HolderOK, GoesOn, At
<1>. QED  BY <1>1, <1>2 DEF Again

LEMMA AcquireKeys ==
    ASSUME IInv, NEW r \in Requests, Acquire(r), now' = now, task[r].realm \in Realms
    PROVE  HolderOK(r)' /\ \A k \in Realms : ProcessOK(k)' /\ FetchesOK(k)' /\ RedisOK(k)'
<1>. USE ConstantTypes
<1>1. /\ TypeInv /\ Untouched /\ now \in Nat
      /\ \/ AwaitingNow(r, "redis_get") /\ ~Fresh(task[r].realm)
         \/ task'[r].pc = "idle"
  BY AcquireDoes, Numbers DEF IInv
<1>2. HolderOK(r)'
  BY <1>1, UntouchedKeys, IdleHolder DEF AwaitingNow, GoesOn, HolderOK, At
<1>. QED  BY <1>1, <1>2, UntouchedKeys

LEMMA RedisGetKeys ==
    ASSUME IInv, NEW r \in Requests, RedisGet(r), now' = now, task[r].realm \in Realms
    PROVE  HolderOK(r)' /\ \A k \in Realms : ProcessOK(k)' /\ FetchesOK(k)' /\ RedisOK(k)'
<1>. USE ConstantTypes
<1>. DEFINE k == task[r].realm
            reply == IF InRedis(k) THEN redis[k].keys ELSE NULL
<1>1. TypeInv /\ Untouched /\ task[r].pc = "redis_get" /\ task[r].pc \in Awaiting
  BY RedisGetDoes DEF IInv, RedisGet, At, Awaiting
<1>2. CASE Again(r, "redis_get")
  <2>1. HolderOK(r)'
    BY <1>1, <1>2, AgainHolder DEF At
  <2>. QED  BY <1>1, <2>1, UntouchedKeys
<1>3. CASE GoesOn(r, "got", reply) /\ task'[r].since = task[r].since
  <2>1. HolderOK(r) /\ ~Fresh(k) /\ task[r].since <= now /\ now <= task[r].since + Latency
    BY <1>1 DEF IInv, KeysInv, HolderOK, At
  <2>2. InRedis(k) => /\ redis[k] # NULL /\ now < redis[k].expires
                      /\ redis[k].keys \in Nat /\ redis[k].expires \in Nat
    <3>1. redis[k] # NULL => redis[k].keys \in Nat /\ redis[k].expires \in Nat
      BY <1>1, Numbers
    <3>. QED  BY <3>1 DEF InRedis
  <2>3. ASSUME InRedis(k)
        PROVE  /\ newest[k] <= reply /\ reply <= redis[k].keys /\ reply <= now
               /\ task[r].since < reply + TTL + 2 * Latency
    <3>0. RedisOK(k)
      BY DEF IInv, KeysInv
    <3>1. /\ reply = redis[k].keys /\ reply \in Nat /\ newest[k] <= reply
          /\ reply <= now
          /\ redis[k].expires <= reply + TTL + 2 * Latency
          /\ redis[k].expires \in Nat /\ now < redis[k].expires
      BY <2>2, <2>3, <3>0 DEF RedisOK
    <3>2. now \in Nat /\ task[r].since \in Nat
      BY <1>1, Numbers
    <3>. HIDE DEF reply
    <3>. QED  BY <2>1, <3>1, <3>2
  <2>4. reply # NULL => InRedis(k)
    OBVIOUS
  <2>5. reply = NULL => ~InRedis(k)
    BY <2>2
  <2>. HIDE DEF reply
  <2>6. HolderOK(r)'
    <3>1. /\ task'[r].pc = "got" /\ task'[r].reply = reply
          /\ task'[r].realm = k /\ task'[r].since = task[r].since
      BY <1>3 DEF GoesOn
    <3>2. Fresh(k)' = Fresh(k) /\ InRedis(k)' = InRedis(k)
      BY <1>1, <3>1, UntouchedKeys
    <3>. QED
      BY <1>1, <2>1, <2>3, <2>4, <2>5, <3>1, <3>2 DEF HolderOK, At, Untouched
  <2>. QED  BY <1>1, <2>6, UntouchedKeys
<1>. QED  BY <1>1, <1>2, <1>3, RedisGetDoes

LEMMA FetchKeys ==
    ASSUME IInv, NEW r \in Requests, Fetch(r), now' = now, task[r].realm \in Realms
    PROVE  HolderOK(r)' /\ \A k \in Realms : ProcessOK(k)' /\ FetchesOK(k)' /\ RedisOK(k)'
<1>. USE ConstantTypes
<1>. DEFINE k == task[r].realm
<1>1. TypeInv /\ Untouched /\ task[r].pc = "fetch" /\ task[r].pc \in Awaiting
  BY FetchDoes DEF IInv, Fetch, At, Awaiting
<1>2. CASE Again(r, "fetch")
  <2>1. HolderOK(r)'
    BY <1>1, <1>2, AgainHolder DEF At
  <2>. QED  BY <1>1, <2>1, UntouchedKeys
<1>3. CASE GoesOn(r, "fetched", now) /\ task'[r].since = task[r].since
  <2>1. /\ ~Fresh(k) /\ ~InRedis(k) /\ task[r].since <= now
        /\ now <= task[r].since + Latency /\ newest[k] <= now
    BY <1>1 DEF IInv, KeysInv, HolderOK, ProcessOK, At
  <2>2. HolderOK(r)'
    BY <1>1, <1>3, <2>1, UntouchedKeys, Numbers DEF HolderOK, GoesOn, At, Untouched
  <2>. QED  BY <1>1, <2>2, UntouchedKeys
<1>. QED  BY <1>1, <1>2, <1>3, FetchDoes

\* Storing keys that are not older than any before, when the cached ones are due.
LEMMA StoreKeys ==
    ASSUME IInv, NEW r \in Requests, NEW k \in Realms, now' = now,
           task[r].reply \in Time, Store(r, k),
           newest[k] <= task[r].reply, task[r].reply <= now,
           now < task[r].reply + TTL + 3 * Latency
    PROVE  /\ \A j \in Realms : ProcessOK(j)'
           /\ jwks_cache'[k] = task[r].reply /\ newest'[k] = task[r].reply
           /\ jwks_fetched_at'[k] = now
           /\ \A j \in Realms \ {k} : /\ jwks_cache'[j] = jwks_cache[j]
                                      /\ newest'[j] = newest[j]
                                      /\ jwks_fetched_at'[j] = jwks_fetched_at[j]
<1>. USE ConstantTypes
<1>1. TypeInv /\ now \in Nat /\ newest[k] \in Nat /\ task[r].reply \in Nat
  BY Numbers DEF IInv, Time
<1>2. /\ jwks_cache'[k] = task[r].reply /\ newest'[k] = task[r].reply
      /\ jwks_fetched_at'[k] = now
      /\ \A j \in Realms \ {k} : /\ jwks_cache'[j] = jwks_cache[j]
                                 /\ newest'[j] = newest[j]
                                 /\ jwks_fetched_at'[j] = jwks_fetched_at[j]
  <2>1. /\ jwks_cache' = [jwks_cache EXCEPT ![k] = task[r].reply]
        /\ jwks_fetched_at' = [jwks_fetched_at EXCEPT ![k] = now]
        /\ newest' = [newest EXCEPT
               ![k] = IF task[r].reply > newest[k] THEN task[r].reply ELSE newest[k]]
    BY <1>1, StoreTypes
  <2>2. (IF task[r].reply > newest[k] THEN task[r].reply ELSE newest[k])
            = task[r].reply
    BY <1>1
  <2>. QED  BY <1>1, <2>1, <2>2 DEF TypeInv, TypeOK
<1>3. ProcessOK(k)'
  BY <1>1, <1>2 DEF ProcessOK
<1>4. \A j \in Realms \ {k} : ProcessOK(j)'
  BY <1>2 DEF ProcessOK, IInv, KeysInv
<1>. QED  BY <1>2, <1>3, <1>4

LEMMA GotKeys ==
    ASSUME IInv, NEW r \in Requests, Got(r), now' = now, task[r].realm \in Realms
    PROVE  HolderOK(r)' /\ \A k \in Realms : ProcessOK(k)' /\ FetchesOK(k)' /\ RedisOK(k)'
<1>. USE ConstantTypes
<1>. DEFINE k     == task[r].realm
            reply == task[r].reply
<1>1. /\ TypeInv /\ At(r, "got") /\ task[r].pc \in Awaiting
      /\ UNCHANGED <<redis, fetches>> /\ HolderOK(r)
  BY GotDoes DEF IInv, KeysInv, Got, At, Awaiting
<1>2. CASE Untouched /\ AwaitingNow(r, "fetch") /\ reply = NULL
  <2>1. ~Fresh(k) /\ ~InRedis(k) /\ now \in Nat
    BY <1>1, <1>2, Numbers DEF HolderOK, At
  <2>2. HolderOK(r)'
    BY <1>2, <2>1, UntouchedKeys DEF AwaitingNow, GoesOn, HolderOK, At
  <2>. QED  BY <1>2, <2>2, UntouchedKeys
<1>3. CASE /\ reply \in Time /\ Store(r, k) /\ task'[r].pc = "idle"
  <2>1. /\ ~Fresh(k) /\ newest[k] <= reply
        /\ InRedis(k) => reply <= redis[k].keys
        /\ task[r].since < reply + TTL + 2 * Latency
        /\ now <= task[r].since + Latency /\ reply <= now
    BY <1>1, <1>3, NullIsNone DEF HolderOK, At
  <2>2. now \in Nat /\ reply \in Nat /\ task[r].since \in Nat
    BY <1>1, <1>3, Numbers DEF Time
  <2>3. now < reply + TTL + 3 * Latency
    BY <2>1, <2>2
  <2>4. /\ \A j \in Realms : ProcessOK(j)'
        /\ jwks_cache'[k] = reply /\ newest'[k] = reply /\ jwks_fetched_at'[k] = now
        /\ \A j \in Realms \ {k} : /\ jwks_cache'[j] = jwks_cache[j]
                                   /\ newest'[j] = newest[j]
                                   /\ jwks_fetched_at'[j] = jwks_fetched_at[j]
    BY <1>3, <2>1, <2>3, StoreKeys
  <2>5. HolderOK(r)'
    BY <1>3, IdleHolder
  <2>6. ASSUME NEW j \in Realms PROVE FetchesOK(j)' /\ RedisOK(j)'
    <3>1. FetchesOK(j) /\ RedisOK(j) /\ ProcessOK(j)
      BY DEF IInv, KeysInv
    <3>2. CASE j # k
      BY <1>1, <2>4, <3>1, <3>2 DEF FetchesOK, RedisOK, InRedis
    <3>3. CASE j = k
      <4>1. \A i \in DOMAIN fetches[k] : fetches[k][i] <= now
        BY <1>1, <2>2, <3>1, <3>3, Numbers DEF FetchesOK, ProcessOK
      <4>2. FetchesOK(j)'
        BY <1>1, <2>2, <2>4, <3>1, <3>3, <4>1 DEF FetchesOK
      <4>3. RedisOK(j)'
        BY <1>1, <2>1, <2>4, <3>1, <3>3 DEF RedisOK, InRedis
      <4>. QED  BY <4>2, <4>3
    <3>. QED  BY <3>2, <3>3
  <2>. QED  BY <2>4, <2>5, <2>6
<1>. QED  BY <1>1, <1>2, <1>3, GotDoes

LEMMA FetchedKeys ==
    ASSUME IInv, NEW r \in Requests, Fetched(r), now' = now, task[r].realm \in Realms
    PROVE  HolderOK(r)' /\ \A k \in Realms : ProcessOK(k)' /\ FetchesOK(k)' /\ RedisOK(k)'
<1>. USE ConstantTypes
<1>0. PICK k \in Realms : k = task[r].realm
  OBVIOUS
<1>. DEFINE reply == task[r].reply
<1>1. /\ TypeInv /\ At(r, "fetched") /\ task[r].pc = "fetched"
      /\ task[r].pc \in Awaiting /\ redis' = redis /\ HolderOK(r)
  BY FetchedDoes DEF IInv, KeysInv, Fetched, At, Awaiting
<1>2. /\ reply \in Time /\ reply \in Nat /\ now \in Nat /\ task[r].since \in Nat
      /\ reply # NULL
  BY <1>1, Numbers DEF TypeInv, CallsOK, TypeOK, Task
<1>3. /\ ~Fresh(k) /\ ~InRedis(k) /\ newest[k] <= reply /\ reply <= now
      /\ task[r].since <= reply /\ now <= task[r].since + Latency
  BY <1>0, <1>1, <1>2 DEF HolderOK, At
<1>4. CASE Untouched /\ Again(r, "fetch")
  <2>1. HolderOK(r)'
    BY <1>1, <1>4, AgainHolder DEF At
  <2>. QED  BY <1>4, <2>1, UntouchedKeys
<1>5. CASE /\ Store(r, k) /\ AwaitingNow(r, "redis_setex")
           /\ fetches' = [fetches EXCEPT ![k] = Append(@, now)]
  <2>1. now <= reply + Latency /\ now < reply + TTL + 3 * Latency
    BY <1>2, <1>3
  <2>2. /\ \A j \in Realms : ProcessOK(j)'
        /\ jwks_cache'[k] = reply /\ newest'[k] = reply /\ jwks_fetched_at'[k] = now
        /\ \A j \in Realms \ {k} : /\ jwks_cache'[j] = jwks_cache[j]
                                   /\ newest'[j] = newest[j]
                                   /\ jwks_fetched_at'[j] = jwks_fetched_at[j]
    BY <1>2, <1>3, <1>5, <2>1, StoreKeys
  <2>3. HolderOK(r)'
    <3>1. /\ task'[r].pc = "redis_setex" /\ task'[r].reply = NULL
          /\ task'[r].since = now /\ task'[r].realm = k
      BY <1>0, <1>5 DEF AwaitingNow, GoesOn
    <3>. QED  BY <1>2, <2>1, <2>2, <3>1 DEF HolderOK, At
  <2>4. ASSUME NEW j \in Realms \ {k} PROVE FetchesOK(j)' /\ RedisOK(j)'
    <3>1. FetchesOK(j) /\ RedisOK(j)
      BY DEF IInv, KeysInv
    <3>2. fetches'[j] = fetches[j]
      BY <1>1, <1>5 DEF TypeInv, TypeOK
    <3>. QED  BY <1>1, <2>2, <3>1, <3>2 DEF FetchesOK, RedisOK, InRedis
  <2>5. RedisOK(k)'
    <3>1. RedisOK(k)
      BY DEF IInv, KeysInv
    <3>2. ~(redis[k] # NULL /\ now < redis[k].expires)
      BY <1>3 DEF InRedis
    <3>. QED  BY <1>1, <2>2, <3>1, <3>2 DEF RedisOK, InRedis
  <2>6. FetchesOK(k)'
    <3>. DEFINE f == fetches[k]
    <3>1. /\ f \in Seq(Time) /\ fetches'[k] = Append(f, now) /\ now \in Time
          /\ \A i \in DOMAIN f : f[i] \in Nat
      BY <1>1, <1>5, Numbers DEF TypeInv, TypeOK
    <3>2. FetchesOK(k) /\ ProcessOK(k) /\ jwks_fetched_at[k] \in Nat
      BY <1>1, Numbers DEF IInv, KeysInv
    <3>3. ASSUME NEW i \in DOMAIN f PROVE f[i] + TTL <= now
      BY <1>2, <1>3, <3>1, <3>2 DEF FetchesOK, Fresh
    <3>4. /\ Len(f) \in Nat /\ DOMAIN f = 1..Len(f)
          /\ DOMAIN fetches'[k] = 1..(Len(f) + 1)
          /\ fetches'[k][Len(f) + 1] = now
          /\ \A i \in DOMAIN f : fetches'[k][i] = f[i]
      BY <3>1
    <3>5. jwks_cache'[k] # NULL
      BY <1>2, <2>2
    <3>6. ASSUME NEW i \in DOMAIN fetches'[k]
          PROVE  /\ fetches'[k][i] <= now
                 /\ i + 1 \in DOMAIN fetches'[k] =>
                        fetches'[k][i + 1] >= fetches'[k][i] + TTL
      <4>1. CASE i = Len(f) + 1
        <5>1. i + 1 \notin DOMAIN fetches'[k]
          BY <3>4, <4>1
        <5>. QED  BY <1>2, <3>4, <4>1, <5>1
      <4>2. CASE i \in DOMAIN f
        <5>1. fetches'[k][i] = f[i] /\ f[i] + TTL <= now /\ f[i] \in Nat
          BY <3>1, <3>3, <3>4, <4>2
        <5>2. CASE i + 1 \in DOMAIN f
          BY <1>2, <3>2, <3>4, <4>2, <5>1, <5>2 DEF FetchesOK
        <5>3. CASE i + 1 \notin DOMAIN f
          <6>1. i + 1 = Len(f) + 1
            BY <3>4, <4>2, <5>3
          <6>. QED  BY <1>2, <3>4, <5>1, <6>1
        <5>. QED  BY <5>2, <5>3
      <4>3. i \in DOMAIN f \/ i = Len(f) + 1
        BY <3>4, <3>6
      <4>. QED  BY <4>1, <4>2, <4>3
    <3>. QED  BY <2>2, <3>5, <3>6 DEF FetchesOK
  <2>. QED  BY <2>2, <2>3, <2>4, <2>5, <2>6
<1>. QED  BY <1>0, <1>1, <1>4, <1>5, FetchedDoes

LEMMA RedisSetexKeys ==
    ASSUME IInv, NEW r \in Requests, RedisSetex(r), now' = now, task[r].realm \in Realms
    PROVE  HolderOK(r)' /\ \A k \in Realms : ProcessOK(k)' /\ FetchesOK(k)' /\ RedisOK(k)'
<1>. USE ConstantTypes
<1>. DEFINE k == task[r].realm
<1>1. /\ TypeInv /\ At(r, "redis_setex") /\ task[r].pc = "redis_setex"
      /\ task[r].pc \in Awaiting /\ HolderOK(r) /\ Again(r, "redis_setex")
      /\ UNCHANGED <<jwks_cache, jwks_fetched_at, newest, fetches>>
  BY RedisSetexDoes DEF IInv, KeysInv, RedisSetex, At, Awaiting
<1>2. /\ jwks_cache[k] \in Nat /\ now \in Nat /\ task[r].since \in Nat
      /\ jwks_cache[k] # NULL /\ newest[k] \in Nat
  BY <1>1, Numbers DEF TypeInv, CallsOK
<1>3. /\ task[r].since <= now /\ now <= task[r].since + Latency
      /\ task[r].since <= jwks_cache[k] + Latency
  BY <1>1 DEF HolderOK, At
<1>4. HolderOK(r)'
  <2>1. CASE task'[r].pc = "idle"
    BY <2>1, IdleHolder
  <2>2. CASE GoesOn(r, "redis_setex", NULL) /\ task'[r].since = task[r].since
    BY <1>1, <1>3, <2>2 DEF GoesOn, HolderOK, At
  <2>. QED  BY <1>1, <2>1, <2>2 DEF Again
<1>5. ASSUME NEW j \in Realms PROVE ProcessOK(j)' /\ FetchesOK(j)'
  BY <1>1 DEF IInv, KeysInv, ProcessOK, FetchesOK
<1>6. ASSUME NEW j \in Realms PROVE RedisOK(j)'
  <2>. DEFINE entry == [keys |-> jwks_cache[k], expires |-> now + TTL]
  <2>1. redis' = [redis EXCEPT ![k] = entry] \/ redis' = redis
    BY <1>1, RedisSetexDoes
  <2>2. entry.keys = jwks_cache[k] /\ entry.expires = now + TTL
    OBVIOUS
  <2>. HIDE DEF entry
  <2>3. redis'[j] = redis[j] \/ (j = k /\ redis'[j] = entry)
    BY <1>1, <2>1 DEF TypeInv, TypeOK
  <2>4. CASE redis'[j] = redis[j]
    BY <1>1, <2>4 DEF IInv, KeysInv, RedisOK, InRedis
  <2>5. CASE j = k /\ redis'[j] = entry
    <3>1. jwks_cache[k] = newest[k] /\ newest[k] <= now
      BY <1>2 DEF IInv, KeysInv, ProcessOK
    <3>2. now + TTL <= jwks_cache[k] + TTL + 2 * Latency
      BY <1>2, <1>3
    <3>3. /\ redis'[j].keys = newest'[j] /\ newest'[j] \in Nat /\ newest'[j] <= now
          /\ redis'[j].expires <= redis'[j].keys + TTL + 2 * Latency
      BY <1>1, <1>2, <2>2, <2>5, <3>1, <3>2
    <3>. QED  BY <3>3 DEF RedisOK
  <2>. QED  BY <2>3, <2>4, <2>5
<1>. QED  BY <1>4, <1>5, <1>6

-----------------------------------------------------------------------------
LEMMA KeysStep == IInv /\ [Next]_vars => KeysInv'
<1>. SUFFICES ASSUME IInv, [Next]_vars PROVE KeysInv'
  OBVIOUS
<1>. USE ConstantTypes
<1>0. /\ TypeInv /\ LockInv /\ KeysInv /\ now \in Nat
      /\ \A k \in Realms : jwks_fetched_at[k] \in Nat
  BY Numbers DEF IInv
<1>1. CASE UNCHANGED vars
  BY <1>0, <1>1 DEF vars, cache, KeysInv, HolderOK, ProcessOK, FetchesOK, RedisOK,
     Fresh, InRedis, At
<1>2. ASSUME NEW r \in Requests, NEW k \in Realms, Call(r, k) PROVE KeysInv'
  <2>1. /\ OnlyTask(r) /\ task'[r].pc = "lock"
        /\ Untouched /\ now' = now
    BY <1>0, <1>2, CallStep DEF Call, Untouched, cache
  <2>2. HolderOK(r)'
    BY <2>1 DEF HolderOK, Awaiting
  <2>3. ASSUME NEW q \in Requests \ {r} PROVE HolderOK(q)'
    BY <1>0, <2>1 DEF KeysInv, HolderOK, OnlyTask, Untouched, Fresh, InRedis, At
  <2>. QED  BY <2>1, <2>2, <2>3, UntouchedKeys DEF KeysInv
<1>3. ASSUME NEW r \in Requests, Continue(r) PROVE KeysInv'
  <2>1. now' = now /\ task[r].realm \in Realms
    BY <1>0, <1>3, ContinueTask DEF TypeInv, CallsOK
  <2>2. HolderOK(r)' /\ \A k \in Realms : ProcessOK(k)' /\ FetchesOK(k)' /\ RedisOK(k)'
    BY <1>3, <2>1, AcquireKeys, RedisGetKeys, GotKeys, FetchKeys, FetchedKeys,
       RedisSetexKeys DEF Continue
  <2>. QED  BY <1>3, <2>2, HolderStep
<1>4. CASE Restart
  <2>1. \A r \in Requests : task'[r].pc = "idle"
    BY <1>4 DEF Restart, Idle
  <2>2. \A r \in Requests : HolderOK(r)'
    BY <2>1, IdleHolder
  <2>3. ASSUME NEW k \in Realms PROVE ProcessOK(k)' /\ FetchesOK(k)' /\ RedisOK(k)'
    <3>1. /\ jwks_cache'[k] = NULL /\ jwks_fetched_at'[k] = 0 /\ fetches'[k] = << >>
          /\ UNCHANGED <<now, redis, newest>>
      BY <1>4 DEF Restart, NoKeys, NoFetch
    <3>2. ProcessOK(k) /\ RedisOK(k)
      BY <1>0 DEF KeysInv
    <3>3. DOMAIN << >> = {}
      OBVIOUS
    <3>. QED
      BY <1>0, <3>1, <3>2, <3>3 DEF ProcessOK, FetchesOK, RedisOK, InRedis
  <2>. QED  BY <2>2, <2>3 DEF KeysInv
<1>5. CASE RedisLoss
  <2>1. /\ \A k \in Realms : redis'[k] = NULL
        /\ UNCHANGED <<now, task, jwks_cache, jwks_fetched_at, newest, fetches>>
    BY <1>5 DEF RedisLoss, NoKeys, cache
  <2>2. \A r \in Requests : HolderOK(r)'
    <3>1. \A r \in Requests : task[r].pc \in Awaiting => task[r].realm \in Realms
      BY <1>0 DEF TypeInv, CallsOK, Awaiting, At
    <3>. QED  BY <1>0, <2>1, <3>1 DEF KeysInv, HolderOK, Fresh, InRedis, At
  <2>3. \A k \in Realms : ProcessOK(k)' /\ FetchesOK(k)' /\ RedisOK(k)'
    BY <1>0, <2>1 DEF KeysInv, ProcessOK, FetchesOK, RedisOK, InRedis
  <2>. QED  BY <2>2, <2>3 DEF KeysInv
<1>6. CASE Tick
  <2>1. /\ now' = now + 1 /\ UNCHANGED <<task, redis, jwks_cache, jwks_fetched_at,
                                         newest, fetches>>
        /\ \A r \in Requests : task[r].pc \in Awaiting =>
               now < task[r].since + Latency
    BY <1>6 DEF Tick, cache
  <2>2. \A k \in Realms : /\ Fresh(k)' => Fresh(k)
                          /\ InRedis(k)' => InRedis(k)
    <3>1. \A k \in Realms : redis[k] # NULL => redis[k].expires \in Nat
      BY <1>0, Numbers
    <3>. QED  BY <1>0, <2>1, <3>1 DEF Fresh, InRedis
  <2>3. ASSUME NEW r \in Requests, task[r].pc \in Awaiting PROVE HolderOK(r)'
    <3>1. /\ HolderOK(r) /\ task[r].realm \in Realms
          /\ task[r].since \in Nat /\ task[r].reply \in Nat \cup {NULL}
      BY <1>0, <2>3, Numbers DEF KeysInv, TypeInv, CallsOK, Awaiting, At
    <3>2. /\ task[r].since <= now' /\ now' <= task[r].since + Latency
          /\ task[r].reply # NULL => task[r].reply <= now'
      BY <1>0, <2>1, <2>3, <3>1 DEF HolderOK
    <3>. QED  BY <2>1, <2>2, <2>3, <3>1, <3>2 DEF HolderOK, At
  <2>4. \A r \in Requests : HolderOK(r)'
    BY <2>1, <2>3 DEF HolderOK
  <2>5. ASSUME NEW k \in Realms PROVE ProcessOK(k)' /\ FetchesOK(k)' /\ RedisOK(k)'
    <3>1. /\ ProcessOK(k) /\ FetchesOK(k) /\ RedisOK(k)
          /\ newest[k] \in Nat
          /\ redis[k] # NULL => redis[k].keys \in Nat
      BY <1>0, Numbers DEF KeysInv
    <3>2. ProcessOK(k)' /\ FetchesOK(k)'
      BY <1>0, <2>1, <3>1 DEF ProcessOK, FetchesOK
    <3>3. redis[k] # NULL => redis[k].keys <= now'
      BY <1>0, <2>1, <3>1 DEF RedisOK
    <3>4. RedisOK(k)'
      BY <2>1, <2>2, <3>1, <3>3 DEF RedisOK
    <3>. QED  BY <3>2, <3>4
  <2>. QED  BY <2>4, <2>5 DEF KeysInv
<1>7. ASSUME NEW r \in Requests, NEW k \in Realms, FastPath(r, k) PROVE KeysInv'
  BY <1>1, <1>7 DEF FastPath
<1>. QED  BY <1>1, <1>2, <1>3, <1>4, <1>5, <1>6, <1>7 DEF Next

LEMMA IInvCorrect == Spec => []IInv
<1>1. IInv /\ [Next]_vars => IInv'
  BY TypesAndLockStep, KeysStep DEF IInv
<1>. QED  BY <1>1, InitInv, PTL DEF Spec

\* The caches, the lock's queue and the tasks have their types.
THEOREM TypeCorrect == Spec => []TypeOK
<1>1. IInv => TypeOK
  BY DEF IInv, TypeInv
<1>. QED  BY <1>1, IInvCorrect, PTL

\* The process never goes back to older keys, whatever is late, lost or restarted.
THEOREM KeysOnlyGetNewer == Spec => []KeysNeverGoBack
<1>1. IInv => KeysNeverGoBack
  BY DEF IInv, KeysInv, ProcessOK, KeysNeverGoBack
<1>. QED  BY <1>1, IInvCorrect, PTL

\* However many calls come at once, Keycloak's keys are fetched once per TTL.
THEOREM OneFetchPerTtl == Spec => []NoHerd
<1>1. IInv => NoHerd
  BY DEF IInv, KeysInv, FetchesOK, NoHerd
<1>. QED  BY <1>1, IInvCorrect, PTL

\* The two caches in a row and three calls bound the age of the keys in use.
THEOREM KeysAreYoung == Spec => []KeysAtMostTwoTtlOld
<1>1. ASSUME IInv, NEW k \in Realms, Fresh(k)
      PROVE  now < jwks_cache[k] + 2 * TTL + 3 * Latency
  <2>1. /\ now < jwks_fetched_at[k] + TTL
        /\ jwks_fetched_at[k] < jwks_cache[k] + TTL + 3 * Latency
        /\ jwks_cache[k] # NULL
    BY <1>1 DEF IInv, KeysInv, ProcessOK, Fresh
  <2>2. now \in Nat /\ jwks_fetched_at[k] \in Nat /\ jwks_cache[k] \in Nat
    BY <1>1, <2>1, Numbers DEF IInv
  <2>. QED  BY <2>1, <2>2, ConstantTypes
<1>2. IInv => KeysAtMostTwoTtlOld
  BY <1>1 DEF KeysAtMostTwoTtlOld
<1>. QED  BY <1>2, IInvCorrect, PTL
=============================================================================
