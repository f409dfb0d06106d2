-------------------------- MODULE TokenSessionProofs --------------------------
(***************************************************************************)
(* Theorems about TokenSession for every set of tokens and tasks, lifespan *)
(* and number of retries: its types, that a token put on the blacklist is  *)
(* refused, and that its Keycloak session is not closed before that.       *)
(***************************************************************************)
EXTENDS TokenSession, Integers, TLAPS

\* A request that is served has a token that was issued.
Issued ==
    \A r \in Requests : ~At(r, "idle") =>
        task[r].token \in Tokens /\ exp[task[r].token] # NULL

\* Only an issued token is revoked.
RevokedWasIssued == \A t \in revoked : exp[t] # NULL

\* A blacklist entry lasts at least as long as its token.
EntriesCover ==
    \A t \in Tokens : blacklist[t] # NULL => exp[t] # NULL /\ blacklist[t] >= exp[t]

\* The ttl of a logout that awaits SETEX reaches the end of its token from now on,
\* whenever the attempt takes effect.
TtlsCover ==
    \A r \in Requests : At(r, "setex") => now + task[r].ttl >= exp[task[r].token]

\* A logout calls Keycloak when the token is on the blacklist or over.
ListedOrOver(t) == blacklist[t] # NULL \/ now >= exp[t]
SessionsCloseLast ==
    \A r \in Requests : At(r, "keycloak") => ListedOrOver(task[r].token)

\* What was acknowledged to a logout is in Redis.
RevokedIsListed == \A t \in revoked : blacklist[t] # NULL

\* A request that came after its token was revoked got past the lookup only at the
\* end of the token.
PassedLate(r) ==
    /\ task[r].wasRevoked => task[r].token \in revoked
    /\ (At(r, "opa") \/ At(r, "allowed")) /\ task[r].wasRevoked =>
           task[r].seen # NULL /\ task[r].seen >= exp[task[r].token]
RevokedPassedLate == \A r \in Requests : PassedLate(r)

TypeInv == TypeOK /\ Issued /\ RevokedWasIssued

Covered == EntriesCover /\ TtlsCover

\* As long as Redis keeps its data.
Kept ==
    crashes = 0 =>
        /\ RevokedIsListed
        /\ SessionsCloseLast
        /\ RevokedPassedLate
        /\ SessionOutlivesToken

IInv == TypeInv /\ Covered /\ Kept

-----------------------------------------------------------------------------
LEMMA ConstantTypes ==
    /\ Lifespan \in Nat /\ Lifespan > 0
    /\ Retries \in Nat /\ Retries > 0
    /\ MaxTime \in Nat /\ MaxFailures \in Nat /\ MaxCrashes \in Nat
    /\ NULL \notin Nat /\ NULL \notin Tokens
BY NumbersAssumption, NullAssumption

LEMMA IdleType == Idle \in Task
BY ConstantTypes DEF Idle, Task, Steps

LEMMA InitInv == Init => IInv
<1>. SUFFICES ASSUME Init PROVE IInv
  OBVIOUS
<1>1. TypeOK
  BY ConstantTypes, IdleType DEF Init, TypeOK
<1>2. \A r \in Requests : task[r].pc = "idle" /\ task[r].wasRevoked = FALSE
  BY DEF Init, Idle
<1>3. TypeInv /\ Covered
  BY <1>1, <1>2 DEF Init, At, TypeInv, Issued, RevokedWasIssued,
     Covered, EntriesCover, TtlsCover
<1>4. Kept
  BY <1>2 DEF Init, At, Kept, RevokedIsListed, SessionsCloseLast,
     RevokedPassedLate, PassedLate, SessionOutlivesToken
<1>. QED  BY <1>3, <1>4 DEF IInv

-----------------------------------------------------------------------------
(* What the steps of a request do to the tasks.                             *)

\* A new request: its task, and what it says of the token it came with.
LEMMA ArriveTask ==
    ASSUME TypeOK, NEW r \in Requests, NEW t \in Tokens, NEW pc \in Steps,
           NEW ttl \in Nat, Arrive(r, t, pc, ttl)
    PROVE  /\ task' \in [Requests -> Task]
           /\ \A q \in Requests \ {r} : task'[q] = task[q]
           /\ task'[r].pc = pc /\ task'[r].token = t /\ task'[r].ttl = ttl
           /\ task'[r].wasRevoked = (t \in revoked)
<1>. DEFINE new == [pc |-> pc, token |-> t, tries |-> 0, ttl |-> ttl,
                    seen |-> NULL, wasRevoked |-> t \in revoked]
<1>1. 0 \in 0..(Retries - 1)
  BY ConstantTypes
<1>2. new \in Task
  BY <1>1 DEF Task
<1>3. /\ new.pc = pc /\ new.token = t /\ new.ttl = ttl
      /\ new.wasRevoked = (t \in revoked)
  OBVIOUS
<1>4. task' = [task EXCEPT ![r] = new]
  BY DEF Arrive
<1>. HIDE DEF new
<1>5. task'[r] = new /\ \A q \in Requests \ {r} : task'[q] = task[q]
  BY <1>4 DEF TypeOK
<1>6. task' \in [Requests -> Task]
  BY <1>2, <1>4 DEF TypeOK
<1>. QED  BY <1>3, <1>5, <1>6

\* An answered request: its task is free.
LEMMA DoneTask ==
    ASSUME TypeOK, NEW r \in Requests, Done(r)
    PROVE  /\ task' \in [Requests -> Task]
           /\ \A q \in Requests \ {r} : task'[q] = task[q]
           /\ task'[r].pc = "idle" /\ task'[r].wasRevoked = FALSE
BY IdleType DEF Done, TypeOK, Idle

\* What a request keeps while it is served.
SameRequest(r) ==
    /\ task'[r].token = task[r].token /\ task'[r].ttl = task[r].ttl
    /\ task'[r].seen = task[r].seen /\ task'[r].wasRevoked = task[r].wasRevoked

\* A request that goes on keeps its token, its ttl and its history.
LEMMA GoOnTask ==
    ASSUME TypeOK, NEW r \in Requests, NEW pc \in Steps, GoOn(r, pc)
    PROVE  /\ task' \in [Requests -> Task]
           /\ \A q \in Requests \ {r} : task'[q] = task[q]
           /\ task'[r].pc = pc /\ SameRequest(r)
<1>1. 0 \in 0..(Retries - 1)
  BY ConstantTypes
<1>2. [task[r] EXCEPT !.pc = pc, !.tries = 0] \in Task
  BY <1>1 DEF TypeOK, Task
<1>3. /\ task' \in [Requests -> Task]
      /\ task'[r] = [task[r] EXCEPT !.pc = pc, !.tries = 0]
      /\ \A q \in Requests \ {r} : task'[q] = task[q]
  BY <1>2 DEF GoOn, TypeOK
<1>. QED  BY <1>3 DEF TypeOK, Task, SameRequest

\* An attempt that is repeated changes only the number of attempts.
LEMMA RepeatTask ==
    ASSUME TypeOK, NEW r \in Requests, Repeat(r)
    PROVE  /\ task' \in [Requests -> Task]
           /\ \A q \in Requests \ {r} : task'[q] = task[q]
           /\ task'[r].pc = task[r].pc /\ SameRequest(r)
<1>1. task[r] \in Task /\ task[r].tries \in 0..(Retries - 1)
      /\ task[r].tries + 1 # Retries
  BY DEF TypeOK, Task, Repeat, LastTry
<1>2. task[r].tries + 1 \in 0..(Retries - 1)
  BY <1>1, ConstantTypes
<1>3. [task[r] EXCEPT !.tries = @ + 1] \in Task
  BY <1>1, <1>2 DEF Task
<1>4. /\ task' \in [Requests -> Task]
      /\ task'[r] = [task[r] EXCEPT !.tries = @ + 1]
      /\ \A q \in Requests \ {r} : task'[q] = task[q]
  BY <1>3 DEF Repeat, TypeOK
<1>. QED  BY <1>1, <1>4 DEF Task, SameRequest

-----------------------------------------------------------------------------
LEMMA TtlType ==
    ASSUME TypeOK, NEW t \in Tokens, exp[t] # NULL
    PROVE  /\ TtlOf(t) \in Nat /\ FirstStep(t) \in Steps
           /\ now + TtlOf(t) >= exp[t]
           /\ FirstStep(t) # "idle" /\ FirstStep(t) # "opa" /\ FirstStep(t) # "allowed"
           /\ FirstStep(t) = "keycloak" => now >= exp[t]
BY ConstantTypes DEF TypeOK, TtlOf, FirstStep, Steps

\* A step of a request that leaves the tokens alone keeps the types if its task is
\* in Task and has an issued token, or is free.
LEMMA StepTypes ==
    ASSUME TypeInv, NEW r \in Requests,
           task' \in [Requests -> Task],
           \A q \in Requests \ {r} : task'[q] = task[q],
           At(r, "idle")' \/ (task'[r].token = task[r].token /\ ~At(r, "idle")),
           UNCHANGED <<now, exp, sso, blacklist, revoked, crashes>>,
           failures' \in 0..MaxFailures
    PROVE  TypeInv'
BY DEF TypeInv, TypeOK, Issued, RevokedWasIssued, At

LEMMA FailsType == TypeOK /\ Fails => failures' \in 0..MaxFailures
BY ConstantTypes DEF TypeOK, Fails

LEMMA NextTypes == TypeInv /\ [Next]_vars => TypeInv'
<1>. SUFFICES ASSUME TypeInv, [Next]_vars PROVE TypeInv'
  OBVIOUS
<1>. USE ConstantTypes
<1>0. TypeOK
  BY DEF TypeInv
<1>1. ASSUME NEW t \in Tokens, Login(t) PROVE TypeInv'
  <2>1. now + Lifespan \in Nat
    BY <1>0 DEF TypeOK
  <2>. QED
    BY <1>0, <1>1, <2>1
       DEF Login, TypeInv, TypeOK, Issued, RevokedWasIssued, At
<1>2. ASSUME NEW r \in Requests, NEW t \in Tokens, Check(r, t) \/ Logout(r, t)
      PROVE  TypeInv'
  <2>1. /\ exp[t] # NULL
        /\ UNCHANGED <<now, exp, sso, blacklist, revoked, failures, crashes>>
    BY <1>2 DEF Check, Logout
  <2>2. PICK pc \in Steps, ttl \in Nat : Arrive(r, t, pc, ttl)
    <3>1. "jwks" \in Steps
      BY DEF Steps
    <3>. QED  BY <1>0, <1>2, <2>1, <3>1, TtlType DEF Check, Logout
  <2>3. /\ task' \in [Requests -> Task]
        /\ \A q \in Requests \ {r} : task'[q] = task[q]
        /\ task'[r].token = t
    BY <1>0, <2>2, ArriveTask
  <2>. QED
    BY <1>0, <2>1, <2>3 DEF TypeInv, TypeOK, Issued, RevokedWasIssued, At
<1>3. ASSUME NEW r \in Requests, Decode(r) \/ Decide(r) \/ Forward(r)
      PROVE  TypeInv'
  <2>1. /\ Done(r) \/ GoOn(r, "blacklist") \/ GoOn(r, "allowed")
        /\ ~At(r, "idle")
        /\ UNCHANGED <<now, exp, sso, blacklist, revoked, failures, crashes>>
    BY <1>3 DEF Decode, Decide, Forward, At
  <2>2. CASE Done(r)
    BY <1>0, <2>1, <2>2, DoneTask, StepTypes DEF At, TypeOK
  <2>3. ASSUME NEW pc \in {"blacklist", "allowed"}, GoOn(r, pc) PROVE TypeInv'
    <3>1. task[r] \in Task /\ pc \in Steps
      BY <1>0 DEF TypeOK, Steps
    <3>2. task'[r].token = task[r].token
      BY <1>0, <2>3, <3>1, GoOnTask DEF SameRequest
    <3>. QED
      BY <1>0, <2>1, <2>3, <3>1, <3>2, GoOnTask, StepTypes DEF TypeOK
  <2>. QED  BY <2>1, <2>2, <2>3
<1>4. ASSUME NEW r \in Requests, LookUp(r) PROVE TypeInv'
  <2>1. /\ ~At(r, "idle")
        /\ UNCHANGED <<now, exp, sso, blacklist, revoked, crashes>>
        /\ failures' \in 0..MaxFailures
    BY <1>0, <1>4, FailsType DEF LookUp, At, TypeOK
  <2>2. CASE Done(r)
    BY <1>0, <2>1, <2>2, DoneTask, StepTypes DEF At
  <2>3. CASE Repeat(r)
    <3>1. task[r] \in Task
      BY <1>0 DEF TypeOK
    <3>2. task'[r].token = task[r].token
      BY <1>0, <2>3, <3>1, RepeatTask DEF SameRequest
    <3>. QED  BY <1>0, <2>1, <2>3, <3>2, RepeatTask, StepTypes
  <2>4. CASE task' = [task EXCEPT ![r].pc = "opa", ![r].seen = now, ![r].tries = 0]
    <3>1. 0 \in 0..(Retries - 1) /\ "opa" \in Steps
      BY DEF Steps
    <3>2. task[r] \in Task /\ now \in 0..MaxTime
      BY <1>0 DEF TypeOK
    <3>3. [task[r] EXCEPT !.pc = "opa", !.seen = now, !.tries = 0] \in Task
      BY <3>1, <3>2 DEF Task
    <3>4. /\ task' \in [Requests -> Task]
          /\ \A q \in Requests \ {r} : task'[q] = task[q]
          /\ task'[r].token = task[r].token
      BY <1>0, <2>4, <3>2, <3>3 DEF TypeOK, Task
    <3>. QED  BY <2>1, <3>4, StepTypes
  <2>. QED  BY <1>4, <2>2, <2>3, <2>4 DEF LookUp, AfterOutage
<1>5. ASSUME NEW r \in Requests, SetEx(r) PROVE TypeInv'
  <2>. DEFINE t == task[r].token
  <2>1. /\ t \in Tokens /\ exp[t] # NULL /\ task[r] \in Task /\ task[r].ttl \in Nat
        /\ At(r, "setex") /\ ~At(r, "idle")
    BY <1>0, <1>5 DEF SetEx, At, TypeInv, Issued, TypeOK, Task
  <2>2. /\ blacklist' \in [Tokens -> Nat \cup {NULL}]
        /\ failures' \in 0..MaxFailures
        /\ revoked' \in {revoked, revoked \cup {t}}
        /\ UNCHANGED <<now, exp, sso, crashes>>
    <3>1. now + task[r].ttl \in Nat
      BY <1>0, <2>1 DEF TypeOK
    <3>. QED  BY <1>0, <1>5, <2>1, <3>1, FailsType DEF SetEx, TypeOK
  <2>3. Done(r) \/ GoOn(r, "keycloak") \/ Repeat(r)
    BY <1>5 DEF SetEx, AnswerLogout
  <2>4. /\ task' \in [Requests -> Task]
        /\ \A q \in Requests \ {r} : task'[q] = task[q]
        /\ task'[r].pc = "idle" \/ task'[r].token = t
    <3>1. "keycloak" \in Steps
      BY DEF Steps
    <3>2. CASE Done(r)
      BY <1>0, <3>2, DoneTask
    <3>3. CASE GoOn(r, "keycloak")
      BY <1>0, <2>1, <3>1, <3>3, GoOnTask DEF SameRequest
    <3>4. CASE Repeat(r)
      BY <1>0, <2>1, <3>4, RepeatTask DEF SameRequest
    <3>. QED  BY <2>3, <3>2, <3>3, <3>4
  <2>. QED
    BY <1>0, <2>1, <2>2, <2>4 DEF TypeInv, TypeOK, Issued, RevokedWasIssued, At
<1>6. ASSUME NEW r \in Requests, EndSession(r) PROVE TypeInv'
  <2>1. /\ sso' \subseteq sso
        /\ failures' \in 0..MaxFailures
        /\ Done(r)
        /\ UNCHANGED <<now, exp, blacklist, revoked, crashes>>
    BY <1>0, <1>6, FailsType DEF EndSession, AnswerLogout, TypeOK
  <2>. QED
    BY <1>0, <2>1, DoneTask DEF TypeInv, TypeOK, Issued, RevokedWasIssued, At
<1>7. CASE RedisLoss
  BY <1>0, <1>7 DEF RedisLoss, TypeInv, TypeOK, Issued, RevokedWasIssued, At
<1>8. CASE Second
  BY <1>0, <1>8 DEF Second, TypeInv, TypeOK, Issued, RevokedWasIssued, At
<1>9. CASE UNCHANGED vars
  BY <1>0, <1>9 DEF vars, TypeInv, TypeOK, Issued, RevokedWasIssued, At
<1>. QED
  BY <1>1, <1>2, <1>3, <1>4, <1>5, <1>6, <1>7, <1>8, <1>9 DEF Next

\* Tokens, Redis and the tasks have their types, whatever interleaves.
THEOREM TypeCorrect == Spec => []TypeOK
<1>1. IInv => TypeInv
  BY DEF IInv
<1>2. TypeInv => TypeOK
  BY DEF TypeInv
<1>. QED  BY <1>1, <1>2, InitInv, NextTypes, PTL DEF Spec

-----------------------------------------------------------------------------
(* The blacklist covers the tokens: what SETEX writes, at whatever attempt, *)
(* does not end before the token.                                           *)

LEMMA NextCovered == TypeInv /\ Covered /\ [Next]_vars => Covered'
<1>. SUFFICES ASSUME TypeInv, Covered, [Next]_vars PROVE Covered'
  OBVIOUS
<1>. USE ConstantTypes
<1>0. /\ TypeOK /\ EntriesCover /\ TtlsCover /\ Issued
      /\ \A r \in Requests : task[r] \in Task
      /\ now \in Nat
      /\ \A t \in Tokens : exp[t] # NULL => exp[t] \in Nat
      /\ \A t \in Tokens : blacklist[t] # NULL => blacklist[t] \in Nat
  BY DEF TypeInv, Covered, TypeOK
<1>1. ASSUME NEW t \in Tokens, Login(t) PROVE Covered'
  <2>1. /\ exp' = [exp EXCEPT ![t] = now + Lifespan] /\ exp[t] = NULL
        /\ UNCHANGED <<now, blacklist, task>>
    BY <1>1 DEF Login
  <2>2. blacklist[t] = NULL
    BY <1>0, <2>1 DEF EntriesCover
  <2>3. EntriesCover'
    BY <1>0, <2>1, <2>2 DEF EntriesCover, TypeOK
  <2>4. TtlsCover'
    BY <1>0, <2>1 DEF TtlsCover, Issued, At, TypeOK
  <2>. QED  BY <2>3, <2>4 DEF Covered
<1>2. ASSUME NEW r \in Requests, NEW t \in Tokens, Check(r, t) \/ Logout(r, t)
      PROVE  Covered'
  <2>1. exp[t] # NULL /\ UNCHANGED <<now, exp, blacklist>>
    BY <1>2 DEF Check, Logout
  <2>2. PICK pc \in Steps, ttl \in Nat :
            Arrive(r, t, pc, ttl) /\ (pc = "setex" => now + ttl >= exp[t])
    <3>1. "jwks" \in Steps
      BY DEF Steps
    <3>. QED  BY <1>0, <1>2, <2>1, <3>1, TtlType DEF Check, Logout
  <2>3. /\ \A q \in Requests \ {r} : task'[q] = task[q]
        /\ task'[r].pc = pc /\ task'[r].token = t /\ task'[r].ttl = ttl
    BY <1>0, <2>2, ArriveTask
  <2>4. TtlsCover'
    BY <1>0, <2>1, <2>2, <2>3 DEF TtlsCover, At
  <2>. QED  BY <1>0, <2>1, <2>4 DEF Covered, EntriesCover
<1>3. ASSUME NEW r \in Requests, UNCHANGED <<now, exp, blacklist>>,
             \A q \in Requests \ {r} : task'[q] = task[q],
             task'[r].pc = "setex" =>
                 task[r].pc = "setex" /\ task'[r].token = task[r].token
                                      /\ task'[r].ttl = task[r].ttl
      PROVE  Covered'
  BY <1>0, <1>3 DEF Covered, EntriesCover, TtlsCover, At
<1>4. ASSUME NEW r \in Requests, Decode(r) \/ Decide(r) \/ Forward(r)
      PROVE  Covered'
  <2>1. Done(r) \/ GoOn(r, "blacklist") \/ GoOn(r, "allowed")
    BY <1>4 DEF Decode, Decide, Forward
  <2>2. UNCHANGED <<now, exp, blacklist>>
    BY <1>4 DEF Decode, Decide, Forward
  <2>3. ASSUME NEW pc \in {"blacklist", "allowed"}, GoOn(r, pc) PROVE Covered'
    <3>1. pc \in Steps /\ pc # "setex"
      BY DEF Steps
    <3>2. task'[r].pc = pc
      BY <1>0, <2>3, <3>1, GoOnTask DEF SameRequest
    <3>. QED  BY <1>0, <1>3, <2>2, <2>3, <3>1, <3>2, GoOnTask
  <2>. QED  BY <1>0, <1>3, <2>1, <2>2, <2>3, DoneTask
<1>5. ASSUME NEW r \in Requests, LookUp(r) PROVE Covered'
  <2>1. UNCHANGED <<now, exp, blacklist>> /\ task[r].pc = "blacklist"
    BY <1>5 DEF LookUp, At
  <2>2. CASE Done(r)
    BY <1>0, <1>3, <2>1, <2>2, DoneTask
  <2>3. CASE Repeat(r)
    <3>1. task'[r].pc = "blacklist"
      BY <1>0, <2>1, <2>3, RepeatTask DEF SameRequest
    <3>. QED  BY <1>0, <1>3, <2>1, <2>3, <3>1, RepeatTask
  <2>4. CASE task' = [task EXCEPT ![r].pc = "opa", ![r].seen = now, ![r].tries = 0]
    <3>1. /\ \A q \in Requests \ {r} : task'[q] = task[q]
          /\ task'[r].pc = "opa"
      BY <1>0, <2>4 DEF TypeOK, Task
    <3>. QED  BY <1>3, <2>1, <3>1
  <2>. QED  BY <1>5, <2>2, <2>3, <2>4 DEF LookUp, AfterOutage
<1>6. ASSUME NEW r \in Requests, SetEx(r) PROVE Covered'
  <2>. DEFINE t == task[r].token
  <2>1. /\ t \in Tokens /\ exp[t] # NULL /\ exp[t] \in Nat
        /\ task[r].ttl \in Nat /\ now + task[r].ttl >= exp[t]
        /\ task[r].pc = "setex"
        /\ UNCHANGED <<now, exp>>
    BY <1>0, <1>6 DEF SetEx, At, Issued, TtlsCover, Task
  <2>2. \/ blacklist' = [blacklist EXCEPT ![t] = now + task[r].ttl]
        \/ blacklist' = blacklist
    BY <1>6 DEF SetEx
  <2>3. EntriesCover'
    BY <1>0, <2>1, <2>2 DEF EntriesCover, TypeOK
  <2>4. /\ \A q \in Requests \ {r} : task'[q] = task[q]
        /\ task'[r].pc = "setex" => task'[r].token = t /\ task'[r].ttl = task[r].ttl
    <3>1. Done(r) \/ GoOn(r, "keycloak") \/ Repeat(r)
      BY <1>6 DEF SetEx, AnswerLogout
    <3>2. CASE Done(r)
      BY <1>0, <3>2, DoneTask
    <3>3. CASE GoOn(r, "keycloak")
      <4>1. "keycloak" \in Steps
        BY DEF Steps
      <4>. QED  BY <1>0, <3>3, <4>1, GoOnTask DEF SameRequest
    <3>4. CASE Repeat(r)
      BY <1>0, <3>4, RepeatTask DEF SameRequest
    <3>. QED  BY <3>1, <3>2, <3>3, <3>4
  <2>5. TtlsCover'
    BY <1>0, <2>1, <2>4 DEF TtlsCover, At
  <2>. QED  BY <2>3, <2>5 DEF Covered
<1>7. ASSUME NEW r \in Requests, EndSession(r) PROVE Covered'
  BY <1>0, <1>3, <1>7, DoneTask DEF EndSession, AnswerLogout
<1>8. CASE RedisLoss
  BY <1>0, <1>8 DEF RedisLoss, Covered, EntriesCover, TtlsCover, At
<1>9. CASE Second
  <2>1. \A r \in Requests : At(r, "setex") =>
            /\ task[r].token \in Tokens /\ exp[task[r].token] # NULL
            /\ task[r].ttl \in Nat
    BY <1>0 DEF Issued, At, Task
  <2>. QED
    BY <1>0, <1>9, <2>1 DEF Second, Covered, EntriesCover, TtlsCover, At
<1>10. CASE UNCHANGED vars
  BY <1>0, <1>10 DEF vars, Covered, EntriesCover, TtlsCover, At
<1>. QED
  BY <1>1, <1>2, <1>4, <1>5, <1>6, <1>7, <1>8, <1>9, <1>10 DEF Next

-----------------------------------------------------------------------------
(* What a logout was told holds for the requests after it, as long as Redis *)
(* keeps its data.                                                          *)

LEMMA NextKept == IInv /\ [Next]_vars => Kept'
<1>. SUFFICES ASSUME IInv, [Next]_vars, crashes' = 0
              PROVE  /\ RevokedIsListed' /\ SessionsCloseLast'
                     /\ RevokedPassedLate' /\ SessionOutlivesToken'
  BY DEF Kept
<1>. DEFINE Goal == /\ RevokedIsListed' /\ SessionsCloseLast'
                    /\ RevokedPassedLate' /\ SessionOutlivesToken'
<1>. USE ConstantTypes
<1>0. /\ TypeOK /\ EntriesCover /\ TtlsCover /\ Issued /\ RevokedWasIssued
      /\ revoked \subseteq Tokens
      /\ \A r \in Requests : task[r] \in Task
      /\ now \in 0..MaxTime /\ now \in Nat
      /\ \A t \in Tokens : exp[t] # NULL => exp[t] \in Nat
      /\ \A t \in Tokens : blacklist[t] # NULL => blacklist[t] \in Nat
  BY DEF IInv, TypeInv, Covered, TypeOK
<1>1. CASE RedisLoss
  BY <1>0, <1>1 DEF RedisLoss, TypeOK
<1>2. ~RedisLoss => crashes = 0
  BY <1>0 DEF Next, vars, Login, Check, Logout, Decode, LookUp, Decide, Forward,
     SetEx, EndSession, Second
<1>3. ASSUME crashes = 0
      PROVE  /\ RevokedIsListed /\ SessionsCloseLast /\ SessionOutlivesToken
             /\ \A r \in Requests : PassedLate(r)
  BY <1>3 DEF IInv, Kept, RevokedPassedLate, PassedLate
<1>4. ASSUME NEW t \in Tokens, Login(t), crashes = 0 PROVE Goal
  <2>1. /\ exp' = [exp EXCEPT ![t] = now + Lifespan] /\ exp[t] = NULL
        /\ sso' = sso \cup {t}
        /\ UNCHANGED <<now, blacklist, task, revoked>>
    BY <1>4 DEF Login
  <2>2. \A u \in Tokens \ {t} : exp'[u] = exp[u]
    BY <1>0, <2>1 DEF TypeOK
  <2>3. \A r \in Requests : ~At(r, "idle") => task[r].token \in Tokens \ {t}
    BY <1>0, <2>1 DEF Issued
  <2>4. RevokedIsListed' /\ SessionsCloseLast'
    BY <1>3, <1>4, <2>1, <2>2, <2>3 DEF RevokedIsListed, SessionsCloseLast,
       ListedOrOver, At
  <2>5. RevokedPassedLate'
    BY <1>3, <1>4, <2>1, <2>2, <2>3 DEF RevokedPassedLate, PassedLate, At
  <2>6. SessionOutlivesToken'
    BY <1>3, <1>4, <2>1, <2>2 DEF SessionOutlivesToken
  <2>. QED  BY <2>4, <2>5, <2>6
<1>5. ASSUME NEW r \in Requests, crashes = 0,
             UNCHANGED <<now, exp, sso, blacklist, revoked>>,
             \A q \in Requests \ {r} : task'[q] = task[q],
             At(r, "keycloak")' => ListedOrOver(task'[r].token),
             PassedLate(r)'
      PROVE  Goal
  <2>1. RevokedIsListed' /\ SessionOutlivesToken'
    BY <1>3, <1>5 DEF RevokedIsListed, SessionOutlivesToken
  <2>2. SessionsCloseLast'
    BY <1>3, <1>5 DEF SessionsCloseLast, ListedOrOver, At
  <2>3. RevokedPassedLate'
    BY <1>3, <1>5 DEF RevokedPassedLate, PassedLate, At
  <2>. QED  BY <2>1, <2>2, <2>3
<1>6. ASSUME NEW r \in Requests, NEW t \in Tokens, Check(r, t) \/ Logout(r, t),
             crashes = 0
      PROVE  Goal
  <2>1. exp[t] # NULL /\ UNCHANGED <<now, exp, sso, blacklist, revoked>>
    BY <1>6 DEF Check, Logout
  <2>2. PICK pc \in Steps \ {"opa", "allowed"}, ttl \in Nat :
            Arrive(r, t, pc, ttl) /\ (pc = "keycloak" => now >= exp[t])
    <3>1. "jwks" \in Steps
      BY DEF Steps
    <3>. QED  BY <1>0, <1>6, <2>1, <3>1, TtlType DEF Check, Logout
  <2>3. /\ \A q \in Requests \ {r} : task'[q] = task[q]
        /\ task'[r].pc = pc /\ task'[r].token = t
        /\ task'[r].wasRevoked = (t \in revoked)
    BY <1>0, <2>2, ArriveTask
  <2>4. At(r, "keycloak")' => ListedOrOver(task'[r].token)
    BY <2>2, <2>3 DEF At, ListedOrOver
  <2>5. PassedLate(r)'
    BY <2>1, <2>2, <2>3 DEF PassedLate, At
  <2>. QED  BY <1>5, <1>6, <2>1, <2>3, <2>4, <2>5
<1>7. ASSUME NEW r \in Requests, crashes = 0, Done(r),
             UNCHANGED <<now, exp, sso, blacklist, revoked>>
      PROVE  Goal
  <2>1. /\ \A q \in Requests \ {r} : task'[q] = task[q]
        /\ task'[r].pc = "idle" /\ task'[r].wasRevoked = FALSE
    BY <1>0, <1>7, DoneTask
  <2>2. PassedLate(r)' /\ ~At(r, "keycloak")'
    BY <2>1 DEF PassedLate, At
  <2>. QED  BY <1>5, <1>7, <2>1, <2>2
\* A served request that goes on, with what it has seen.
<1>8. ASSUME NEW r \in Requests, crashes = 0, SameRequest(r),
             task'[r].pc # "keycloak",
             task'[r].pc \in {"opa", "allowed"} => task[r].pc \in {"opa", "allowed"},
             \A q \in Requests \ {r} : task'[q] = task[q],
             UNCHANGED <<now, exp, sso, blacklist, revoked>>
      PROVE  Goal
  <2>1. PassedLate(r)'
    BY <1>3, <1>8 DEF PassedLate, SameRequest, At
  <2>. QED  BY <1>5, <1>8, <2>1 DEF At
<1>9. ASSUME NEW r \in Requests, Decode(r) \/ Decide(r) \/ Forward(r), crashes = 0
      PROVE  Goal
  <2>1. /\ \/ Done(r)
           \/ GoOn(r, "blacklist")
           \/ GoOn(r, "allowed") /\ task[r].pc = "opa"
        /\ UNCHANGED <<now, exp, sso, blacklist, revoked>>
    BY <1>9 DEF Decode, Decide, Forward, At
  <2>2. CASE GoOn(r, "blacklist")
    <3>1. "blacklist" \in Steps
      BY DEF Steps
    <3>. QED  BY <1>0, <1>8, <1>9, <2>1, <2>2, <3>1, GoOnTask
  <2>3. CASE GoOn(r, "allowed") /\ task[r].pc = "opa"
    <3>1. "allowed" \in Steps
      BY DEF Steps
    <3>. QED  BY <1>0, <1>8, <1>9, <2>1, <2>3, <3>1, GoOnTask
  <2>. QED  BY <1>7, <1>9, <2>1, <2>2, <2>3
<1>10. ASSUME NEW r \in Requests, LookUp(r), crashes = 0 PROVE Goal
  <2>1. UNCHANGED <<now, exp, sso, blacklist, revoked>> /\ task[r].pc = "blacklist"
    BY <1>10 DEF LookUp, At
  <2>2. CASE Repeat(r)
    BY <1>0, <1>8, <1>10, <2>1, <2>2, RepeatTask
  <2>3. CASE /\ NotListed(task[r].token)
             /\ task' = [task EXCEPT ![r].pc = "opa", ![r].seen = now, ![r].tries = 0]
    <3>1. /\ \A q \in Requests \ {r} : task'[q] = task[q]
          /\ task'[r].pc = "opa" /\ task'[r].seen = now
          /\ task'[r].token = task[r].token
          /\ task'[r].wasRevoked = task[r].wasRevoked
      BY <1>0, <2>3 DEF TypeOK, Task
    <3>2. ASSUME task[r].wasRevoked PROVE now >= exp[task[r].token]
      <4>. DEFINE t == task[r].token
      <4>1. t \in Tokens /\ t \in revoked /\ blacklist[t] # NULL
        BY <1>0, <1>3, <1>10, <3>2 DEF PassedLate, RevokedIsListed
      <4>2. /\ exp[t] # NULL /\ blacklist[t] >= exp[t]
            /\ blacklist[t] \in Nat /\ exp[t] \in Nat
        BY <1>0, <4>1 DEF EntriesCover
      <4>3. now >= blacklist[t]
        BY <1>0, <2>3, <4>1, <4>2 DEF NotListed
      <4>. QED  BY <1>0, <4>2, <4>3
    <3>3. PassedLate(r)'
      BY <1>0, <1>3, <1>10, <2>1, <3>1, <3>2 DEF PassedLate, At
    <3>. QED  BY <1>5, <1>10, <2>1, <3>1, <3>3 DEF At
  <2>. QED  BY <1>7, <1>10, <2>1, <2>2, <2>3 DEF LookUp, AfterOutage
<1>11. ASSUME NEW r \in Requests, SetEx(r), crashes = 0 PROVE Goal
  <2>. DEFINE t == task[r].token
  <2>1. /\ t \in Tokens /\ task[r].pc = "setex"
        /\ now + task[r].ttl # NULL
        /\ UNCHANGED <<now, exp, sso>>
    BY <1>0, <1>11 DEF SetEx, At, Issued, Task
  <2>2. /\ \A u \in Tokens : blacklist[u] # NULL => blacklist'[u] # NULL
        /\ \/ revoked' = revoked \cup {t} /\ blacklist'[t] # NULL
                                      /\ GoOn(r, "keycloak")
           \/ revoked' = revoked /\ (Done(r) \/ Repeat(r))
    BY <1>0, <1>11, <2>1 DEF SetEx, TypeOK, AnswerLogout
  <2>3. /\ \A q \in Requests \ {r} : task'[q] = task[q]
        /\ \/ /\ task'[r].pc = "keycloak" /\ SameRequest(r) /\ blacklist'[t] # NULL
           \/ task'[r].pc = "idle" /\ task'[r].wasRevoked = FALSE
           \/ task'[r].pc = "setex" /\ SameRequest(r)
    <3>1. "keycloak" \in Steps
      BY DEF Steps
    <3>. QED  BY <1>0, <2>1, <2>2, <3>1, DoneTask, GoOnTask, RepeatTask
  <2>4. RevokedIsListed'
    BY <1>0, <1>3, <1>11, <2>2 DEF RevokedIsListed
  <2>5. SessionsCloseLast'
    <3>1. ASSUME NEW q \in Requests \ {r}, At(q, "keycloak")'
          PROVE  ListedOrOver(task[q].token)'
      <4>1. At(q, "keycloak") /\ task[q].token \in Tokens /\ task'[q] = task[q]
        BY <1>0, <2>3, <3>1 DEF At, Issued
      <4>. QED
        BY <1>3, <1>11, <2>1, <2>2, <4>1 DEF SessionsCloseLast, ListedOrOver
    <3>2. At(r, "keycloak")' => ListedOrOver(task[r].token)'
      BY <2>1, <2>3 DEF At, ListedOrOver, SameRequest
    <3>. QED  BY <3>1, <3>2 DEF SessionsCloseLast
  <2>6. RevokedPassedLate'
    <3>1. revoked \subseteq revoked'
      BY <2>2
    <3>2. ASSUME NEW q \in Requests \ {r} PROVE PassedLate(q)'
      BY <1>3, <1>11, <2>1, <2>3, <3>1 DEF PassedLate, At
    <3>3. PassedLate(r)'
      BY <1>3, <1>11, <2>1, <2>3, <3>1 DEF PassedLate, SameRequest, At
    <3>. QED  BY <3>2, <3>3 DEF RevokedPassedLate, PassedLate
  <2>7. SessionOutlivesToken'
    BY <1>3, <1>11, <2>1, <2>2 DEF SessionOutlivesToken
  <2>. QED  BY <2>4, <2>5, <2>6, <2>7
<1>12. ASSUME NEW r \in Requests, EndSession(r), crashes = 0 PROVE Goal
  <2>. DEFINE t == task[r].token
  <2>1. /\ Done(r) /\ sso' \in {sso, sso \ {t}} /\ At(r, "keycloak")
        /\ UNCHANGED <<now, exp, blacklist, revoked>>
    BY <1>12 DEF EndSession, AnswerLogout
  <2>2. /\ \A q \in Requests \ {r} : task'[q] = task[q]
        /\ task'[r].pc = "idle" /\ task'[r].wasRevoked = FALSE
    BY <1>0, <2>1, DoneTask
  <2>3. SessionOutlivesToken'
    BY <1>3, <1>12, <2>1 DEF SessionOutlivesToken, SessionsCloseLast, ListedOrOver
  <2>4. RevokedIsListed' /\ SessionsCloseLast'
    BY <1>3, <1>12, <2>1, <2>2
       DEF RevokedIsListed, SessionsCloseLast, ListedOrOver, At
  <2>5. RevokedPassedLate'
    BY <1>3, <1>12, <2>1, <2>2 DEF RevokedPassedLate, PassedLate, At
  <2>. QED  BY <2>3, <2>4, <2>5
<1>13. ASSUME Second, crashes = 0 PROVE Goal
  <2>1. now' = now + 1 /\ UNCHANGED <<exp, sso, blacklist, task, revoked>>
    BY <1>13 DEF Second
  <2>2. \A t \in Tokens : exp[t] # NULL /\ now >= exp[t] => now' >= exp[t]
    BY <1>0, <2>1
  <2>3. SessionsCloseLast'
    BY <1>0, <1>3, <1>13, <2>1, <2>2
       DEF SessionsCloseLast, ListedOrOver, Issued, At
  <2>4. SessionOutlivesToken' /\ RevokedIsListed'
    BY <1>3, <1>13, <2>1, <2>2 DEF SessionOutlivesToken, RevokedIsListed
  <2>5. RevokedPassedLate'
    BY <1>3, <1>13, <2>1 DEF RevokedPassedLate, PassedLate, At
  <2>. QED  BY <2>3, <2>4, <2>5
<1>14. ASSUME UNCHANGED vars, crashes = 0 PROVE Goal
  BY <1>3, <1>14 DEF vars, RevokedIsListed, SessionsCloseLast, ListedOrOver,
     RevokedPassedLate, PassedLate, SessionOutlivesToken, At
<1>. QED
  BY <1>1, <1>2, <1>4, <1>6, <1>9, <1>10, <1>11, <1>12, <1>13, <1>14 DEF Next

LEMMA IInvCorrect == Spec => []IInv
<1>1. IInv /\ [Next]_vars => IInv'
  BY NextTypes, NextCovered, NextKept DEF IInv
<1>. QED  BY <1>1, InitInv, PTL DEF Spec

\* A request that comes after its token was put on the blacklist is refused, but for
\* the last second of the token, as long as Redis keeps its data.
THEOREM RevokedStaysRefused == Spec => []RevokedIsRefused
<1>1. IInv => RevokedIsRefused
  BY DEF IInv, Kept, RevokedPassedLate, PassedLate, RevokedIsRefused
<1>. QED  BY <1>1, IInvCorrect, PTL

\* A logout does not close the Keycloak session of a token that Redis would still
\* let pass, as long as Redis keeps its data.
THEOREM SessionClosesLast == Spec => []SessionOutlivesToken
<1>1. IInv => SessionOutlivesToken
  <2>1. ASSUME IInv, NEW t \in Tokens,
               exp[t] # NULL, t \notin sso, crashes = 0
        PROVE  blacklist[t] # NULL \/ now >= exp[t]
    BY <2>1 DEF IInv, Kept, SessionOutlivesToken
  <2>. QED  BY <2>1 DEF SessionOutlivesToken
<1>. QED  BY <1>1, IInvCorrect, PTL
=============================================================================
