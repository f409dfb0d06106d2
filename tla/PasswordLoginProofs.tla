------------------------- MODULE PasswordLoginProofs -------------------------
(***************************************************************************)
(* Theorems about the two components a posted password meets.              *)
(* RateLimiter, for every set of clients, limit, window and cleanup        *)
(* period: its types, that it implements LoginQuota, the bound of twice    *)
(* the limit on what passes in one window's length, and that refusals are  *)
(* deserved.  FederatedUsers, for every set of users, logins and roles and *)
(* every number of attempts and changes: its types, that a token takes a   *)
(* password that was right during the login, and where its roles come      *)
(* from.  The two share no name; each theorem is about one of them.        *)
(***************************************************************************)
EXTENDS RateLimiter, FederatedUsers, Integers, TLAPS

\* A stored window is not longer than Window and began in the past.
EntriesOK ==
    \A c \in Clients : rl_state[c] # NULL =>
        /\ rl_state[c].reset_at >= Window
        /\ rl_state[c].reset_at <= now + Window

TypeInv == TypeOK /\ EntriesOK

\* Attempt x counts in a window that has not begun after it.
WindowOf(x) == x.window <= x.at /\ x.at < x.window + Window

\* Attempt y counts in a later window than attempt x.
Later(x, y) == x.window + Window <= y.window

\* Every attempt lies in its window; attempts Limit apart are in different ones.
AttemptsSpread ==
    \A c \in Clients : \A i \in DOMAIN allowed[c] :
        /\ WindowOf(allowed[c][i])
        /\ i + Limit \in DOMAIN allowed[c] =>
               Later(allowed[c][i], allowed[c][i + Limit])

\* The attempts before the first n are in windows over by time s.
OverBefore(c, n, s) ==
    \A i \in DOMAIN allowed[c] : i <= n => allowed[c][i].window + Window <= s

\* The entry of a client counts the last attempts of its history; without an
\* entry all its windows are over.
EntriesCount ==
    \A c \in Clients :
        IF rl_state[c] = NULL THEN OverBefore(c, Len(allowed[c]), now)
        ELSE LET s == rl_state[c].reset_at - Window
                 n == Len(allowed[c]) - rl_state[c].count
             IN  /\ rl_state[c].count <= Len(allowed[c])
                 /\ OverBefore(c, n, s)
                 /\ \A i \in DOMAIN allowed[c] :
                        i > n => allowed[c][i].window = s

IInv == TypeInv /\ AttemptsSpread /\ EntriesCount

-----------------------------------------------------------------------------
LEMMA ConstantTypes ==
    /\ Limit \in Nat /\ Limit >= 1
    /\ Window \in Nat /\ Window >= 1
    /\ CleanupPeriod \in Nat
    /\ MaxTime \in Nat
BY LimitAssumption, WindowAssumption, BoundsAssumption

\* NULL is no entry and no time.
LEMMA NullIsNone == NULL \notin Entry /\ NULL \notin Nat
<1>1. Entry \subseteq [count : Nat, reset_at : Nat]
  BY ConstantTypes DEF Entry
<1>. QED  BY <1>1, NullAssumption

LEMMA InitTypes == Init => TypeInv
BY ConstantTypes DEF Init, TypeInv, TypeOK, EntriesOK

LEMMA NextTypes == TypeInv /\ [Next]_vars => TypeInv'
<1>. SUFFICES ASSUME TypeInv, [Next]_vars PROVE TypeInv'
  OBVIOUS
<1>. USE ConstantTypes, NullIsNone
<1>1. ASSUME NEW c \in Clients, OpenWindow(c) PROVE TypeInv'
  <2>1. [count |-> 1, reset_at |-> now + Window] \in Entry
    BY DEF TypeInv, TypeOK, Entry
  <2>2. [at |-> now, window |-> now] \in Attempt
    BY DEF TypeInv, TypeOK, Attempt
  <2>3. (allowed \in [Clients -> Seq(Attempt)])'
    BY <1>1, <2>2 DEF OpenWindow, LetThrough, TypeInv, TypeOK
  <2>4. EntriesOK'
    BY <1>1 DEF OpenWindow, LetThrough, TypeInv, TypeOK, EntriesOK
  <2>. QED
    BY <1>1, <2>1, <2>3, <2>4 DEF OpenWindow, LetThrough, TypeInv, TypeOK
<1>2. ASSUME NEW c \in Clients, CountAttempt(c) PROVE TypeInv'
  <2>1. rl_state[c] \in Entry
    BY <1>2 DEF CountAttempt, Live, TypeInv, TypeOK
  <2>2. [rl_state[c] EXCEPT !.count = NextCount(@)] \in Entry
    BY <1>2, <2>1 DEF CountAttempt, HasQuota, NextCount, Entry
  <2>3. rl_state' = [rl_state EXCEPT
            ![c] = [rl_state[c] EXCEPT !.count = NextCount(@)]]
    BY <1>2 DEF CountAttempt
  <2>4. rl_state[c].reset_at - Window \in Nat
    BY <2>1 DEF TypeInv, EntriesOK, Entry
  <2>5. [at |-> now, window |-> rl_state[c].reset_at - Window] \in Attempt
    BY <2>4 DEF TypeInv, TypeOK, Attempt
  <2>6. (allowed \in [Clients -> Seq(Attempt)])'
    BY <1>2, <2>5 DEF CountAttempt, LetThrough, TypeInv, TypeOK
  <2>7. (rl_state \in [Clients -> Entry \cup {NULL}])'
    BY <2>2, <2>3 DEF TypeInv, TypeOK
  <2>8. EntriesOK'
    BY <1>2, <2>1, <2>3
       DEF CountAttempt, LetThrough, TypeInv, TypeOK, EntriesOK, Entry
  <2>. QED
    BY <1>2, <2>6, <2>7, <2>8 DEF CountAttempt, LetThrough, TypeInv, TypeOK
<1>3. ASSUME NEW c \in Clients, RefuseAttempt(c) PROVE TypeInv'
  BY <1>3 DEF RefuseAttempt, TypeInv, TypeOK, EntriesOK
<1>4. CASE CleanUp
  BY <1>4 DEF CleanUp, TypeInv, TypeOK, EntriesOK
<1>5. CASE Tick
  BY <1>5 DEF Tick, TypeInv, TypeOK, EntriesOK, Entry
<1>6. CASE UNCHANGED vars
  BY <1>6 DEF vars, TypeInv, TypeOK, EntriesOK
<1>. QED  BY <1>1, <1>2, <1>3, <1>4, <1>5, <1>6 DEF Next

\* The limiter's entries and the history keep their types.
THEOREM TypeCorrect == Spec => []TypeOK
<1>1. TypeInv => TypeOK
  BY DEF TypeInv
<1>. QED  BY <1>1, InitTypes, NextTypes, PTL DEF Spec

-----------------------------------------------------------------------------
(* Refinement: an attempt that is let through draws on the quota, the clock *)
(* renews the quotas that are due, everything else is invisible.            *)

LEMMA QuotaInit == Init => Quota!Init
BY DEF Init, Quota!Init, Live

\* The values the refinement gives to LoginQuota's left and opened.
LeftOf(c) == IF Live(c) THEN Limit - rl_state[c].count ELSE Limit

OpenedOf(c) == IF Live(c) THEN rl_state[c].reset_at - Window ELSE NULL

LEMMA QuotaStep ==
    ASSUME TypeInv, [Next]_vars PROVE [Quota!Next]_(Quota!vars)
<1>. USE ConstantTypes, NullIsNone
<1>1. /\ TypeInv' /\ now \in Nat /\ rl_state \in [Clients -> Entry \cup {NULL}]
      /\ \A c \in Clients : Live(c) => /\ rl_state[c] \in Entry
                                       /\ rl_state[c].count \in 1..Limit
                                       /\ rl_state[c].reset_at \in Nat
  BY NextTypes DEF TypeInv, TypeOK, Live, Entry
<1>2. ASSUME NEW c \in Clients, OpenWindow(c) \/ CountAttempt(c)
      PROVE  Quota!Draw(c)
  <2>1. now' = now /\ \A d \in Clients \ {c} : rl_state'[d] = rl_state[d]
    BY <1>1, <1>2 DEF OpenWindow, CountAttempt, LetThrough
  <2>2. \A d \in Clients \ {c} : /\ LeftOf(d)' = LeftOf(d)
                                 /\ OpenedOf(d)' = OpenedOf(d)
    BY <2>1 DEF LeftOf, OpenedOf, Live
  <2>3. /\ LeftOf(c) > 0
        /\ LeftOf(c)' = LeftOf(c) - 1
        /\ OpenedOf(c)' = IF OpenedOf(c) = NULL THEN now ELSE OpenedOf(c)
    <3>1. CASE OpenWindow(c)
      <4>1. rl_state'[c] = [count |-> 1, reset_at |-> now + Window]
        BY <1>1, <3>1 DEF OpenWindow
      <4>2. Live(c)' /\ ~Live(c)
        BY <1>1, <2>1, <3>1, <4>1 DEF Live, OpenWindow, Entry
      <4>. QED  BY <1>1, <4>1, <4>2 DEF LeftOf, OpenedOf
    <3>2. CASE CountAttempt(c)
      <4>1. Live(c) /\ rl_state[c].count < Limit
        BY <3>2 DEF CountAttempt, HasQuota
      <4>2. /\ rl_state'[c].count = rl_state[c].count + 1
            /\ rl_state'[c].reset_at = rl_state[c].reset_at
            /\ rl_state'[c] # NULL
        BY <1>1, <3>2, <4>1 DEF CountAttempt, NextCount, TypeInv, TypeOK, Entry
      <4>3. Live(c)'
        BY <2>1, <4>1, <4>2 DEF Live
      <4>4. rl_state[c].reset_at - Window \in Nat
        BY <1>1, <4>1 DEF TypeInv, EntriesOK, Live
      <4>. QED  BY <1>1, <4>1, <4>2, <4>3, <4>4 DEF LeftOf, OpenedOf
    <3>. QED  BY <1>2, <3>1, <3>2
  <2>. QED
    BY <2>1, <2>2, <2>3 DEF Quota!Draw, LeftOf, OpenedOf
<1>3. ASSUME NEW c \in Clients, RefuseAttempt(c) PROVE UNCHANGED Quota!vars
  BY <1>3 DEF RefuseAttempt, Quota!vars, Live
<1>4. CASE CleanUp
  <2>1. now' = now /\ \A c \in Clients : Live(c) => rl_state'[c] = rl_state[c]
    BY <1>4 DEF CleanUp, Removable
  <2>2. \A c \in Clients : Live(c)' <=> Live(c)
    BY <1>4, <2>1 DEF CleanUp, Removable, Live
  <2>. QED  BY <2>1, <2>2 DEF Quota!vars
<1>5. CASE Tick
  <2>1. now' = now + 1 /\ rl_state' = rl_state
    BY <1>5 DEF Tick
  <2>2. ASSUME NEW c \in Clients
        PROVE  LET due == OpenedOf(c) # NULL /\ now + 1 >= OpenedOf(c) + Window
               IN  /\ LeftOf(c)' = IF due THEN Limit ELSE LeftOf(c)
                   /\ OpenedOf(c)' = IF due THEN NULL ELSE OpenedOf(c)
    <3>1. CASE ~Live(c)
      <4>1. ~Live(c)'
        BY <1>1, <2>1, <3>1 DEF Live, Entry
      <4>. QED  BY <3>1, <4>1 DEF LeftOf, OpenedOf
    <3>2. CASE Live(c)
      <4>1. rl_state[c].reset_at - Window \in Nat
        BY <1>1, <3>2 DEF TypeInv, EntriesOK, Live
      <4>2. Live(c)' <=> now + 1 < rl_state[c].reset_at
        BY <2>1, <3>2 DEF Live
      <4>. QED  BY <1>1, <2>1, <3>2, <4>1, <4>2 DEF LeftOf, OpenedOf
    <3>. QED  BY <3>1, <3>2
  <2>3. Quota!Second
    BY <2>1, <2>2 DEF Quota!Second, Quota!Due, LeftOf, OpenedOf
  <2>. QED  BY <2>3 DEF Quota!Next
<1>6. CASE UNCHANGED vars
  BY <1>6 DEF vars, Quota!vars, Live
<1>. QED
  BY <1>2, <1>3, <1>4, <1>5, <1>6 DEF Next, Quota!Next

\* The limiter with its cleanup is a quota that knows no cleanup.
THEOREM LimiterImplementsQuota == Spec => ImplementsQuota
BY InitTypes, NextTypes, QuotaInit, QuotaStep, PTL
   DEF Spec, ImplementsQuota, Quota!Spec

-----------------------------------------------------------------------------
(* The bound: Limit attempts further on, a client is in a later window, and *)
(* windows do not overlap; so 2 * Limit further on it is two windows later. *)

\* What appending an attempt to c's history does to the histories.
LEMMA Appended ==
    ASSUME TypeInv, NEW c \in Clients, NEW x \in Attempt,
           allowed' = [allowed EXCEPT ![c] = Append(@, x)]
    PROVE  /\ allowed[c] \in Seq(Attempt)
           /\ Len(allowed[c]) \in Nat
           /\ Len(allowed'[c]) = Len(allowed[c]) + 1
           /\ DOMAIN allowed'[c] = 1..(Len(allowed[c]) + 1)
           /\ allowed'[c][Len(allowed[c]) + 1] = x
           /\ \A i \in DOMAIN allowed[c] : allowed'[c][i] = allowed[c][i]
           /\ \A d \in Clients \ {c} : allowed'[d] = allowed[d]
<1>1. allowed[c] \in Seq(Attempt) /\ allowed'[c] = Append(allowed[c], x)
  BY DEF TypeInv, TypeOK
<1>2. \A d \in Clients \ {c} : allowed'[d] = allowed[d]
  BY DEF TypeInv, TypeOK
<1>. QED  BY <1>1, <1>2

\* An attempt keeps the histories spread if all but the last Limit - 1 attempts
\* of its client are in windows over when its own began.
LEMMA LetThroughSpreads ==
    ASSUME TypeInv, AttemptsSpread,
           NEW c \in Clients, NEW x \in Attempt, NEW m \in Int,
           WindowOf(x),
           m > Len(allowed[c]) - Limit,
           OverBefore(c, m, x.window),
           allowed' = [allowed EXCEPT ![c] = Append(@, x)]
    PROVE  AttemptsSpread'
<1>. USE ConstantTypes
<1> DEFINE n == Len(allowed[c])
<1>1. /\ n \in Nat
      /\ DOMAIN allowed[c] = 1..n
      /\ DOMAIN allowed'[c] = 1..(n + 1)
      /\ allowed'[c][n + 1] = x
      /\ \A i \in 1..n : allowed'[c][i] = allowed[c][i]
      /\ \A d \in Clients \ {c} : allowed'[d] = allowed[d]
  <2>1. /\ allowed[c] \in Seq(Attempt) /\ n \in Nat
        /\ DOMAIN allowed'[c] = 1..(n + 1)
        /\ allowed'[c][n + 1] = x
        /\ \A i \in DOMAIN allowed[c] : allowed'[c][i] = allowed[c][i]
        /\ \A d \in Clients \ {c} : allowed'[d] = allowed[d]
    BY Appended
  <2>2. DOMAIN allowed[c] = 1..n
    BY <2>1
  <2>. QED  BY <2>1, <2>2
<1>. HIDE DEF n
<1>2. ASSUME NEW i \in 1..(n + 1) PROVE WindowOf(allowed'[c][i])
  <2>1. CASE i = n + 1
    BY <1>1, <2>1
  <2>2. CASE i # n + 1
    <3>1. i \in 1..n
      BY <1>1, <1>2, <2>2
    <3>. QED  BY <1>1, <3>1 DEF AttemptsSpread
  <2>. QED  BY <2>1, <2>2
<1>3. ASSUME NEW i \in 1..(n + 1), i + Limit \in 1..(n + 1)
      PROVE  Later(allowed'[c][i], allowed'[c][i + Limit])
  <2>1. i \in 1..n
    BY <1>1, <1>3
  <2>2. CASE i + Limit = n + 1
    <3>1. i <= m
      BY <1>1, <2>1, <2>2 DEF n
    <3>2. allowed[c][i].window + Window <= x.window
      BY <1>1, <2>1, <3>1 DEF OverBefore
    <3>3. allowed'[c][i] = allowed[c][i] /\ allowed'[c][i + Limit] = x
      BY <1>1, <2>1, <2>2
    <3>. QED  BY <3>2, <3>3 DEF Later
  <2>3. CASE i + Limit # n + 1
    <3>1. i + Limit \in 1..n
      BY <1>1, <1>3, <2>3
    <3>. QED  BY <1>1, <2>1, <3>1 DEF AttemptsSpread
  <2>. QED  BY <2>2, <2>3
<1>4. ASSUME NEW d \in Clients \ {c}, NEW i \in DOMAIN allowed'[d]
      PROVE  /\ WindowOf(allowed'[d][i])
             /\ i + Limit \in DOMAIN allowed'[d] =>
                    Later(allowed'[d][i], allowed'[d][i + Limit])
  BY <1>1, <1>4 DEF AttemptsSpread
<1>. QED  BY <1>1, <1>2, <1>3, <1>4 DEF AttemptsSpread, WindowOf, Later

\* Without a live entry all of a client's windows are over.
LEMMA NotLiveIsOver ==
    ASSUME TypeInv, EntriesCount, NEW c \in Clients, ~Live(c)
    PROVE  OverBefore(c, Len(allowed[c]), now)
<1>. USE ConstantTypes
<1>1. CASE rl_state[c] = NULL
  BY <1>1 DEF EntriesCount
<1>2. CASE rl_state[c] # NULL
  <2> DEFINE s == rl_state[c].reset_at - Window
             n == Len(allowed[c]) - rl_state[c].count
  <2>1. /\ rl_state[c].reset_at \in Nat /\ now \in Nat
        /\ now >= rl_state[c].reset_at
        /\ rl_state[c].count \in Nat
        /\ allowed[c] \in Seq(Attempt)
    BY <1>2 DEF TypeInv, TypeOK, Live, Entry
  <2>2. \A i \in DOMAIN allowed[c] :
            /\ i <= n => allowed[c][i].window + Window <= s
            /\ i > n  => allowed[c][i].window = s
    BY <1>2 DEF EntriesCount, OverBefore
  <2>3. ASSUME NEW i \in DOMAIN allowed[c]
        PROVE  allowed[c][i].window + Window <= now
    <3>1. i \in Nat /\ allowed[c][i] \in Attempt
      BY <2>1
    <3>2. allowed[c][i].window \in Nat /\ n \in Int
      BY <2>1, <3>1 DEF Attempt
    <3>3. i <= n \/ i > n
      BY <3>1, <3>2
    <3>4. s + Window <= now /\ s \in Int
      BY <2>1
    <3>. HIDE DEF n, s
    <3>5. CASE i <= n
      <4>1. allowed[c][i].window + Window <= s
        BY <2>2, <3>5
      <4>. QED  BY <2>1, <3>2, <3>4, <4>1
    <3>6. CASE i > n
      <4>1. allowed[c][i].window = s
        BY <2>2, <3>6
      <4>. QED  BY <2>1, <3>2, <3>4, <4>1
    <3>. QED  BY <3>3, <3>5, <3>6
  <2>. QED  BY <2>3 DEF OverBefore
<1>. QED  BY <1>1, <1>2

\* A step that leaves the histories and the entries of the clients alone, or
\* removes an entry that is over.
LEMMA EntriesStillCount ==
    ASSUME TypeInv, EntriesCount,
           allowed' = allowed, now' \in Nat, now <= now',
           \A c \in Clients : \/ rl_state'[c] = rl_state[c]
                              \/ rl_state'[c] = NULL /\ ~Live(c)
    PROVE  EntriesCount'
<1>. SUFFICES ASSUME NEW c \in Clients
              PROVE  IF rl_state'[c] = NULL
                     THEN \A i \in DOMAIN allowed[c] : i <= Len(allowed[c]) =>
                              allowed[c][i].window + Window <= now'
                     ELSE rl_state'[c] = rl_state[c]
  BY DEF EntriesCount, OverBefore
<1>1. CASE rl_state'[c] # NULL
  BY <1>1
<1>2. CASE rl_state'[c] = NULL
  <2>1. OverBefore(c, Len(allowed[c]), now)
    BY <1>2, NotLiveIsOver DEF EntriesCount
  <2>2. ASSUME NEW i \in DOMAIN allowed[c], i <= Len(allowed[c])
        PROVE  allowed[c][i].window + Window <= now'
    <3>1. allowed[c][i] \in Attempt /\ now \in Nat
      BY DEF TypeInv, TypeOK
    <3>2. allowed[c][i].window \in Nat
      BY <3>1 DEF Attempt
    <3>. QED  BY <2>1, <2>2, <3>1, <3>2, ConstantTypes DEF OverBefore
  <2>. QED  BY <1>2, <2>2
<1>. QED  BY <1>1, <1>2

\* What EntriesCount says of a client with an entry.
CountsOf(c, entry) ==
    LET s == entry.reset_at - Window
        n == Len(allowed[c]) - entry.count
    IN  /\ entry.count <= Len(allowed[c])
        /\ OverBefore(c, n, s)
        /\ \A i \in DOMAIN allowed[c] : i > n => allowed[c][i].window = s

LEMMA OpenWindowStep ==
    ASSUME TypeInv, AttemptsSpread, EntriesCount,
           NEW c \in Clients, OpenWindow(c)
    PROVE  AttemptsSpread' /\ EntriesCount'
<1>. USE ConstantTypes
<1> DEFINE x == [at |-> now, window |-> now]
           n == Len(allowed[c])
<1>1. /\ now \in Nat /\ now' = now
      /\ x \in Attempt /\ x.window = now /\ WindowOf(x)
  BY DEF OpenWindow, LetThrough, TypeInv, TypeOK, Attempt, WindowOf
<1>2. /\ allowed' = [allowed EXCEPT ![c] = Append(@, x)]
      /\ rl_state' = [rl_state EXCEPT
             ![c] = [count |-> 1, reset_at |-> now + Window]]
      /\ ~Live(c)
  BY DEF OpenWindow, LetThrough
<1>3. OverBefore(c, n, now)
  BY <1>2, NotLiveIsOver
<1>4. /\ n \in Nat /\ DOMAIN allowed'[c] = 1..(n + 1)
      /\ Len(allowed'[c]) = n + 1
      /\ allowed'[c][n + 1] = x
      /\ \A i \in DOMAIN allowed[c] : allowed'[c][i] = allowed[c][i]
      /\ \A d \in Clients \ {c} : allowed'[d] = allowed[d]
  <2>. HIDE DEF x
  <2>. QED  BY <1>1, <1>2, Appended
<1>5. DOMAIN allowed[c] = 1..n
  BY DEF TypeInv, TypeOK
<1>. HIDE DEF x, n
<1>6. AttemptsSpread'
  <2>1. n > n - Limit /\ n \in Int
    BY <1>4
  <2>. QED  BY <1>1, <1>2, <1>3, <2>1, LetThroughSpreads DEF n
<1>7. EntriesCount'
  <2>1. /\ rl_state'[c] = [count |-> 1, reset_at |-> now + Window]
        /\ \A d \in Clients \ {c} : rl_state'[d] = rl_state[d]
    BY <1>2 DEF TypeInv, TypeOK
  <2>2. ASSUME NEW d \in Clients \ {c}
        PROVE  IF rl_state'[d] = NULL
               THEN OverBefore(d, Len(allowed[d]), now)'
               ELSE CountsOf(d, rl_state[d])'
    BY <1>1, <1>4, <2>1 DEF EntriesCount, OverBefore, CountsOf
  <2>3. CountsOf(c, rl_state[c])'
    <3>1. rl_state'[c].count = 1 /\ rl_state'[c].reset_at - Window = now
      BY <1>1, <2>1
    <3>2. \A i \in 1..(n + 1) : i <= n => allowed'[c][i].window + Window <= now
      BY <1>3, <1>4, <1>5 DEF OverBefore
    <3>3. \A i \in 1..(n + 1) : i > n => allowed'[c][i].window = now
      BY <1>1, <1>4
    <3>. QED  BY <1>4, <3>1, <3>2, <3>3 DEF CountsOf, OverBefore
  <2>4. rl_state'[c] # NULL
    BY <2>1, NullIsNone DEF TypeInv, TypeOK, Entry
  <2>. QED  BY <2>2, <2>3, <2>4 DEF EntriesCount, CountsOf
<1>. QED  BY <1>6, <1>7

LEMMA CountAttemptStep ==
    ASSUME TypeInv, AttemptsSpread, EntriesCount,
           NEW c \in Clients, CountAttempt(c)
    PROVE  AttemptsSpread' /\ EntriesCount'
<1>. USE ConstantTypes
<1> DEFINE s == rl_state[c].reset_at - Window
           x == [at |-> now, window |-> s]
           n == Len(allowed[c])
           k == rl_state[c].count
<1>1. /\ rl_state[c] \in Entry /\ rl_state[c] # NULL
      /\ now < rl_state[c].reset_at
      /\ k < Limit
  BY NullIsNone DEF CountAttempt, Live, HasQuota, TypeInv, TypeOK
<1>2. /\ now \in Nat /\ now' = now
      /\ s \in Nat /\ s <= now /\ now < s + Window
      /\ k \in Nat /\ k <= n /\ n \in Nat
  BY <1>1 DEF TypeInv, TypeOK, EntriesOK, Entry, CountAttempt, LetThrough,
              EntriesCount
<1>3. x \in Attempt /\ x.window = s /\ WindowOf(x)
  BY <1>2 DEF Attempt, WindowOf
<1>4. /\ allowed' = [allowed EXCEPT ![c] = Append(@, x)]
      /\ rl_state' = [rl_state EXCEPT ![c].count = @ + 1]
  BY DEF CountAttempt, LetThrough, NextCount
<1>5. /\ OverBefore(c, n - k, s)
      /\ \A i \in DOMAIN allowed[c] : i > n - k => allowed[c][i].window = s
  BY <1>1 DEF EntriesCount
<1>6. /\ DOMAIN allowed'[c] = 1..(n + 1)
      /\ Len(allowed'[c]) = n + 1
      /\ allowed'[c][n + 1] = x
      /\ \A i \in DOMAIN allowed[c] : allowed'[c][i] = allowed[c][i]
      /\ \A d \in Clients \ {c} : allowed'[d] = allowed[d]
  <2>. HIDE DEF x
  <2>. QED  BY <1>3, <1>4, Appended
<1>7. DOMAIN allowed[c] = 1..n
  BY DEF TypeInv, TypeOK
<1>8. /\ rl_state'[c].count = k + 1
      /\ rl_state'[c].reset_at - Window = s
      /\ rl_state'[c] \in Entry
      /\ \A d \in Clients \ {c} : rl_state'[d] = rl_state[d]
  <2>1. /\ rl_state'[c] = [rl_state[c] EXCEPT !.count = k + 1]
        /\ \A d \in Clients \ {c} : rl_state'[d] = rl_state[d]
    BY <1>4 DEF TypeInv, TypeOK
  <2>2. /\ rl_state[c] \in [count : 1..Limit, reset_at : Nat]
        /\ k + 1 \in 1..Limit
    BY <1>1, <1>2 DEF Entry
  <2>3. /\ rl_state'[c] \in [count : 1..Limit, reset_at : Nat]
        /\ rl_state'[c].count = k + 1
        /\ rl_state'[c].reset_at = rl_state[c].reset_at
    <3>. HIDE DEF k
    <3>. QED  BY <2>1, <2>2
  <2>. QED  BY <2>1, <2>3 DEF Entry
<1>. HIDE DEF x, n, s, k
<1>9. AttemptsSpread'
  <2>1. n - k > n - Limit /\ n - k \in Int
    BY <1>1, <1>2
  <2>. QED  BY <1>3, <1>4, <1>5, <2>1, LetThroughSpreads DEF n
<1>10. EntriesCount'
  <2>1. ASSUME NEW d \in Clients \ {c}
        PROVE  IF rl_state'[d] = NULL
               THEN OverBefore(d, Len(allowed[d]), now)'
               ELSE CountsOf(d, rl_state[d])'
    BY <1>2, <1>6, <1>8, <2>1 DEF EntriesCount, OverBefore, CountsOf
  <2>2. CountsOf(c, rl_state[c])'
    <3>1. (n + 1) - (k + 1) = n - k
      BY <1>2
    <3>2. \A i \in 1..(n + 1) :
              i <= n - k => allowed'[c][i].window + Window <= s
      <4>1. ASSUME NEW i \in 1..(n + 1), i <= n - k
            PROVE  allowed'[c][i].window + Window <= s
        <5>1. i \in 1..n
          BY <1>2, <4>1
        <5>. QED  BY <1>5, <1>6, <1>7, <4>1, <5>1 DEF OverBefore
      <4>. QED  BY <4>1
    <3>3. \A i \in 1..(n + 1) : i > n - k => allowed'[c][i].window = s
      <4>1. ASSUME NEW i \in 1..(n + 1), i > n - k
            PROVE  allowed'[c][i].window = s
        <5>1. CASE i = n + 1
          BY <1>3, <1>6, <5>1
        <5>2. CASE i # n + 1
          <6>1. i \in 1..n
            BY <1>2, <5>2
          <6>. QED  BY <1>5, <1>6, <1>7, <4>1, <6>1
        <5>. QED  BY <5>1, <5>2
      <4>. QED  BY <4>1
    <3>4. k + 1 <= n + 1
      BY <1>2
    <3>. QED
      BY <1>6, <1>8, <3>1, <3>2, <3>3, <3>4 DEF CountsOf, OverBefore
  <2>3. rl_state'[c] # NULL
    BY <1>8, NullIsNone
  <2>. QED  BY <2>1, <2>2, <2>3 DEF EntriesCount, CountsOf
<1>. QED  BY <1>9, <1>10

LEMMA InitInvariant == Init => IInv
<1>. SUFFICES ASSUME Init PROVE IInv
  OBVIOUS
<1>1. AttemptsSpread
  BY DEF Init, AttemptsSpread
<1>2. EntriesCount
  <2>1. \A c \in Clients : rl_state[c] = NULL /\ allowed[c] = << >>
    BY DEF Init
  <2>2. DOMAIN << >> = {}
    OBVIOUS
  <2>. QED  BY <2>1, <2>2 DEF EntriesCount, OverBefore
<1>. QED  BY <1>1, <1>2, InitTypes DEF IInv

LEMMA InvariantStep == IInv /\ [Next]_vars => IInv'
<1>. SUFFICES ASSUME IInv, [Next]_vars PROVE IInv'
  OBVIOUS
<1>. USE DEF IInv
<1>1. now \in Nat /\ rl_state \in [Clients -> Entry \cup {NULL}]
  BY DEF TypeInv, TypeOK
<1>2. TypeInv'
  BY NextTypes
<1>3. ASSUME NEW c \in Clients, OpenWindow(c)
      PROVE  AttemptsSpread' /\ EntriesCount'
  BY <1>3, OpenWindowStep
<1>4. ASSUME NEW c \in Clients, CountAttempt(c)
      PROVE  AttemptsSpread' /\ EntriesCount'
  BY <1>4, CountAttemptStep
<1>5. CASE \/ \E c \in Clients : RefuseAttempt(c)
           \/ CleanUp
           \/ Tick
           \/ UNCHANGED vars
  <2>1. allowed' = allowed /\ now' \in Nat /\ now <= now'
    BY <1>1, <1>5 DEF RefuseAttempt, CleanUp, Tick, vars
  <2>2. \A c \in Clients : \/ rl_state'[c] = rl_state[c]
                           \/ rl_state'[c] = NULL /\ ~Live(c)
    BY <1>1, <1>5 DEF RefuseAttempt, CleanUp, Tick, Removable, vars
  <2>3. EntriesCount'
    BY <2>1, <2>2, EntriesStillCount
  <2>4. AttemptsSpread'
    BY <2>1 DEF AttemptsSpread, WindowOf, Later
  <2>. QED  BY <1>2, <2>3, <2>4
<1>. QED  BY <1>2, <1>3, <1>4, <1>5 DEF Next

\* Spread attempts are few in any one window's length.
LEMMA SpreadIsBounded == IInv => AtMostTwiceTheLimit
<1>. SUFFICES ASSUME IInv,
                     NEW c \in Clients, NEW i \in DOMAIN allowed[c],
                     i + 2 * Limit \in DOMAIN allowed[c]
              PROVE  allowed[c][i + 2 * Limit].at > allowed[c][i].at + Window
  BY DEF AtMostTwiceTheLimit
<1>. USE ConstantTypes
<1> DEFINE x == allowed[c][i]
           y == allowed[c][i + Limit]
           z == allowed[c][i + 2 * Limit]
<1>1. allowed[c] \in Seq(Attempt)
  BY DEF IInv, TypeInv, TypeOK
<1>2. i + Limit \in DOMAIN allowed[c] /\ (i + Limit) + Limit = i + 2 * Limit
  BY <1>1
<1>3. x \in Attempt /\ y \in Attempt /\ z \in Attempt
  BY <1>1, <1>2
<1>4. Later(x, y) /\ Later(y, z)
  BY <1>2 DEF IInv, AttemptsSpread
<1>5. WindowOf(x) /\ WindowOf(z)
  BY DEF IInv, AttemptsSpread
<1>6. /\ x.at \in Nat /\ x.window \in Nat /\ y.window \in Nat
      /\ z.at \in Nat /\ z.window \in Nat
  BY <1>3 DEF Attempt
<1>. HIDE DEF x, y, z
<1>7. z.at > x.at + Window
  BY <1>4, <1>5, <1>6 DEF Later, WindowOf
<1>. QED  BY <1>7 DEF x, z

\* No client gets more than twice the limit through in one window's length,
\* whatever the limit, the window and the times of the cleanup.
THEOREM TwiceTheLimit == Spec => []AtMostTwiceTheLimit
BY InitInvariant, InvariantStep, SpreadIsBounded, PTL DEF Spec

-----------------------------------------------------------------------------
(* Refusals: a window that is used up was filled by the last Limit attempts *)
(* of the client, none of them in the future.                               *)

AttemptsPast ==
    \A c \in Clients : \A i \in DOMAIN allowed[c] : allowed[c][i].at <= now

\* The last attempts before a refusal witness that it is deserved.
LEMMA RefusalIsDeserved ==
    ASSUME IInv, AttemptsPast, NEW c \in Clients, RefuseAttempt(c)
    PROVE  \E i \in DOMAIN allowed[c] :
               /\ i + Limit - 1 \in DOMAIN allowed[c]
               /\ allowed[c][i].at + Window > now
               /\ allowed[c][i + Limit - 1].at <= now
<1>. USE ConstantTypes
<1>. DEFINE n == Len(allowed[c])
            i == n - Limit + 1
<1>1. /\ rl_state[c] \in Entry /\ rl_state[c] # NULL
      /\ now < rl_state[c].reset_at /\ ~(rl_state[c].count < Limit)
      /\ now \in Nat /\ n \in Nat /\ DOMAIN allowed[c] = 1..n
      /\ \A j \in 1..n : allowed[c][j] \in Attempt
  BY NullIsNone DEF RefuseAttempt, Live, HasQuota, IInv, TypeInv, TypeOK
<1>2. rl_state[c].count = Limit /\ rl_state[c].reset_at \in Nat
  BY <1>1 DEF Entry
<1>3. /\ Limit <= n
      /\ \A j \in 1..n : j > n - Limit =>
             allowed[c][j].window = rl_state[c].reset_at - Window
  BY <1>1, <1>2 DEF IInv, EntriesCount
<1>. HIDE DEF n
<1>4. i \in 1..n /\ i > n - Limit /\ i + Limit - 1 = n /\ n \in 1..n
  BY <1>1, <1>3
<1>. HIDE DEF i
<1>5. /\ allowed[c][i].at \in Nat
      /\ allowed[c][i].window = rl_state[c].reset_at - Window
      /\ allowed[c][i].window <= allowed[c][i].at
  <2>1. allowed[c][i] \in Attempt
    BY <1>1, <1>4
  <2>. QED
    BY <1>1, <1>3, <1>4, <2>1 DEF Attempt, IInv, AttemptsSpread, WindowOf
<1>6. allowed[c][i].at + Window > now
  BY <1>1, <1>2, <1>5
<1>7. allowed[c][n].at <= now
  BY <1>1, <1>4 DEF AttemptsPast
<1>. QED  BY <1>1, <1>4, <1>6, <1>7

\* A step only adds to a client's history, and what it adds happens now.
LEMMA HistoryGrows ==
    ASSUME TypeInv, [Next]_vars, NEW c \in Clients
    PROVE  /\ \A i \in DOMAIN allowed[c] :
                  i \in DOMAIN allowed'[c] /\ allowed'[c][i] = allowed[c][i]
           /\ \A i \in DOMAIN allowed'[c] :
                  i \in DOMAIN allowed[c] \/ allowed'[c][i].at = now
<1>. USE ConstantTypes
<1>1. CASE allowed' = allowed
  BY <1>1
<1>2. ASSUME NEW d \in Clients, OpenWindow(d) \/ CountAttempt(d)
      PROVE  \E x \in Attempt :
                 /\ x.at = now
                 /\ allowed' = [allowed EXCEPT ![d] = Append(@, x)]
  <2>1. now \in Nat
    BY DEF TypeInv, TypeOK
  <2>2. PICK w \in Nat : LetThrough(d, w)
    <3>1. CASE OpenWindow(d)
      BY <2>1, <3>1 DEF OpenWindow
    <3>2. CASE CountAttempt(d)
      <4>1. rl_state[d] \in Entry /\ rl_state[d] # NULL
        BY <3>2, NullIsNone DEF CountAttempt, Live, TypeInv, TypeOK
      <4>2. rl_state[d].reset_at - Window \in Nat
        BY <4>1 DEF TypeInv, EntriesOK, Entry
      <4>. QED  BY <3>2, <4>2 DEF CountAttempt
    <3>. QED  BY <1>2, <3>1, <3>2
  <2>3. [at |-> now, window |-> w] \in Attempt
    BY <2>1 DEF Attempt
  <2>. QED  BY <2>2, <2>3 DEF LetThrough
<1>3. ASSUME NEW d \in Clients, NEW x \in Attempt, x.at = now,
             allowed' = [allowed EXCEPT ![d] = Append(@, x)]
      PROVE  /\ \A i \in DOMAIN allowed[c] :
                    i \in DOMAIN allowed'[c] /\ allowed'[c][i] = allowed[c][i]
             /\ \A i \in DOMAIN allowed'[c] :
                    i \in DOMAIN allowed[c] \/ allowed'[c][i].at = now
  <2>1. allowed \in [Clients -> Seq(Attempt)]
    BY DEF TypeInv, TypeOK
  <2>2. CASE c # d
    BY <1>3, <2>1, <2>2
  <2>3. CASE c = d
    <3>1. allowed'[c] = Append(allowed[c], x) /\ allowed[c] \in Seq(Attempt)
      BY <1>3, <2>1, <2>3
    <3>. QED  BY <1>3, <3>1
  <2>. QED  BY <2>2, <2>3
<1>4. \/ allowed' = allowed
      \/ \E d \in Clients : OpenWindow(d) \/ CountAttempt(d)
  BY DEF Next, vars, RefuseAttempt, CleanUp, Tick
<1>. QED  BY <1>1, <1>2, <1>3, <1>4

LEMMA RefusalsStep ==
    ASSUME IInv, AttemptsPast, RefusalsDeserved, [Next]_vars
    PROVE  AttemptsPast' /\ RefusalsDeserved'
<1>. USE ConstantTypes
<1>0. TypeInv /\ now \in Nat /\ refused \in [Clients -> 0..MaxTime \cup {NULL}]
  BY DEF IInv, TypeInv, TypeOK
<1>1. AttemptsPast'
  <2>1. now' \in Nat /\ now <= now'
    <3>1. now' = now \/ now' = now + 1
      BY DEF Next, vars, OpenWindow, CountAttempt, LetThrough, RefuseAttempt,
         CleanUp, Tick
    <3>. QED  BY <1>0, <3>1
  <2>2. TypeInv'
    BY <1>0, NextTypes
  <2>3. ASSUME NEW c \in Clients, NEW i \in DOMAIN allowed'[c]
        PROVE  allowed'[c][i].at <= now'
    <3>1. CASE i \in DOMAIN allowed[c]
      <4>1. allowed[c][i] \in Attempt /\ allowed[c][i].at <= now
        BY <1>0, <3>1 DEF TypeInv, TypeOK, AttemptsPast
      <4>2. allowed'[c][i] = allowed[c][i]
        BY <1>0, <3>1, HistoryGrows
      <4>. QED  BY <1>0, <2>1, <4>1, <4>2 DEF Attempt
    <3>2. CASE i \notin DOMAIN allowed[c]
      <4>1. allowed'[c][i].at = now
        BY <1>0, <2>3, <3>2, HistoryGrows
      <4>. QED  BY <2>1, <4>1
    <3>. QED  BY <3>1, <3>2
  <2>. QED  BY <2>3 DEF AttemptsPast
<1>2. ASSUME NEW c \in Clients, refused'[c] # NULL
      PROVE  \E i \in DOMAIN allowed'[c] :
                 /\ i + Limit - 1 \in DOMAIN allowed'[c]
                 /\ allowed'[c][i].at + Window > refused'[c]
                 /\ allowed'[c][i + Limit - 1].at <= refused'[c]
  <2>1. \E i \in DOMAIN allowed[c] :
            /\ i + Limit - 1 \in DOMAIN allowed[c]
            /\ allowed[c][i].at + Window > refused'[c]
            /\ allowed[c][i + Limit - 1].at <= refused'[c]
    <3>1. CASE RefuseAttempt(c)
      <4>1. refused'[c] = now
        BY <1>0, <3>1 DEF RefuseAttempt
      <4>. QED  BY <3>1, <4>1, RefusalIsDeserved
    <3>2. CASE ~RefuseAttempt(c)
      <4>1. refused'[c] = refused[c]
        BY <1>0, <3>2 DEF Next, vars, OpenWindow, CountAttempt, LetThrough,
           RefuseAttempt, CleanUp, Tick
      <4>. QED  BY <1>2, <4>1 DEF RefusalsDeserved
    <3>. QED  BY <3>1, <3>2
  <2>. QED  BY <1>0, <2>1, HistoryGrows
<1>. QED  BY <1>1, <1>2 DEF RefusalsDeserved

\* Whoever is answered 429 did get Limit attempts through in the window's length
\* before, whatever cleanup removed in between.
THEOREM OnlyTheBusyAreRefused == Spec => []RefusalsDeserved
<1>. DEFINE RInv == IInv /\ AttemptsPast /\ RefusalsDeserved
<1>1. Init => RInv
  BY InitInvariant DEF Init, AttemptsPast, RefusalsDeserved
<1>2. RInv /\ [Next]_vars => RInv'
  BY InvariantStep, RefusalsStep
<1>3. RInv => RefusalsDeserved
  OBVIOUS
<1>. QED  BY <1>1, <1>2, <1>3, PTL DEF Spec

-----------------------------------------------------------------------------
(* FederatedUsers                                                          *)

\* A row the user has had has the role, in whatever spelling.
HadRole(u, name) == \E r \in held[u] : r.role # None /\ Canonical[r.role] = name

\* What is kept about a user comes from its rows.
UserOK(u) ==
    /\ Present(u) \subseteq held[u]
    /\ cache[u] # None => cache[u] = "viewer" \/ HadRole(u, cache[u])
    /\ \A name \in granted[u] : \E r \in held[u] : r.role = name

\* A login has been shown the user's row, as often as it changed.
SeesRows(s) ==
    s.user \in Users /\ Present(s.user) \subseteq s.seen /\ s.seen \subseteq held[s.user]

RightPassword(s) == \E r \in s.seen : r.password = s.password

\* The role of a look-up, or of Keycloak's cache.
RoleFound(s) ==
    /\ s.role \in AllowedRoles
    /\ s.role = "viewer" \/ HadRole(s.user, s.role)
    /\ ~s.cached => \E r \in s.seen : s.role = NormalizeRole(r.role)

\* The roles of RestAuthenticator's user; the answer's is one of them.
RolesGranted(s) ==
    /\ \A name \in s.token : \E r \in held[s.user] : r.role = name
    /\ \E r \in s.seen : r.role = s.role /\ (r.role \in RealmRoles => r.role \in s.token)

\* A login knows at each step what the steps before it have found out.
SessionOK(s) ==
    /\ s.pc # "idle" => SeesRows(s)
    /\ s.pc \in {"grant", "done"} => RightPassword(s)
    /\ s.pc \in {"find", "hash"} => ~s.rest
    /\ s.pc \in {"verify", "grant"} => s.rest
    /\ s.pc = "hash" => RoleFound(s)
    /\ s.pc = "grant" => \E r \in s.seen : r.role = s.role
    /\ s.pc = "done" /\ ~s.rest => RoleFound(s) /\ s.token = {s.role}
    /\ s.pc = "done" /\ s.rest => RolesGranted(s)

\* The invariant of FederatedUsers.
UsersInv ==
    /\ UsersTypeOK
    /\ \A u \in Users : UserOK(u)
    /\ \A l \in Logins : SessionOK(login[l])

-----------------------------------------------------------------------------
LEMMA RolesAreNames == AllowedRoles \subseteq Names /\ None \notin Names
BY NamesAssumption, NoneAssumption

LEMMA Normalized ==
    ASSUME NEW name \in RawRoles \cup {None}
    PROVE  /\ NormalizeRole(name) \in AllowedRoles
           /\ \/ NormalizeRole(name) = "viewer"
              \/ name # None /\ Canonical[name] = NormalizeRole(name)
BY DEF NormalizeRole, AllowedRoles

\* The fields of a login, and what a step makes of them.
LEMMA LoginFields ==
    ASSUME NEW s \in Login
    PROVE  /\ s.pc \in Steps /\ s.user \in Users \cup {None}
           /\ s.password \in Passwords \cup {None}
           /\ s.role \in Names \cup {None} /\ s.tries \in 0..(DB_MAX_RETRIES - 1)
           /\ s.token \in SUBSET Names /\ s.cached \in BOOLEAN /\ s.rest \in BOOLEAN
           /\ s.seen \in SUBSET Row
BY Zenon DEF Login

LEMMA LoginIs ==
    ASSUME NEW pc \in Steps, NEW u \in Users \cup {None}, NEW p \in Passwords \cup {None},
           NEW role \in Names \cup {None}, NEW tries \in 0..(DB_MAX_RETRIES - 1),
           NEW token \in SUBSET Names, NEW cached \in BOOLEAN, NEW rest \in BOOLEAN,
           NEW seen \in SUBSET Row
    PROVE  [pc |-> pc, user |-> u, password |-> p, role |-> role, tries |-> tries,
            token |-> token, cached |-> cached, rest |-> rest, seen |-> seen] \in Login
BY Zenon DEF Login

LEMMA IdleIs ==
    Idle \in Login /\ Idle.pc = "idle" /\ SessionOK(Idle)
<1>1. 0 \in 0..(DB_MAX_RETRIES - 1)
  BY NumbersAssumption
<1>2. Idle \in Login
  BY <1>1, LoginIs DEF Idle, Steps
<1>3. Idle.pc = "idle"
  BY DEF Idle
<1>. QED  BY <1>2, <1>3 DEF SessionOK

LEMMA PresentIs ==
    ASSUME UsersTypeOK, NEW u \in Users
    PROVE  /\ Present(u) \in SUBSET Row
           /\ rows[u] # None => rows[u] \in Row /\ Present(u) = {rows[u]}
BY DEF UsersTypeOK, Present

-----------------------------------------------------------------------------
\* A step of a login that leaves the table alone.
LEMMA LoginStep ==
    ASSUME UsersInv, NEW l \in Logins, NEW s \in Login, SessionOK(s),
           login' = [login EXCEPT ![l] = s],
           UNCHANGED <<rows, held, changes>>,
           cache' \in [Users -> AllowedRoles \cup {None}],
           granted' \in [Users -> SUBSET RealmRoles],
           \A u \in Users : UserOK(u)'
    PROVE  UsersInv'
<1>1. login' \in [Logins -> Login] /\ login'[l] = s
  BY DEF UsersInv, UsersTypeOK
<1>2. UsersTypeOK'
  BY <1>1 DEF UsersInv, UsersTypeOK
<1>3. ASSUME NEW m \in Logins PROVE SessionOK(login[m])'
  <2>1. PICK q \in Login : q = login'[m] /\ SessionOK(q)
    BY <1>1 DEF UsersInv, UsersTypeOK
  <2>2. SessionOK(q)'
    BY <2>1 DEF SessionOK, SeesRows, Present, RightPassword, RoleFound, HadRole,
                RolesGranted, NormalizeRole
  <2>. QED  BY <2>1, <2>2
<1>. QED  BY <1>2, <1>3 DEF UsersInv

\* One that leaves Keycloak's users alone, too.
LEMMA PlainStep ==
    ASSUME UsersInv, NEW l \in Logins, NEW s \in Login, SessionOK(s),
           login' = [login EXCEPT ![l] = s],
           UNCHANGED <<rows, held, changes, cache, granted>>
    PROVE  UsersInv'
<1>1. \A u \in Users : UserOK(u)'
  BY DEF UsersInv, UserOK, Present, HadRole
<1>. QED  BY <1>1, LoginStep DEF UsersInv, UsersTypeOK

LEMMA RefuseStep ==
    ASSUME UsersInv, NEW l \in Logins, Refuse(l),
           UNCHANGED <<rows, held, changes, cache, granted>>
    PROVE  UsersInv'
BY IdleIs, PlainStep DEF Refuse

LEMMA BeginStep ==
    ASSUME UsersInv, NEW l \in Logins, NEW u \in Users, NEW p \in Passwords,
           NEW pc \in {"find", "hash", "verify"}, NEW role \in AllowedRoles \cup {None},
           NEW cached \in BOOLEAN, Begin(l, u, p, pc, role, cached),
           pc = "hash" => cached /\ role # None /\ role = cache[u]
    PROVE  UsersInv'
<1>1. PICK rest \in BOOLEAN : rest = (pc = "verify")
  OBVIOUS
<1>2. PICK s : s = [Idle EXCEPT !.pc = pc, !.user = u, !.password = p, !.role = role,
                                !.cached = cached, !.rest = rest, !.seen = Present(u)]
  OBVIOUS
<1>3. /\ login' = [login EXCEPT ![l] = s]
      /\ UNCHANGED <<rows, cache, granted, held, changes>>
  BY <1>1, <1>2, Zenon DEF Begin
<1>4. /\ s.pc = pc /\ s.user = u /\ s.role = role /\ s.seen = Present(u)
      /\ (s.cached <=> cached) /\ (s.rest <=> pc = "verify")
  BY <1>1, <1>2, Zenon DEF Idle
<1>5. s \in Login
  <2>1. pc \in Steps /\ role \in Names \cup {None} /\ Present(u) \in SUBSET Row
    BY RolesAreNames, PresentIs DEF UsersInv, Steps
  <2>2. Idle \in Login
    BY IdleIs
  <2>. QED  BY <1>2, <2>1, <2>2, Zenon DEF Login
<1>6. SessionOK(s)
  <2>1. SeesRows(s)
    BY <1>4 DEF UsersInv, UserOK, SeesRows
  <2>2. pc = "hash" => RoleFound(s)
    BY <1>4 DEF UsersInv, UserOK, RoleFound
  <2>. QED  BY <1>4, <2>1, <2>2 DEF SessionOK
<1>. QED  BY <1>3, <1>5, <1>6, PlainStep

LEMMA PasswordLoginStep ==
    ASSUME UsersInv, NEW l \in Logins, NEW u \in Users, NEW p \in Passwords,
           PasswordLogin(l, u, p)
    PROVE  UsersInv'
<1>1. cache[u] \in AllowedRoles \cup {None}
  BY DEF UsersInv, UsersTypeOK
<1>2. CASE cache[u] = None
  BY <1>2, BeginStep DEF PasswordLogin
<1>3. CASE cache[u] # None
  BY <1>1, <1>3, BeginStep DEF PasswordLogin
<1>. QED  BY <1>2, <1>3

LEMMA SubmitFormStep ==
    ASSUME UsersInv, NEW l \in Logins, NEW u \in Users, NEW p \in Passwords,
           SubmitForm(l, u, p)
    PROVE  UsersInv'
BY BeginStep DEF SubmitForm

LEMMA UnreachableStep ==
    ASSUME UsersInv, NEW l \in Logins, Unreachable(l) PROVE UsersInv'
<1>1. UNCHANGED <<rows, cache, granted, held, changes>> /\ Reconnect(l)
  BY DEF Unreachable
<1>2. CASE Refuse(l)
  BY <1>1, <1>2, RefuseStep
<1>3. CASE ~LastAttempt(l) /\ login' = [login EXCEPT ![l].tries = @ + 1]
  <2>1. PICK q \in Login : q = login[l] /\ SessionOK(q)
    BY DEF UsersInv, UsersTypeOK
  <2>2. PICK n \in 0..(DB_MAX_RETRIES - 1) : n = q.tries + 1
    BY <1>3, <2>1, LoginFields, NumbersAssumption DEF LastAttempt
  <2>3. PICK s : s = [q EXCEPT !.tries = n]
    OBVIOUS
  <2>4. login' = [login EXCEPT ![l] = s]
    BY <1>3, <2>1, <2>2, <2>3, Zenon
  <2>5. s \in Login
    BY <2>3, Zenon DEF Login
  <2>6. /\ s.pc = q.pc /\ s.user = q.user /\ s.password = q.password /\ s.role = q.role
        /\ s.token = q.token /\ s.cached = q.cached /\ s.rest = q.rest /\ s.seen = q.seen
    BY <2>3, Zenon DEF Login
  <2>7. SessionOK(s)
    BY <2>1, <2>6, Zenon DEF SessionOK, SeesRows, RightPassword, RoleFound, RolesGranted
  <2>. QED  BY <1>1, <2>4, <2>5, <2>7, PlainStep
<1>. QED  BY <1>1, <1>2, <1>3 DEF Reconnect

LEMMA QueryFailsStep ==
    ASSUME UsersInv, NEW l \in Logins, QueryFails(l) PROVE UsersInv'
BY RefuseStep DEF QueryFails

LEMMA FindUserStep ==
    ASSUME UsersInv, NEW l \in Logins, FindUser(l) PROVE UsersInv'
<1>1. PICK q \in Login : q = login[l] /\ SessionOK(q) /\ q.pc = "find"
  BY DEF UsersInv, UsersTypeOK, FindUser, At
<1>2. PICK u \in Users : u = q.user
  BY <1>1 DEF SessionOK, SeesRows
<1>3. UNCHANGED <<rows, granted, held, changes>>
  BY DEF FindUser
<1>4. CASE rows[u] = None
  BY <1>1, <1>2, <1>3, <1>4, RefuseStep DEF FindUser
<1>5. CASE rows[u] # None
  <2>1. PICK r \in Row : r = rows[u] /\ Present(u) = {r}
    BY <1>5, PresentIs DEF UsersInv
  <2>2. PICK role : role = NormalizeRole(r.role)
    OBVIOUS
  <2>3. /\ role \in AllowedRoles
        /\ role = "viewer" \/ (r.role # None /\ Canonical[r.role] = role)
    BY <2>2, Normalized DEF Row
  <2>4. PICK s : s = [q EXCEPT !.pc = "hash", !.role = role, !.tries = 0]
    OBVIOUS
  <2>5. login' = [login EXCEPT ![l] = s] /\ cache' = [cache EXCEPT ![u] = role]
    BY <1>1, <1>2, <1>5, <2>1, <2>2, <2>4, Zenon DEF FindUser
  <2>6. s \in Login
    <3>1. 0 \in 0..(DB_MAX_RETRIES - 1) /\ "hash" \in Steps /\ role \in Names \cup {None}
      BY <2>3, NumbersAssumption, RolesAreNames DEF Steps
    <3>. QED  BY <2>4, <3>1, Zenon DEF Login
  <2>7. /\ s.pc = "hash" /\ s.user = u /\ s.role = role /\ s.cached = q.cached
        /\ s.rest = q.rest /\ s.seen = q.seen
    BY <1>2, <2>4, Zenon DEF Login
  <2>8. r \in q.seen /\ r \in held[u]
    BY <1>1, <1>2, <2>1 DEF SessionOK, SeesRows
  <2>9. SessionOK(s)
    <3>1. SeesRows(s)
      BY <1>1, <1>2, <2>7 DEF SessionOK, SeesRows
    <3>2. RoleFound(s)
      BY <2>2, <2>3, <2>7, <2>8 DEF RoleFound, HadRole
    <3>3. ~s.rest
      BY <1>1, <2>7, Zenon DEF SessionOK
    <3>. QED  BY <2>7, <3>1, <3>2, <3>3 DEF SessionOK
  <2>10. \A v \in Users : UserOK(v)'
    <3>1. \A v \in Users : cache'[v] = IF v = u THEN role ELSE cache[v]
      BY <2>5 DEF UsersInv, UsersTypeOK
    <3>2. role = "viewer" \/ HadRole(u, role)
      BY <2>3, <2>8 DEF HadRole
    <3>. QED  BY <1>3, <3>1, <3>2 DEF UsersInv, UserOK, Present, HadRole
  <2>11. cache' \in [Users -> AllowedRoles \cup {None}]
    BY <2>3, <2>5 DEF UsersInv, UsersTypeOK
  <2>. QED  BY <1>3, <2>5, <2>6, <2>9, <2>10, <2>11, LoginStep DEF UsersInv, UsersTypeOK
<1>. QED  BY <1>4, <1>5

LEMMA IsValidStep ==
    ASSUME UsersInv, NEW l \in Logins, IsValid(l) PROVE UsersInv'
<1>1. PICK q \in Login : q = login[l] /\ SessionOK(q) /\ q.pc = "hash"
  BY DEF UsersInv, UsersTypeOK, IsValid, At
<1>2. UNCHANGED <<rows, cache, granted, held, changes>>
  BY DEF IsValid
<1>3. CASE ~Matches(l)
  BY <1>2, <1>3, RefuseStep DEF IsValid, Verified
<1>4. CASE Matches(l)
  <2>1. PICK s : s = [q EXCEPT !.pc = "done", !.token = {q.role}]
    OBVIOUS
  <2>2. login' = [login EXCEPT ![l] = s]
    BY <1>1, <1>4, <2>1, Zenon DEF IsValid, Verified, TokenRoles
  <2>3. RoleFound(q) /\ SeesRows(q) /\ ~q.rest
    BY <1>1 DEF SessionOK
  <2>4. s \in Login
    <3>1. "done" \in Steps /\ {q.role} \in SUBSET Names
      BY <2>3, RolesAreNames DEF RoleFound, Steps
    <3>. QED  BY <2>1, <3>1, Zenon DEF Login
  <2>5. /\ s.pc = "done" /\ s.user = q.user /\ s.password = q.password /\ s.role = q.role
        /\ s.token = {q.role} /\ s.cached = q.cached /\ s.rest = q.rest
        /\ s.seen = q.seen
    BY <2>1, Zenon DEF Login
  <2>6. RightPassword(s)
    BY <1>1, <1>4, <2>3, <2>5 DEF Matches, SeesRows, Present, RightPassword
  <2>7. RoleFound(s) /\ SeesRows(s) /\ ~s.rest
    BY <2>3, <2>5, Zenon DEF RoleFound, SeesRows
  <2>8. SessionOK(s)
    BY <2>5, <2>6, <2>7 DEF SessionOK
  <2>. QED  BY <1>2, <2>2, <2>4, <2>8, PlainStep
<1>. QED  BY <1>3, <1>4

LEMMA EvictStep ==
    ASSUME UsersInv, NEW u \in Users, Evict(u) PROVE UsersInv'
<1>1. /\ cache' = [cache EXCEPT ![u] = None]
      /\ UNCHANGED <<rows, granted, login, held, changes>>
  BY DEF Evict
<1>2. UsersTypeOK'
  BY <1>1 DEF UsersInv, UsersTypeOK
<1>3. \A v \in Users : cache'[v] = cache[v] \/ cache'[v] = None
  BY <1>1 DEF UsersInv, UsersTypeOK
<1>4. \A v \in Users : UserOK(v)'
  BY <1>1, <1>3 DEF UsersInv, UserOK, Present, HadRole
<1>5. ASSUME NEW m \in Logins PROVE SessionOK(login[m])'
  BY <1>1 DEF UsersInv, SessionOK, SeesRows, Present, RightPassword, RoleFound, HadRole,
              RolesGranted, NormalizeRole
<1>. QED  BY <1>2, <1>4, <1>5 DEF UsersInv

LEMMA AuthVerifyStep ==
    ASSUME UsersInv, NEW l \in Logins, AuthVerify(l) PROVE UsersInv'
<1>1. PICK q \in Login : q = login[l] /\ SessionOK(q) /\ q.pc = "verify"
  BY DEF UsersInv, UsersTypeOK, AuthVerify, At
<1>2. UNCHANGED <<rows, cache, granted, held, changes>>
  BY DEF AuthVerify
<1>3. PICK u \in Users : u = q.user /\ SeesRows(q)
  BY <1>1 DEF SessionOK, SeesRows
<1>4. CASE /\ Matches(l)
           /\ login' = [login EXCEPT ![l].pc = "grant",
                                      ![l].role = rows[login[l].user].role]
  <2>1. PICK r \in Row : r = rows[u] /\ r \in q.seen /\ r.password = q.password
    BY <1>1, <1>3, <1>4, PresentIs DEF UsersInv, Matches, SeesRows
  <2>2. PICK s : s = [q EXCEPT !.pc = "grant", !.role = r.role]
    OBVIOUS
  <2>3. login' = [login EXCEPT ![l] = s]
    BY <1>1, <1>3, <1>4, <2>1, <2>2, Zenon
  <2>4. s \in Login
    <3>1. "grant" \in Steps /\ r.role \in Names \cup {None}
      BY RolesAssumption DEF Row, Steps
    <3>. QED  BY <2>2, <3>1, Zenon DEF Login
  <2>5. /\ s.pc = "grant" /\ s.user = q.user /\ s.password = q.password /\ s.role = r.role
        /\ s.rest = q.rest /\ s.seen = q.seen
    BY <2>2, Zenon DEF Login
  <2>6. SeesRows(s) /\ s.rest
    BY <1>1, <1>3, <2>5, Zenon DEF SessionOK, SeesRows
  <2>7. SessionOK(s)
    BY <2>1, <2>5, <2>6 DEF SessionOK, RightPassword
  <2>. QED  BY <1>2, <2>3, <2>4, <2>7, PlainStep
<1>5. CASE Refuse(l)
  BY <1>2, <1>5, RefuseStep
<1>. QED  BY <1>4, <1>5 DEF AuthVerify

LEMMA GrantRolesStep ==
    ASSUME UsersInv, NEW l \in Logins, GrantRoles(l) PROVE UsersInv'
<1>1. PICK q \in Login : q = login[l] /\ SessionOK(q) /\ q.pc = "grant"
  BY DEF UsersInv, UsersTypeOK, GrantRoles, At
<1>2. UNCHANGED <<rows, cache, held, changes>>
  BY DEF GrantRoles
<1>3. PICK u \in Users : u = q.user /\ SeesRows(q)
  BY <1>1 DEF SessionOK, SeesRows
<1>4. CASE Refuse(l) /\ UNCHANGED granted
  BY <1>2, <1>4, RefuseStep
<1>5. CASE /\ granted' = [granted EXCEPT ![u] = Grants(@, q.role)]
           /\ login' = [login EXCEPT ![l].pc = "done", ![l].token = granted'[u]]
  <2>1. PICK roles \in SUBSET RealmRoles : roles = granted[u]
    BY DEF UsersInv, UsersTypeOK
  <2>2. PICK new \in SUBSET RealmRoles : new = roles \cup ({q.role} \cap RealmRoles)
    OBVIOUS
  <2>3. /\ granted' = [granted EXCEPT ![u] = new]
        /\ granted' \in [Users -> SUBSET RealmRoles]
        /\ \A v \in Users : granted'[v] = IF v = u THEN new ELSE granted[v]
    BY <1>5, <2>1, <2>2 DEF Grants, UsersInv, UsersTypeOK
  <2>4. PICK s : s = [q EXCEPT !.pc = "done", !.token = new]
    OBVIOUS
  <2>5. login' = [login EXCEPT ![l] = s]
    <3>1. PICK g : g = granted'[u]
      OBVIOUS
    <3>2. login' = [login EXCEPT ![l].pc = "done", ![l].token = g]
      BY <1>5, <3>1, Zenon
    <3>3. login[l] = q
      BY <1>1
    <3>4. g = new
      BY <2>3, <3>1
    <3>. QED  BY <2>4, <3>2, <3>3, <3>4, Zenon
  <2>6. s \in Login
    <3>1. "done" \in Steps /\ new \in SUBSET Names
      BY RolesAssumption DEF Steps
    <3>. QED  BY <2>4, <3>1, Zenon DEF Login
  <2>7. /\ s.pc = "done" /\ s.user = u /\ s.password = q.password /\ s.token = new
        /\ s.role = q.role /\ s.rest = q.rest /\ s.seen = q.seen
    BY <1>3, <2>4, Zenon DEF Login
  <2>8. PICK r \in q.seen : r.role = q.role /\ r \in held[u]
    BY <1>1, <1>3 DEF SessionOK, SeesRows
  <2>9. \A name \in new : \E row \in held[u] : row.role = name
    BY <2>1, <2>2, <2>8 DEF UsersInv, UserOK
  <2>10. SessionOK(s)
    <3>1. SeesRows(s) /\ RightPassword(s) /\ s.rest
      BY <1>1, <1>3, <2>7, Zenon DEF SessionOK, SeesRows, RightPassword
    <3>2. RolesGranted(s)
      BY <2>2, <2>7, <2>8, <2>9 DEF RolesGranted
    <3>. QED  BY <2>7, <3>1, <3>2 DEF SessionOK
  <2>11. \A v \in Users : UserOK(v)'
    BY <1>2, <2>3, <2>9 DEF UsersInv, UserOK, Present, HadRole
  <2>. QED  BY <1>2, <2>3, <2>5, <2>6, <2>10, <2>11, LoginStep DEF UsersInv, UsersTypeOK
<1>. QED  BY <1>1, <1>3, <1>4, <1>5 DEF GrantRoles

LEMMA EndStep ==
    ASSUME UsersInv, NEW l \in Logins, End(l) PROVE UsersInv'
BY RefuseStep DEF End, Refuse

\* Whoever is logging in sees a change of the row.
LEMMA ChangeRowStep ==
    ASSUME UsersInv, NEW u \in Users, NEW row \in Row \cup {None}, ChangeRow(u, row)
    PROVE  UsersInv'
<1>1. PICK present \in SUBSET Row : present = IF row = None THEN {} ELSE {row}
  OBVIOUS
<1>2. /\ rows' = [rows EXCEPT ![u] = row] /\ changes < MaxChanges
      /\ changes' = changes + 1 /\ UNCHANGED <<cache, granted>>
  BY DEF ChangeRow
<1>3. /\ rows' \in [Users -> Row \cup {None}]
      /\ \A v \in Users : rows'[v] = IF v = u THEN row ELSE rows[v]
  BY <1>2 DEF UsersInv, UsersTypeOK
<1>4. /\ Present(u)' = present
      /\ \A v \in Users \ {u} : Present(v)' = Present(v)
  BY <1>1, <1>3 DEF Present
<1>5. /\ held' = [held EXCEPT ![u] = @ \cup present]
      /\ login' = [l \in Logins |->
             IF login[l].user = u THEN [login[l] EXCEPT !.seen = @ \cup present]
             ELSE login[l]]
  BY <1>4 DEF ChangeRow
<1>6. /\ held' \in [Users -> SUBSET Row]
      /\ \A v \in Users : held'[v] = IF v = u THEN held[v] \cup present ELSE held[v]
  BY <1>5 DEF UsersInv, UsersTypeOK
<1>7. \A v \in Users : UserOK(v)'
  BY <1>2, <1>4, <1>6 DEF UsersInv, UserOK, HadRole
<1>8. ASSUME NEW m \in Logins PROVE login'[m] \in Login /\ SessionOK(login[m])'
  <2>1. PICK q \in Login : q = login[m] /\ SessionOK(q)
    BY DEF UsersInv, UsersTypeOK
  <2>2. CASE q.user # u
    <3>1. login'[m] = q
      BY <1>5, <2>1, <2>2
    <3>2. q.pc # "idle" => /\ q.user \in Users /\ held'[q.user] = held[q.user]
                           /\ Present(q.user)' = Present(q.user)
      BY <1>4, <1>6, <2>1, <2>2 DEF SessionOK, SeesRows
    <3>3. SessionOK(q)'
      BY <2>1, <3>2 DEF SessionOK, SeesRows, RightPassword, RoleFound, HadRole,
                        RolesGranted, NormalizeRole
    <3>. QED  BY <3>1, <3>3
  <2>3. CASE q.user = u
    <3>1. PICK seen \in SUBSET Row : seen = q.seen \cup present
      BY LoginFields
    <3>2. PICK s : s = [q EXCEPT !.seen = seen]
      OBVIOUS
    <3>3. login'[m] = s
      BY <1>5, <2>1, <2>3, <3>1, <3>2
    <3>4. s \in Login
      BY <3>2, Zenon DEF Login
    <3>5. /\ s.pc = q.pc /\ s.user = u /\ s.password = q.password /\ s.role = q.role
          /\ s.token = q.token /\ s.cached = q.cached /\ s.rest = q.rest /\ s.seen = seen
      BY <2>3, <3>2, Zenon DEF Login
    <3>6. q.seen \subseteq seen /\ held[u] \subseteq held'[u]
      BY <1>6, <3>1
    <3>7. s.pc # "idle" => SeesRows(s)'
      BY <1>4, <1>6, <2>1, <2>3, <3>1, <3>5 DEF SessionOK, SeesRows
    <3>8. RightPassword(q) => RightPassword(s)'
      BY <3>5, <3>6 DEF RightPassword
    <3>9. RoleFound(q) => RoleFound(s)'
      BY <2>3, <3>5, <3>6, Zenon DEF RoleFound, HadRole, NormalizeRole
    <3>10. RolesGranted(q) => RolesGranted(s)'
      BY <2>3, <3>5, <3>6 DEF RolesGranted
    <3>11. (\E r \in q.seen : r.role = q.role) => \E r \in s.seen : r.role = s.role
      BY <3>5, <3>6
    <3>12. SessionOK(s)'
      BY <2>1, <3>5, <3>7, <3>8, <3>9, <3>10, <3>11, Zenon DEF SessionOK
    <3>. QED  BY <3>3, <3>4, <3>12
  <2>. QED  BY <2>2, <2>3
<1>9. UsersTypeOK'
  <2>1. login' \in [Logins -> Login]
    BY <1>5, <1>8
  <2>. QED  BY <1>2, <1>3, <1>6, <2>1, NumbersAssumption DEF UsersInv, UsersTypeOK
<1>. QED  BY <1>7, <1>8, <1>9 DEF UsersInv

LEMMA UsersInitInv == UsersInit => UsersInv
<1>. SUFFICES ASSUME UsersInit PROVE UsersInv
  OBVIOUS
<1>1. UsersTypeOK
  <2>1. held \in [Users -> SUBSET Row]
    BY DEF UsersInit, Present
  <2>. QED  BY <2>1, IdleIs, NumbersAssumption DEF UsersInit, UsersTypeOK
<1>2. \A u \in Users : UserOK(u)
  BY DEF UsersInit, UserOK
<1>3. \A l \in Logins : SessionOK(login[l])
  BY IdleIs DEF UsersInit
<1>. QED  BY <1>1, <1>2, <1>3 DEF UsersInv

LEMMA UsersNextInv == UsersInv /\ [UsersNext]_usersVars => UsersInv'
<1>. SUFFICES ASSUME UsersInv, [UsersNext]_usersVars PROVE UsersInv'
  OBVIOUS
<1>1. ASSUME NEW l \in Logins, NEW u \in Users, NEW p \in Passwords,
             PasswordLogin(l, u, p) \/ SubmitForm(l, u, p)
      PROVE  UsersInv'
  BY <1>1, PasswordLoginStep, SubmitFormStep
<1>2. ASSUME NEW l \in Logins, Continue(l) PROVE UsersInv'
  BY <1>2, UnreachableStep, QueryFailsStep, FindUserStep, IsValidStep, AuthVerifyStep,
     GrantRolesStep, EndStep DEF Continue
<1>3. ASSUME NEW u \in Users, Evict(u) PROVE UsersInv'
  BY <1>3, EvictStep
<1>4. ASSUME NEW u \in Users, NEW row \in Row \cup {None}, ChangeRow(u, row)
      PROVE  UsersInv'
  BY <1>4, ChangeRowStep
<1>5. CASE UNCHANGED usersVars
  BY <1>5 DEF usersVars, UsersInv, UsersTypeOK, UserOK, SessionOK, SeesRows, Present,
              RightPassword, RoleFound, HadRole, RolesGranted, NormalizeRole
<1>. QED  BY <1>1, <1>2, <1>3, <1>4, <1>5 DEF UsersNext

LEMMA UsersInvariant == UsersSpec => []UsersInv
BY UsersInitInv, UsersNextInv, PTL DEF UsersSpec

\* The table, Keycloak's users and the logins keep their types: no login tries to
\* connect oftener than DB_MAX_RETRIES allows.
THEOREM UsersTypeCorrect == UsersSpec => []UsersTypeOK
<1>1. UsersInv => UsersTypeOK
  BY DEF UsersInv
<1>. QED  BY <1>1, UsersInvariant, PTL

\* Who has a token gave a password that the row had at some time during the login,
\* whatever failed, changed or was cached in between: isValid and auth_verify read
\* the row, and a login's user is seen to have every row it has.
THEOREM NobodyWithoutPassword == UsersSpec => []PasswordWasRight
<1>1. UsersInv => PasswordWasRight
  BY DEF UsersInv, SessionOK, RightPassword, PasswordWasRight, At
<1>. QED  BY <1>1, UsersInvariant, PTL

\* What _sanitize_roles leaves of a token's roles are "viewer" and roles of rows the
\* user has had: for the cache holds the role of a look-up, and grants are roles the
\* application answered with.
THEOREM RolesComeFromRows == UsersSpec => []RolesWereHeld
<1>1. ASSUME UsersInv, NEW l \in Logins, At(l, "done"),
             NEW name \in Sanitized(login[l].token)
      PROVE  \/ name = "viewer" /\ ~login[l].rest
             \/ \E r \in held[login[l].user] : r.role # None /\ Canonical[r.role] = name
  <2>1. PICK s \in Login : s = login[l] /\ SessionOK(s) /\ s.pc = "done"
    BY <1>1 DEF UsersInv, UsersTypeOK, At
  <2>2. PICK n \in s.token : name = Canonical[n]
    BY <2>1 DEF Sanitized
  <2>3. CASE ~s.rest
    <3>1. RoleFound(s) /\ n = s.role
      BY <2>1, <2>2, <2>3 DEF SessionOK
    <3>2. name = s.role
      BY <2>2, <3>1, NamesAssumption DEF RoleFound
    <3>. QED  BY <2>1, <2>3, <3>1, <3>2 DEF RoleFound, HadRole
  <2>4. CASE s.rest
    <3>1. n \in Names
      BY <2>2, LoginFields
    <3>2. PICK r \in held[s.user] : r.role = n
      BY <2>1, <2>2, <2>4 DEF SessionOK, RolesGranted
    <3>. QED  BY <2>1, <2>2, <3>1, <3>2, RolesAreNames
  <2>. QED  BY <2>3, <2>4
<1>2. UsersInv => RolesWereHeld
  BY <1>1 DEF RolesWereHeld
<1>. QED  BY <1>2, UsersInvariant, PTL

\* Without Keycloak's cache the role is that of a row the user had during the login,
\* be it the look-up's or the one the application answered with and the realm has.
THEOREM RolesAreRecent == UsersSpec => []RoleIsUpToDate
<1>1. ASSUME UsersInv, NEW l \in Logins, At(l, "done"), ~login[l].cached
      PROVE  \E r \in login[l].seen :
                 IF login[l].rest
                 THEN /\ r.role = login[l].role
                      /\ r.role \in RealmRoles => r.role \in login[l].token
                 ELSE login[l].token = {NormalizeRole(r.role)}
  <2>1. PICK s \in Login : s = login[l] /\ SessionOK(s) /\ s.pc = "done" /\ ~s.cached
    BY <1>1 DEF UsersInv, UsersTypeOK, At
  <2>2. CASE s.rest
    BY <2>1, <2>2 DEF SessionOK, RolesGranted
  <2>3. CASE ~s.rest
    BY <2>1, <2>3 DEF SessionOK, RoleFound
  <2>. QED  BY <2>1, <2>2, <2>3
<1>2. UsersInv => RoleIsUpToDate
  BY <1>1 DEF RoleIsUpToDate
<1>. QED  BY <1>2, UsersInvariant, PTL
=============================================================================
