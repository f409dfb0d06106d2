---------------------------- MODULE GatewayProofs ----------------------------
(***************************************************************************)
(* Theorems about Gateway for every set of tenants, hosts, tokens and      *)
(* resources: the types, that a backend is told what was decided, that a   *)
(* tenant's backend is reached only as that tenant, and that one more role *)
(* never takes access away.                                                *)
(***************************************************************************)
EXTENDS Gateway, TLAPS

\* A request in check, or one that check has let through.
Taken == request.pc \in {"keys", "revoked", "asked"} \/ Allowed

\* What check knows of the request it has taken: a token, and the tenant, if the
\* table had the host.
TakenOK ==
    Taken => /\ request.token \in Token
             /\ request.host \in Hosts
             /\ request.known <=> request.config # NULL

\* After the token's check it was issued in the tenant's realm,
RealmOK ==
    request.pc \in {"revoked", "asked"} \/ Allowed =>
        request.token.realm = TenantRealm

\* and what OPA is asked about is the token's.
AskedOK ==
    At("asked") \/ Allowed =>
        /\ ClientMatches
        /\ request.tenant = TenantId
        /\ request.roles = OrViewer(TokenRoles(request.token))

\* An answered request is allowed with the roles the token gives.
AnsweredOK ==
    /\ Allowed => request.pc = "done"
    /\ Allowed => request.told = ToldRoles

RequestInv == TakenOK /\ RealmOK /\ AskedOK /\ AnsweredOK

\* The files written so far are those of the last publication.
FilesOK == \A i \in 1..written : files[Files[i]] = published

\* Envoy's choice is by the routes it has; in a calm, the middleware's table agrees.
CalmOK ==
    /\ At("routed") => /\ request.host \in Hosts
                       /\ request.backend = routes[request.host]
                       /\ request.calm => Settled
    /\ Taken /\ request.calm => request.config = request.backend

IInv == TypeOK /\ RequestInv /\ FilesOK /\ CalmOK

-----------------------------------------------------------------------------
LEMMA FilesThree ==
    /\ Len(Files) = 3
    /\ DOMAIN Files = 1..3
    /\ FileNames = {"auth", "policies", "envoy"}
    /\ Files[1] = "auth" /\ Files[2] = "policies" /\ Files[3] = "envoy"
BY DEF Files, FileNames

LEMMA NoOutcome == \A o \in Outcomes : o # NULL
BY NullAssumption

LEMMA IdleType ==
    /\ Idle \in Request
    /\ Idle.pc = "idle"
    /\ Idle.outcome = NULL
<1>1. Idle \in Request
  BY Zenon DEF Idle, Request
<1>. QED  BY <1>1 DEF Idle

LEMMA RolesTypes ==
    ASSUME NEW names
    PROVE  /\ OrViewer(Sanitized(names)) \subseteq AllowedRoles
           /\ OrViewer(Sanitized(names)) # {}
BY DEF OrViewer, Sanitized, AllowedRoles

LEMMA TenantsOfType ==
    ASSUME NEW m \in Hosting PROVE TenantsOf(m) \subseteq Tenants
BY DEF Hosting, TenantsOf

-----------------------------------------------------------------------------
(* What the steps of a request make of it: its fields after the step.      *)

\* An answer other than "allowed" leaves nothing to keep,
LEMMA Answered ==
    ASSUME NEW o \in Outcomes \ {"allowed"}, Answer(o)
    PROVE  /\ request' \in Request
           /\ request'.pc = "done"
           /\ request'.outcome = o
<1>1. request' = [Idle EXCEPT !.pc = "done", !.outcome = o]
  BY DEF Answer
<1>2. request' \in Request
  BY <1>1, Zenon DEF Idle, Request
<1>. QED  BY <1>1, <1>2 DEF Idle

LEMMA Routed ==
    ASSUME TypeOK, NEW h \in Hosts, NEW k \in Tokens, NEW r \in Resources,
           Route(h, k, r)
    PROVE  /\ request' \in Request
           /\ request'.pc = "routed"
           /\ request'.outcome = NULL
           /\ request'.host = h
           /\ request'.backend = routes[h]
           /\ request'.calm = Settled
<1>1. routes[h] \in Tenants \cup {NULL}
  BY DEF TypeOK, Hosting
<1>2. PICK b \in Tenants \cup {NULL} : b = routes[h]
  BY <1>1
<1>3. Settled \in BOOLEAN
  BY DEF Settled
<1>4. request' = [Idle EXCEPT !.pc = "routed", !.host = h, !.token = k,
                              !.resource = r, !.backend = b, !.calm = Settled]
  BY <1>2 DEF Route
<1>5. request' \in Request
  BY <1>3, <1>4, Zenon DEF Idle, Request
<1>. QED  BY <1>2, <1>4, <1>5, Zenon DEF Idle

LEMMA Took ==
    ASSUME TypeOK, CalmOK, TakeRequest, ~Exempt, request.token # NULL
    PROVE  /\ request' \in Request
           /\ request'.pc = "keys"
           /\ request'.outcome = request.outcome
           /\ request'.host = request.host
           /\ request'.token = request.token
           /\ request'.backend = request.backend
           /\ request'.calm = request.calm
           /\ request'.config = table[request.host]
           /\ request'.known = (table[request.host] # NULL)
<1>1. request.host \in Hosts /\ request \in Request
  BY DEF TakeRequest, CalmOK, TypeOK
<1>2. PICK c \in Tenants \cup {NULL} : c = table[request.host]
  BY <1>1 DEF TypeOK, Hosting
<1>3. request' = [request EXCEPT !.pc = "keys", !.config = c, !.known = c # NULL]
  BY <1>2 DEF TakeRequest, GetTenantConfig
<1>4. (c # NULL) \in BOOLEAN
  OBVIOUS
<1>5. request' \in Request
  BY <1>1, <1>3, <1>4, Zenon DEF Request
<1>. QED  BY <1>1, <1>2, <1>3, <1>5, Zenon DEF Request

LEMMA Checked ==
    ASSUME TypeOK, CheckToken, request' = [request EXCEPT !.pc = "revoked"]
    PROVE  /\ request' \in Request
           /\ request'.pc = "revoked"
           /\ request'.outcome = request.outcome
           /\ request'.host = request.host
           /\ request'.token = request.token
           /\ request'.backend = request.backend
           /\ request'.calm = request.calm
           /\ request'.config = request.config
           /\ request'.known = request.known
<1>1. request \in Request
  BY DEF TypeOK
<1>2. request' \in Request
  BY <1>1, Zenon DEF Request
<1>. QED  BY <1>1, <1>2, Zenon DEF Request

\* The tenant OPA is asked about is well formed, and that of the configuration if there
\* is one.
LEMMA TenantIdIs ==
    /\ TenantId \in ValidIds
    /\ TenantConfig \in Tenants => TenantId = TenantConfig
BY IdsAssumption, NullAssumption DEF TenantId, SanitizeTenantId

LEMMA Asked ==
    ASSUME TypeOK, TakenOK, AskOpa,
           request' = [request EXCEPT !.pc = "asked", !.tenant = TenantId,
                           !.roles = OrViewer(TokenRoles(request.token))]
    PROVE  /\ request' \in Request
           /\ request'.pc = "asked"
           /\ request'.outcome = request.outcome
           /\ request'.host = request.host
           /\ request'.token = request.token
           /\ request'.backend = request.backend
           /\ request'.calm = request.calm
           /\ request'.config = request.config
           /\ request'.known = request.known
           /\ request'.tenant = TenantId
           /\ request'.roles = OrViewer(TokenRoles(request.token))
<1>1. request \in Request
  BY DEF TypeOK
<1>2. TenantId \in ValidIds \cup {NULL}
  BY TenantIdIs
<1>3. OrViewer(TokenRoles(request.token)) \in SUBSET AllowedRoles
  BY RolesTypes DEF TokenRoles
<1>4. request' \in Request
  BY <1>1, <1>2, <1>3, Zenon DEF Request
<1>. QED  BY <1>1, <1>4, Zenon DEF Request

LEMMA Finished ==
    ASSUME TypeOK, NEW o \in Outcomes, NEW roles \in SUBSET AllowedRoles,
           Finish(o, roles)
    PROVE  /\ request' \in Request
           /\ request'.pc = "done"
           /\ request'.outcome = o
           /\ request'.told = roles
           /\ request'.host = request.host
           /\ request'.token = request.token
           /\ request'.backend = request.backend
           /\ request'.calm = request.calm
           /\ request'.config = request.config
           /\ request'.known = request.known
           /\ request'.tenant = request.tenant
           /\ request'.roles = request.roles
<1>1. request \in Request
  BY DEF TypeOK
<1> DEFINE e == request.tenant \in opa
<1>2. request' = [request EXCEPT !.pc = "done", !.outcome = o, !.told = roles,
                                 !.entry = e]
  BY DEF Finish
<1>3. e \in BOOLEAN
  OBVIOUS
<1>4. request' \in Request
  <2>. HIDE DEF e
  <2>. QED  BY <1>1, <1>2, <1>3, ZenonT(30) DEF Request
<1>. QED  BY <1>1, <1>2, <1>4, Zenon DEF Request

\* A publication that begins disturbs a request check has not taken.
LEMMA Disturbed ==
    ASSUME TypeOK, NEW m \in Hosting, Publish(m)
    PROVE  /\ request' \in Request
           /\ request'.pc = request.pc
           /\ request'.outcome = request.outcome
           /\ request'.told = request.told
           /\ request'.host = request.host
           /\ request'.token = request.token
           /\ request'.backend = request.backend
           /\ request'.calm = (request.calm /\ request.pc # "routed")
           /\ request'.config = request.config
           /\ request'.known = request.known
           /\ request'.tenant = request.tenant
           /\ request'.roles = request.roles
<1>1. request \in Request
  BY DEF TypeOK
<1> DEFINE c == request.calm /\ request.pc # "routed"
<1>2. c \in BOOLEAN
  OBVIOUS
<1>3. request' = [request EXCEPT !.calm = c]
  BY DEF Publish
<1>4. request' \in Request
  <2>. HIDE DEF c
  <2>. QED  BY <1>1, <1>2, <1>3, Zenon DEF Request
<1>. QED  BY <1>1, <1>3, <1>4, Zenon DEF Request

-----------------------------------------------------------------------------
(* The configuration and the types.                                        *)

\* The steps that leave the request alone, but for a restart of Envoy.
ConfigStep == WriteFile \/ ReloadTable \/ ReloadOpa \/ RestartEnvoy

LEMMA RequestType ==
    ASSUME TypeOK, TakenOK, CalmOK, [Next]_vars PROVE request' \in Request
<1>1. ASSUME NEW o \in Outcomes \ {"allowed"}, Answer(o)
      PROVE  request' \in Request
  BY <1>1, Answered
<1>2. ASSUME NEW h \in Hosts, NEW k \in Tokens, NEW r \in Resources,
             Route(h, k, r)
      PROVE  request' \in Request
  BY <1>2, Routed
<1>3. CASE TakeRequest
  BY <1>1, <1>3, Took DEF TakeRequest, Outcomes
<1>4. CASE CheckToken
  BY <1>1, <1>4, Checked DEF CheckToken, Outcomes
<1>5. CASE AskOpa
  BY <1>1, <1>5, Asked DEF AskOpa, Outcomes
<1>6. CASE TakeDecision
  <2>1. ToldRoles \in SUBSET AllowedRoles /\ {} \in SUBSET AllowedRoles
    BY RolesTypes DEF ToldRoles
  <2>. QED  BY <1>1, <1>6, <2>1, Finished DEF TakeDecision, Outcomes
<1>7. ASSUME NEW m \in Hosting, Publish(m) PROVE request' \in Request
  BY <1>7, Disturbed
<1>8. CASE ConfigStep
  BY <1>8, IdleType
     DEF ConfigStep, WriteFile, ReloadTable, ReloadOpa, RestartEnvoy, TypeOK
<1>9. CASE UNCHANGED vars
  BY <1>9 DEF vars, TypeOK
<1>. QED
  BY <1>2, <1>3, <1>4, <1>5, <1>6, <1>7, <1>8, <1>9 DEF Next, ConfigStep

\* What a request does leaves the configuration alone.
LEMMA RequestKeepsConfig ==
    ASSUME [Next]_vars, ~ConfigStep, \A m \in Hosting : ~Publish(m)
    PROVE  UNCHANGED config
BY DEF Next, ConfigStep, Route, TakeRequest, CheckToken, AskOpa,
       TakeDecision, Answer, Finish, vars, config

LEMMA TypeStep ==
    ASSUME TypeOK, TakenOK, CalmOK, [Next]_vars PROVE TypeOK'
<1>1. request' \in Request
  BY RequestType
<1>2. CASE \E m \in Hosting : Publish(m)
  <2>1. PICK m \in Hosting : Publish(m)
    BY <1>2
  <2>2. 0 \in 0..Len(Files) /\ publications + 1 \in 0..MaxPublications
    BY <2>1, FilesThree, BoundAssumption DEF Publish, TypeOK
  <2>. QED  BY <1>1, <2>1, <2>2 DEF Publish, TypeOK
<1>3. CASE WriteFile
  <2>1. written + 1 \in 0..Len(Files)
    BY <1>3, FilesThree DEF WriteFile, TypeOK
  <2>2. files' \in [FileNames -> Hosting]
    BY <1>3 DEF WriteFile, TypeOK
  <2>. QED  BY <1>1, <1>3, <2>1, <2>2 DEF WriteFile, TypeOK
<1>4. CASE ReloadTable
  BY <1>1, <1>4, FilesThree DEF ReloadTable, TypeOK
<1>5. CASE ReloadOpa
  <2>1. files["policies"] \in Hosting
    BY FilesThree DEF TypeOK
  <2>. QED  BY <1>1, <1>5, <2>1, TenantsOfType DEF ReloadOpa, TypeOK
<1>6. CASE RestartEnvoy
  BY <1>1, <1>6, FilesThree DEF RestartEnvoy, TypeOK
<1>7. CASE UNCHANGED config
  BY <1>1, <1>7 DEF config, TypeOK
<1>. QED
  BY <1>2, <1>3, <1>4, <1>5, <1>6, <1>7, RequestKeepsConfig DEF ConfigStep

LEMMA FilesStep ==
    ASSUME TypeOK, FilesOK, [Next]_vars PROVE FilesOK'
<1>1. CASE \E m \in Hosting : Publish(m)
  BY <1>1 DEF Publish, FilesOK
<1>2. CASE WriteFile
  <2>1. /\ files' = [files EXCEPT ![Files[written + 1]] = published]
        /\ written' = written + 1
        /\ published' = published
        /\ written \in 0..3
        /\ written < 3
    BY <1>2, FilesThree DEF WriteFile, TypeOK
  <2>2. ASSUME NEW i \in 1..(written + 1)
        PROVE  files'[Files[i]] = published
    <3>1. Files[i] \in FileNames
      BY <2>1, FilesThree
    <3>2. CASE Files[i] = Files[written + 1]
      BY <2>1, <3>1, <3>2 DEF TypeOK
    <3>3. CASE Files[i] # Files[written + 1]
      <4>1. i \in 1..written
        BY <2>1, <3>3
      <4>. QED  BY <2>1, <3>1, <3>3, <4>1 DEF TypeOK, FilesOK
    <3>. QED  BY <3>2, <3>3
  <2>. QED  BY <2>1, <2>2 DEF FilesOK
<1>3. CASE UNCHANGED <<published, written, files>>
  BY <1>3 DEF FilesOK
<1>. QED
  BY <1>1, <1>2, <1>3, RequestKeepsConfig
     DEF ConfigStep, ReloadTable, ReloadOpa, RestartEnvoy, config

-----------------------------------------------------------------------------
(* The request.  Its invariant speaks of the request alone.                *)

\* Fields that stay keep what is known of them.
LEMMA SameRequest ==
    ASSUME RequestInv,
           request'.pc = request.pc,
           request'.outcome = request.outcome,
           request'.told = request.told,
           request'.host = request.host,
           request'.token = request.token,
           request'.config = request.config,
           request'.known = request.known,
           request'.tenant = request.tenant,
           request'.roles = request.roles
    PROVE  RequestInv'
BY DEF RequestInv, TakenOK, RealmOK, AskedOK, AnsweredOK, Taken, Allowed, At,
       TenantRealm, TenantConfig, ClientMatches, TenantId, ToldRoles

\* A request that has not been taken, or has been refused, has nothing to keep.
LEMMA NothingTaken ==
    ASSUME request'.pc \notin {"keys", "revoked", "asked"},
           request'.outcome # "allowed"
    PROVE  RequestInv'
BY DEF RequestInv, TakenOK, RealmOK, AskedOK, AnsweredOK, Taken, Allowed, At

LEMMA RequestStep ==
    ASSUME TypeOK, RequestInv, CalmOK, [Next]_vars PROVE RequestInv'
<1>0. request \in Request /\ (Allowed => request.pc = "done")
  BY DEF TypeOK, RequestInv, AnsweredOK
<1>1. ASSUME NEW o \in Outcomes \ {"allowed"}, Answer(o) PROVE RequestInv'
  BY <1>1, Answered, NothingTaken
<1>2. ASSUME NEW h \in Hosts, NEW k \in Tokens, NEW r \in Resources,
             Route(h, k, r)
      PROVE  RequestInv'
  BY <1>2, Routed, NothingTaken, NoOutcome DEF Outcomes
<1>3. CASE TakeRequest
  <2>1. CASE ~Exempt /\ request.token # NULL
    <3>1. /\ request'.pc = "keys"
          /\ request'.outcome = request.outcome
          /\ request'.host = request.host
          /\ request'.token = request.token
          /\ request'.config = table[request.host]
          /\ request'.known = (table[request.host] # NULL)
      BY <1>3, <2>1, Took
    <3>2. request.outcome # "allowed" /\ request.host \in Hosts
      BY <1>0, <1>3 DEF TakeRequest, At, Allowed, CalmOK
    <3>3. request.token \in Tokens \cup {NULL}
      BY <1>0, Zenon DEF Request
    <3>4. request.token \in Token
      BY <2>1, <3>3, TokensAssumption
    <3>5. TakenOK'
      BY <3>1, <3>2, <3>4 DEF TakenOK
    <3>6. RealmOK' /\ AskedOK' /\ AnsweredOK'
      BY <3>1, <3>2 DEF RealmOK, AskedOK, AnsweredOK, Allowed, At
    <3>. QED  BY <3>5, <3>6 DEF RequestInv
  <2>. QED  BY <1>1, <1>3, <2>1 DEF TakeRequest, Outcomes
<1>4. CASE CheckToken
  <2>1. CASE /\ request.token.realm = TenantRealm
             /\ request' = [request EXCEPT !.pc = "revoked"]
    <3>1. /\ request'.pc = "revoked"
          /\ request'.outcome = request.outcome
          /\ request'.host = request.host
          /\ request'.token = request.token
          /\ request'.config = request.config
          /\ request'.known = request.known
      BY <1>4, <2>1, Checked
    <3>2. request.outcome # "allowed" /\ Taken
      BY <1>0, <1>4 DEF CheckToken, At, Allowed, Taken
    <3>3. TakenOK' /\ RealmOK'
      BY <2>1, <3>1, <3>2
         DEF RequestInv, TakenOK, RealmOK, TenantRealm, TenantConfig
    <3>4. AskedOK' /\ AnsweredOK'
      BY <3>1, <3>2 DEF AskedOK, AnsweredOK, Allowed, At
    <3>. QED  BY <3>3, <3>4 DEF RequestInv
  <2>. QED  BY <1>1, <1>4, <2>1 DEF CheckToken, Outcomes
<1>5. CASE AskOpa
  <2> DEFINE asked == [request EXCEPT !.pc = "asked", !.tenant = TenantId,
                                      !.roles = OrViewer(TokenRoles(request.token))]
  <2>1. CASE ClientMatches /\ request' = asked
    <3>1. /\ request'.pc = "asked"
          /\ request'.outcome = request.outcome
          /\ request'.host = request.host
          /\ request'.token = request.token
          /\ request'.config = request.config
          /\ request'.known = request.known
          /\ request'.tenant = TenantId
          /\ request'.roles = OrViewer(TokenRoles(request.token))
      BY <1>5, <2>1, Asked DEF RequestInv
    <3>2. request.outcome # "allowed" /\ Taken /\ request.pc = "revoked"
      BY <1>0, <1>5 DEF AskOpa, At, Allowed, Taken
    <3>3. TakenOK' /\ RealmOK'
      BY <3>1, <3>2
         DEF RequestInv, TakenOK, RealmOK, TenantRealm, TenantConfig
    <3>4. AskedOK'
      BY <2>1, <3>1 DEF AskedOK, ClientMatches, TenantId, TenantConfig
    <3>5. AnsweredOK'
      BY <3>1, <3>2 DEF AnsweredOK, Allowed
    <3>. QED  BY <3>3, <3>4, <3>5 DEF RequestInv
  <2>. QED  BY <1>1, <1>5, <2>1 DEF AskOpa, Outcomes
<1>6. CASE TakeDecision
  <2>1. CASE Finish("allowed", ToldRoles)
    <3>1. /\ request'.pc = "done"
          /\ request'.told = ToldRoles
          /\ request'.host = request.host
          /\ request'.token = request.token
          /\ request'.config = request.config
          /\ request'.known = request.known
          /\ request'.tenant = request.tenant
          /\ request'.roles = request.roles
      <4>1. ToldRoles \in SUBSET AllowedRoles
        BY RolesTypes DEF ToldRoles
      <4>. QED  BY <2>1, <4>1, Finished DEF Outcomes
    <3>2. At("asked") /\ Taken
      BY <1>6 DEF TakeDecision, At, Taken
    <3>3. TakenOK' /\ RealmOK'
      BY <3>1, <3>2
         DEF RequestInv, TakenOK, RealmOK, TenantRealm, TenantConfig, At
    <3>4. AskedOK'
      BY <3>1, <3>2
         DEF RequestInv, AskedOK, ClientMatches, TenantId, TenantConfig
    <3>5. AnsweredOK'
      BY <3>1 DEF AnsweredOK, ToldRoles
    <3>. QED  BY <3>3, <3>4, <3>5 DEF RequestInv
  <2>2. CASE Finish("denied", {})
    BY <2>2, Finished, NothingTaken DEF Outcomes
  <2>. QED  BY <1>1, <1>6, <2>1, <2>2 DEF TakeDecision, Outcomes
<1>7. ASSUME NEW m \in Hosting, Publish(m) PROVE RequestInv'
  BY <1>7, Disturbed, SameRequest
<1>8. CASE UNCHANGED request
  BY <1>8, SameRequest
<1>9. CASE RestartEnvoy
  BY <1>9, IdleType, NothingTaken, NoOutcome DEF RestartEnvoy, Outcomes
<1>. QED
  BY <1>2, <1>3, <1>4, <1>5, <1>6, <1>7, <1>8, <1>9
     DEF Next, vars, WriteFile, ReloadTable, ReloadOpa

\* When the files have been written, they are all of one publication.
LEMMA SettledFiles ==
    ASSUME FilesOK, Settled
    PROVE  \A f \in FileNames : files[f] = published
<1>1. written = 3
  BY FilesThree DEF Settled
<1>. QED  BY <1>1, FilesThree DEF FilesOK

\* A request that goes on keeps its backend and its configuration.
LEMMA CalmGoesOn ==
    ASSUME CalmOK, Taken,
           request'.pc # "routed",
           request'.backend = request.backend,
           request'.calm = request.calm,
           request'.config = request.config
    PROVE  CalmOK'
BY DEF CalmOK, At

LEMMA CalmEnds ==
    ASSUME request'.pc \notin {"routed", "keys", "revoked", "asked"},
           request'.outcome # "allowed"
    PROVE  CalmOK'
BY DEF CalmOK, At, Taken, Allowed

LEMMA CalmStep ==
    ASSUME TypeOK, RequestInv, FilesOK, CalmOK, [Next]_vars PROVE CalmOK'
<1>0. request \in Request /\ (Allowed => request.pc = "done")
  BY DEF TypeOK, RequestInv, AnsweredOK
<1>1. ASSUME NEW o \in Outcomes \ {"allowed"}, Answer(o) PROVE CalmOK'
  BY <1>1, Answered, CalmEnds
<1>2. ASSUME NEW h \in Hosts, NEW k \in Tokens, NEW r \in Resources,
             Route(h, k, r)
      PROVE  CalmOK'
  <2>1. /\ request'.pc = "routed"
        /\ request'.outcome # "allowed"
        /\ request'.host = h
        /\ request'.backend = routes[h]
        /\ request'.calm = Settled
    BY <1>2, Routed, NoOutcome DEF Outcomes
  <2>2. Settled' = Settled /\ routes' = routes
    BY <1>2 DEF Route, config, Settled
  <2>. QED  BY <2>1, <2>2 DEF CalmOK, At, Taken, Allowed
<1>3. CASE TakeRequest
  <2>1. CASE ~Exempt /\ request.token # NULL
    <3>1. /\ request'.pc = "keys"
          /\ request'.backend = request.backend
          /\ request'.calm = request.calm
          /\ request'.config = table[request.host]
      BY <1>3, <2>1, Took
    <3>2. ASSUME request.calm PROVE table[request.host] = request.backend
      BY <1>3, <3>2 DEF TakeRequest, CalmOK, Settled
    <3>. QED  BY <3>1, <3>2 DEF CalmOK, At
  <2>. QED  BY <1>1, <1>3, <2>1 DEF TakeRequest, Outcomes
<1>4. CASE CheckToken
  <2>1. Taken
    BY <1>4 DEF CheckToken, At, Taken
  <2>. QED  BY <1>1, <1>4, <2>1, Checked, CalmGoesOn DEF CheckToken, Outcomes
<1>5. CASE AskOpa
  <2>1. Taken
    BY <1>5 DEF AskOpa, At, Taken
  <2>. QED
    BY <1>1, <1>5, <2>1, Asked, CalmGoesOn DEF AskOpa, Outcomes, RequestInv
<1>6. CASE TakeDecision
  <2>1. Taken
    BY <1>6 DEF TakeDecision, At, Taken
  <2>2. ToldRoles \in SUBSET AllowedRoles /\ {} \in SUBSET AllowedRoles
    BY RolesTypes DEF ToldRoles
  <2>. QED
    BY <1>1, <1>6, <2>1, <2>2, Finished, CalmGoesOn DEF TakeDecision, Outcomes
<1>7. ASSUME NEW m \in Hosting, Publish(m) PROVE CalmOK'
  <2>1. /\ request'.pc = request.pc
        /\ request'.outcome = request.outcome
        /\ request'.host = request.host
        /\ request'.backend = request.backend
        /\ request'.calm = (request.calm /\ request.pc # "routed")
        /\ request'.config = request.config
        /\ routes' = routes
    BY <1>7, Disturbed DEF Publish
  <2>. QED  BY <2>1 DEF CalmOK, At, Taken, Allowed
<1>8. CASE WriteFile
  <2>1. ~Settled /\ routes' = routes /\ request' = request
    BY <1>8 DEF WriteFile, Settled
  <2>. QED  BY <2>1 DEF CalmOK, At, Taken, Allowed
<1>9. CASE ReloadTable \/ ReloadOpa
  <2>1. routes' = routes /\ request' = request
    BY <1>9 DEF ReloadTable, ReloadOpa
  <2>2. Settled => Settled'
    BY <1>9, SettledFiles, FilesThree DEF ReloadTable, ReloadOpa, Settled
  <2>. QED  BY <2>1, <2>2 DEF CalmOK, At, Taken, Allowed
<1>10. CASE RestartEnvoy
  BY <1>10, IdleType, CalmEnds, NoOutcome DEF RestartEnvoy, Outcomes
<1>11. CASE UNCHANGED vars
  BY <1>11 DEF vars, CalmOK, At, Taken, Allowed, Settled
<1>. QED
  BY <1>2, <1>3, <1>4, <1>5, <1>6, <1>7, <1>8, <1>9, <1>10, <1>11 DEF Next

LEMMA InitInvariant == Init => IInv
<1>. SUFFICES ASSUME Init PROVE IInv
  OBVIOUS
<1>1. TypeOK
  <2>1. TenantsOf(published) \subseteq Tenants
    BY TenantsOfType DEF Init
  <2>. QED  BY <2>1, IdleType, FilesThree, BoundAssumption DEF Init, TypeOK
<1>2. request.pc = "idle" /\ request.outcome # "allowed"
  BY IdleType, NoOutcome DEF Init, Outcomes
<1>3. RequestInv /\ CalmOK
  BY <1>2 DEF RequestInv, TakenOK, RealmOK, AskedOK, AnsweredOK, CalmOK, Taken,
              Allowed, At
<1>4. FilesOK
  BY FilesThree DEF Init, FilesOK
<1>. QED  BY <1>1, <1>3, <1>4 DEF IInv

LEMMA InvariantStep == IInv /\ [Next]_vars => IInv'
BY TypeStep, RequestStep, FilesStep, CalmStep DEF IInv, RequestInv

\* Tables, files and the request have their types.
THEOREM TypeCorrect == Spec => []TypeOK
<1>1. IInv => TypeOK
  BY DEF IInv
<1>. QED  BY <1>1, InitInvariant, InvariantStep, PTL DEF Spec

-----------------------------------------------------------------------------
\* With a custom role the backend is told that one alone; OPA was asked about it
\* too, unless the token has no other role that counts.
LEMMA ToldIsAsked ==
    ASSUME RequestInv, Allowed
    PROVE  /\ request.told # {}
           /\ request.told \subseteq request.roles \cup {"viewer"}
<1>1. /\ request.told = ToldRoles
      /\ request.roles = OrViewer(TokenRoles(request.token))
  BY DEF RequestInv, AnsweredOK, AskedOK
<1>2. CASE request.token.role # NULL
  <2>1. Sanitized({request.token.role}) \subseteq TokenRoles(request.token)
    BY <1>2 DEF Sanitized, TokenRoles
  <2>2. TokenRoles(request.token) \subseteq request.roles \cup {"viewer"}
    BY <1>1 DEF OrViewer
  <2>. QED  BY <1>1, <1>2, <2>1, <2>2 DEF ToldRoles, OrViewer
<1>3. CASE request.token.role = NULL
  BY <1>1, <1>3 DEF ToldRoles, OrViewer, Sanitized
<1>. QED  BY <1>2, <1>3

\* What the backend is told is what was decided, however tables and files change
\* while check waits.
THEOREM ToldIsDecided == Spec => []ToldAsDecided
<1>1. IInv => ToldAsDecided
  <2>. SUFFICES ASSUME IInv, Allowed PROVE ToldAsDecided
    BY DEF ToldAsDecided
  <2>1. RequestInv /\ Taken
    BY DEF IInv, Taken
  <2>2. ASSUME request.known
        PROVE  /\ request.tenant \in Tenants
               /\ request.token.azp = request.tenant
               /\ request.token.realm = Realm[request.tenant]
    <3>1. request.config # NULL
      BY <2>1, <2>2 DEF RequestInv, TakenOK
    <3>2. request \in Request
      BY DEF IInv, TypeOK
    <3>3. request.config \in Tenants
      BY <3>1, <3>2, Zenon DEF Request
    <3>4. TenantId = request.config
      BY <3>3, TenantIdIs DEF TenantConfig
    <3>. QED
      BY <2>1, <3>1, <3>3, <3>4
         DEF RequestInv, AskedOK, RealmOK, ClientMatches, TenantConfig, TenantRealm
  <2>. QED  BY <2>1, <2>2, ToldIsAsked DEF ToldAsDecided
<1>. QED  BY <1>1, InitInvariant, InvariantStep, PTL DEF Spec

\* A tenant's backend gets only its own requests, when nothing changes between
\* Envoy's choice and check's.
THEOREM BackendsStayApart == Spec => []BackendsAreApart
<1>1. IInv => BackendsAreApart
  <2>. SUFFICES ASSUME IInv, Allowed, request.calm, request.backend # NULL
                PROVE  /\ request.tenant = request.backend
                       /\ request.token.azp = request.backend
                       /\ request.token.realm = Realm[request.backend]
    BY DEF BackendsAreApart
  <2>1. request.config = request.backend
    BY DEF IInv, CalmOK, Taken
  <2>2. request \in Request
    BY DEF IInv, TypeOK
  <2>3. request.backend \in Tenants
    BY <2>2, Zenon DEF Request
  <2>4. TenantId = request.config
    BY <2>1, <2>3, TenantIdIs DEF TenantConfig
  <2>. QED
    BY <2>1, <2>4 DEF IInv, RequestInv, AskedOK, RealmOK, ClientMatches,
                      TenantConfig, TenantRealm
<1>. QED  BY <1>1, InitInvariant, InvariantStep, PTL DEF Spec

-----------------------------------------------------------------------------
(* OPA finds the entries of a tenant under "tenants", a key its data has   *)
(* only if a tenant has that name; so it goes by the entries for all.      *)

LEMMA EntriesForAll ==
    ASSUME NEW tenants, "tenants" \notin tenants, NEW tenant, NEW role
    PROVE  ResolvePerms(Data(tenants), tenant, role) = ValueAt(GlobalRoles, role)
<1>1. ValueAt(Data(tenants), "tenants") = {}
  BY DEF ValueAt, Data
<1>2. TenantEntry(Data(tenants), tenant, role) = {}
  BY <1>1 DEF TenantEntry
<1>3. Data(tenants)["permissions"].roles = GlobalRoles
  BY DEF Data
<1>. QED  BY <1>2, <1>3 DEF ResolvePerms

\* What a viewer may, every role may.
LEMMA ViewerIsLeast ==
    ASSUME NEW tenants, "tenants" \notin tenants, NEW tenant, NEW path, NEW method,
           RolePermitted(Data(tenants), tenant, {"viewer"}, path, method),
           NEW role \in AllowedRoles
    PROVE  RolePermitted(Data(tenants), tenant, {role}, path, method)
<1>1. /\ ValueAt(GlobalRoles, "viewer") = {Entry({"GET"})}
      /\ ValueAt(GlobalRoles, "user") = {Entry({"GET", "POST", "DELETE"})}
      /\ ValueAt(GlobalRoles, "editor") =
             {Entry({"GET", "POST", "PUT", "PATCH", "DELETE"})}
  BY DEF ValueAt, GlobalRoles
<1>2. Permits(Entry({"GET"}), path, method)
  <2>1. \E perms \in ValueAt(GlobalRoles, "viewer") : Permits(perms, path, method)
    BY EntriesForAll DEF RolePermitted
  <2>. QED  BY <1>1, <2>1
<1>3. ASSUME NEW methods, "GET" \in methods
      PROVE  Permits(Entry(methods), path, method)
  BY <1>2, <1>3 DEF Permits, Entry
<1>4. ASSUME role # "admin"
      PROVE  \E perms \in ValueAt(GlobalRoles, role) : Permits(perms, path, method)
  <2>1. CASE role = "viewer"
    BY <1>1, <1>2, <2>1
  <2>2. CASE role = "user"
    BY <1>1, <1>3, <2>2
  <2>3. CASE role = "editor"
    BY <1>1, <1>3, <2>3
  <2>. QED  BY <1>4, <2>1, <2>2, <2>3 DEF AllowedRoles
<1>. QED  BY <1>4, EntriesForAll DEF RolePermitted

\* More roles may more.
LEMMA MoreRoles ==
    ASSUME NEW data, NEW tenant, NEW path, NEW method,
           NEW roles, NEW more, roles \subseteq more,
           Allow(data, tenant, roles, path, method)
    PROVE  Allow(data, tenant, more, path, method)
BY DEF Allow, RolePermitted

\* Unless a tenant is named "tenants", so that OPA takes its entry for the table of
\* all, a user who is given one more role loses no access.
THEOREM MoreRolesMayMore == "tenants" \notin Tenants => (Spec => []MoreRolesNeverLess)
<1>. SUFFICES ASSUME "tenants" \notin Tenants PROVE Spec => []MoreRolesNeverLess
  OBVIOUS
<1>1. IInv => MoreRolesNeverLess
  <2>. SUFFICES ASSUME IInv, At("asked"), Decision(request.roles),
                       NEW name \in Names
                PROVE  Decision(OrViewer(TokenRoles(
                           [request.token EXCEPT !.roles = @ \cup {name}])))
    BY DEF MoreRolesNeverLess
  <2> DEFINE token == [request.token EXCEPT !.roles = @ \cup {name}]
             old == TokenRoles(request.token)
             new == TokenRoles(token)
  <2>1. request.token \in Token /\ request.roles = OrViewer(old)
    BY DEF IInv, RequestInv, TakenOK, AskedOK, Taken, At
  <2>2. /\ token.roles = request.token.roles \cup {name}
        /\ token.role = request.token.role
    BY <2>1 DEF Token
  <2>3. new = old \cup ({name} \cap AllowedRoles)
    BY <2>2 DEF TokenRoles, Sanitized
  <2>4. "tenants" \notin opa
    BY DEF IInv, TypeOK
  <2>. HIDE DEF old, new
  <2>5. CASE old # {} \/ new = {}
    <3>1. request.roles \subseteq OrViewer(new)
      BY <2>1, <2>3, <2>5 DEF OrViewer
    <3>2. Decision(OrViewer(new))
      BY <3>1, MoreRoles DEF Decision
    <3>. QED  BY <3>2 DEF new
  <2>6. CASE old = {} /\ new # {}
    <3>1. /\ name \in AllowedRoles
          /\ OrViewer(new) = {name}
          /\ request.roles = {"viewer"}
      BY <2>1, <2>3, <2>6 DEF OrViewer
    <3>2. Decision(OrViewer(new))
      BY <2>4, <3>1, ViewerIsLeast DEF Decision, Allow
    <3>. QED  BY <3>2 DEF new
  <2>. QED  BY <2>5, <2>6
<1>. QED  BY <1>1, InitInvariant, InvariantStep, PTL DEF Spec
=============================================================================
