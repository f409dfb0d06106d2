--------------------------- MODULE LoginFlowProofs ---------------------------
(***************************************************************************)
(* Theorems about LoginFlow for every set of hosts, tenants, realms,       *)
(* clients and tabs, and every number of retries: the types, that a code   *)
(* comes back to the realm and client it was issued for, that check        *)
(* accepts the cookies of the logins, and that no decided grant is sent    *)
(* again after its answer.                                                 *)
(***************************************************************************)
EXTENDS LoginFlow, TLAPS

\* The token endpoint's answer is a token of the target the call went to.
TokenOf(target) == [realm |-> target.realm, client |-> target.client]

\* What a login's URL and handler hold.
FieldsOK(b) ==
    /\ tab[b].pc # "idle" => tab[b].host \in Hosts
    /\ tab[b].pc = "login-redirect" => tab[b].tenant \in Tenants
    /\ tab[b].pc \in {"exchange", "password"} => tab[b].to \in Target

\* Where a login is going agrees with the tables, if they have not changed since it
\* began: only check sends a browser to the tenant's login, and only a host without a
\* tenant gets to the platform's; so the callback asks for the tenant that the redirect
\* asked for.
RouteOK(b) ==
    LET host   == tab[b].host
        tenant == tab[b].tenant
    IN  /\ tab[b].pc = "login-redirect" =>
               table.host[host] # NULL /\ tenant = table.host[host].name
        /\ tab[b].pc \in {"keycloak", "callback"} =>
               /\ table.host[host] = NULL => tenant = NULL
               /\ SourcesAgree(host) =>
                      tab[b].code = TargetOf(CallbackConfig(host, tenant),
                                             ClientOr(tenant), tenant)
        /\ tab[b].pc \in {"exchange", "password"} => Accepts(host, TokenOf(tab[b].to))
        /\ tab[b].pc = "exchange" /\ SourcesAgree(host) => tab[b].to = tab[b].code

TabsOK == \A b \in Tabs : FieldsOK(b) /\ (~tab[b].changed => RouteOK(b))

IInv == TypeOK /\ TabsOK /\ CookieIsAccepted /\ GrantsAreAccountedFor

-----------------------------------------------------------------------------
(* What the operators return.                                              *)

LEMMA TabFields ==
    ASSUME TypeOK, NEW b \in Tabs
    PROVE  /\ tab[b] \in Tab
           /\ tab[b].pc \in Steps
           /\ tab[b].host \in Hosts \cup {NULL}
           /\ tab[b].tenant \in Tenants \cup {NULL}
           /\ tab[b].code \in Target \cup {NULL}
           /\ tab[b].to \in Target \cup {NULL}
           /\ tab[b].used \in BOOLEAN
           /\ tab[b].tries \in 0..(Retries - 1)
           /\ tab[b].lost \in 0..Retries
           /\ tab[b].granted \in 0..Retries
           /\ tab[b].changed \in BOOLEAN
<1>1. tab[b] \in Tab
  BY DEF TypeOK
<1>. QED  BY <1>1, Zenon DEF Tab

LEMMA IdleType == Idle \in Tab /\ Idle.pc = "idle" /\ Idle.lost = 0 /\ Idle.granted = 0
<1>1. 0 \in 0..(Retries - 1) /\ 0 \in 0..Retries
  BY NumbersAssumption
<1>2. "idle" \in Steps
  BY DEF Steps
<1>3. Idle \in Tab
  BY <1>1, <1>2, Zenon DEF Idle, Tab
<1>. QED  BY <1>3 DEF Idle

\* The tables say of a host or a name a configuration, or nothing.
LEMMA TableFields ==
    ASSUME table \in Table
    PROVE  /\ \A h \in Hosts : table.host[h] \in Config \cup {NULL}
           /\ \A t \in Tenants : /\ table.name[t] \in Config \cup {NULL}
                                 /\ table.name[t] # NULL => table.name[t].name = t
BY ConfigsAssumption DEF Table

LEMMA GetTenantConfigType ==
    ASSUME table \in Table, NEW h \in Hosts, NEW name \in Tenants \cup {NULL}
    PROVE  GetTenantConfig(h, name) \in Config \cup {NULL}
BY TableFields DEF GetTenantConfig

LEMMA TargetOfType ==
    ASSUME NEW config \in Config \cup {NULL}, NEW client \in Clients,
           NEW back \in Tenants \cup {NULL}
    PROVE  /\ TargetOf(config, client, back) \in Target
           /\ config # NULL =>
                  /\ TargetOf(config, client, back).realm = config.realm
                  /\ TargetOf(config, client, back).client = config.client
                  /\ TargetOf(config, client, back).back = config.name
           /\ config = NULL =>
                  /\ TargetOf(config, client, back).realm = KC_REALM
                  /\ TargetOf(config, client, back).client = client
                  /\ TargetOf(config, client, back).back = back
BY DefaultAssumption DEF TargetOf, Target, Config

LEMMA ClientOrType ==
    ASSUME NEW name \in Tenants \cup {NULL} PROVE ClientOr(name) \in Clients
BY DefaultAssumption, ClientsAssumption DEF ClientOr

-----------------------------------------------------------------------------
(* What the steps make of the tabs.                                        *)

\* Only this tab moves.
Moves(b) ==
    /\ tab' \in [Tabs -> Tab]
    /\ \A c \in Tabs \ {b} : tab'[c] = tab[c]

\* It is idle again,
Ends(b) == Moves(b) /\ tab'[b] = Idle

\* it begins a login,
Begins(b, h, pc, tenant, to) ==
    /\ Moves(b)
    /\ tab'[b].pc = pc /\ tab'[b].host = h /\ tab'[b].tenant = tenant
    /\ tab'[b].to = to
    /\ tab'[b].lost = 0 /\ tab'[b].granted = 0

\* or it goes on with the login it is in.
Proceeds(b) ==
    /\ Moves(b)
    /\ tab'[b].host = tab[b].host
    /\ tab'[b].changed = tab[b].changed

KeepsCounts(b) == tab'[b].lost = tab[b].lost /\ tab'[b].granted = tab[b].granted

\* A call is repeated: only the counts differ.
Repeats(b, decided) ==
    /\ Proceeds(b)
    /\ tab'[b].pc = tab[b].pc
    /\ tab'[b].tenant = tab[b].tenant
    /\ tab'[b].code = tab[b].code
    /\ tab'[b].to = tab[b].to
    /\ tab'[b].lost = Count(tab[b].lost)
    /\ tab'[b].granted = IF decided THEN Count(tab[b].granted) ELSE tab[b].granted

LEMMA EndsDoes ==
    ASSUME TypeOK, NEW b \in Tabs, tab' = [tab EXCEPT ![b] = Idle]
    PROVE  Ends(b)
BY IdleType DEF Ends, Moves, TypeOK

LEMMA BeginDoes ==
    ASSUME TypeOK, NEW b \in Tabs, NEW h \in Hosts, NEW pc \in Steps,
           NEW tenant \in Tenants \cup {NULL}, NEW to \in Target \cup {NULL},
           Begin(b, h, pc, tenant, to)
    PROVE  Begins(b, h, pc, tenant, to) /\ logins' \in 0..MaxLogins
<1> DEFINE new == [Idle EXCEPT !.pc = pc, !.host = h, !.tenant = tenant, !.to = to]
<1>1. new \in Tab
  BY IdleType, Zenon DEF Tab
<1>2. /\ new.pc = pc /\ new.host = h /\ new.tenant = tenant /\ new.to = to
      /\ new.lost = 0 /\ new.granted = 0
  BY Zenon DEF Idle
<1>. HIDE DEF new
<1>3. tab' = [tab EXCEPT ![b] = new]
  BY DEF Begin, new
<1>4. tab' \in [Tabs -> Tab] /\ tab'[b] = new /\ \A c \in Tabs \ {b} : tab'[c] = tab[c]
  BY <1>1, <1>3 DEF TypeOK
<1>5. logins' \in 0..MaxLogins
  BY NumbersAssumption DEF Begin, TypeOK
<1>. QED  BY <1>2, <1>4, <1>5 DEF Begins, Moves

LEMMA SendToDoes ==
    ASSUME TypeOK, NEW b \in Tabs, NEW target \in Target, SendTo(b, target)
    PROVE  /\ Proceeds(b) /\ KeepsCounts(b)
           /\ tab'[b].pc = "keycloak"
           /\ tab'[b].code = target
           /\ tab'[b].tenant = target.back
<1> DEFINE new == [tab[b] EXCEPT !.pc = "keycloak", !.code = target,
                                 !.tenant = target.back]
<1>1. target.back \in Tenants \cup {NULL} /\ "keycloak" \in Steps /\ tab[b] \in Tab
  BY DEF Target, Steps, TypeOK
<1>2. new \in Tab
  BY <1>1, Zenon DEF Tab
<1>3. /\ new.pc = "keycloak" /\ new.code = target /\ new.tenant = target.back
      /\ new.host = tab[b].host /\ new.changed = tab[b].changed
      /\ new.lost = tab[b].lost /\ new.granted = tab[b].granted
  BY <1>1, Zenon DEF Tab
<1>4. tab' = [tab EXCEPT ![b] = new]
  BY <1>1, Zenon DEF SendTo, TypeOK
<1>. HIDE DEF new
<1>5. tab' \in [Tabs -> Tab] /\ tab'[b] = new /\ \A c \in Tabs \ {b} : tab'[c] = tab[c]
  BY <1>2, <1>4 DEF TypeOK
<1>. QED  BY <1>3, <1>5, Zenon DEF Proceeds, Moves, KeepsCounts

LEMMA AuthenticateDoes ==
    ASSUME TypeOK, NEW b \in Tabs, Authenticate(b)
    PROVE  \/ Ends(b)
           \/ /\ Proceeds(b) /\ KeepsCounts(b)
              /\ tab'[b].pc = "callback"
              /\ tab'[b].code = tab[b].code
              /\ tab'[b].tenant = tab[b].tenant
<1>1. CASE tab' = [tab EXCEPT ![b] = Idle]
  BY <1>1, EndsDoes
<1>2. CASE tab' = [tab EXCEPT ![b].pc = "callback"]
  <2> DEFINE new == [tab[b] EXCEPT !.pc = "callback"]
  <2>1. "callback" \in Steps /\ tab[b] \in Tab
    BY DEF Steps, TypeOK
  <2>2. new \in Tab
    BY <2>1, Zenon DEF Tab
  <2>3. /\ new.pc = "callback" /\ new.code = tab[b].code /\ new.tenant = tab[b].tenant
        /\ new.host = tab[b].host /\ new.changed = tab[b].changed
        /\ new.lost = tab[b].lost /\ new.granted = tab[b].granted
    BY <2>1, Zenon DEF Tab
  <2>4. tab' = [tab EXCEPT ![b] = new]
    BY <1>2, <2>1, Zenon DEF TypeOK
  <2>. HIDE DEF new
  <2>5. tab' \in [Tabs -> Tab] /\ tab'[b] = new /\ \A c \in Tabs \ {b} : tab'[c] = tab[c]
    BY <2>2, <2>4 DEF TypeOK
  <2>. QED  BY <2>3, <2>5, Zenon DEF Proceeds, Moves, KeepsCounts
<1>. QED  BY <1>1, <1>2 DEF Authenticate

LEMMA CallbackDoes ==
    ASSUME TypeOK, NEW b \in Tabs, NEW to \in Target,
           tab' = [tab EXCEPT ![b].pc = "exchange", ![b].to = to]
    PROVE  /\ Proceeds(b) /\ KeepsCounts(b)
           /\ tab'[b].pc = "exchange"
           /\ tab'[b].to = to
           /\ tab'[b].code = tab[b].code
           /\ tab'[b].tenant = tab[b].tenant
<1> DEFINE new == [tab[b] EXCEPT !.pc = "exchange", !.to = to]
<1>1. "exchange" \in Steps /\ tab[b] \in Tab
  BY DEF Steps, TypeOK
<1>2. new \in Tab
  BY <1>1, Zenon DEF Tab
<1>3. /\ new.pc = "exchange" /\ new.to = to
      /\ new.code = tab[b].code /\ new.tenant = tab[b].tenant
      /\ new.host = tab[b].host /\ new.changed = tab[b].changed
      /\ new.lost = tab[b].lost /\ new.granted = tab[b].granted
  BY <1>1, Zenon DEF Tab
<1>4. tab' = [tab EXCEPT ![b] = new]
  BY <1>1, Zenon DEF TypeOK
<1>. HIDE DEF new
<1>5. tab' \in [Tabs -> Tab] /\ tab'[b] = new /\ \A c \in Tabs \ {b} : tab'[c] = tab[c]
  BY <1>2, <1>4 DEF TypeOK
<1>. QED  BY <1>3, <1>5, Zenon DEF Proceeds, Moves, KeepsCounts

\* An attempt whose answer is lost.
LEMMA LostDoes ==
    ASSUME TypeOK, NEW b \in Tabs, NEW decided \in BOOLEAN, Lost(b, decided)
    PROVE  /\ Ends(b) \/ Repeats(b, decided)
           /\ UNCHANGED cookie
<1> DEFINE lost    == Count(tab[b].lost)
           granted == IF decided THEN Count(tab[b].granted) ELSE tab[b].granted
           used    == tab[b].used \/ decided
           tries   == tab[b].tries + 1
           t       == [tab[b] EXCEPT !.lost = lost, !.granted = granted, !.used = used]
           new     == [t EXCEPT !.tries = @ + 1]
<1>1. tab[b] \in Tab
  BY TabFields
<1>2. lost \in 0..Retries /\ granted \in 0..Retries
  BY TabFields, NumbersAssumption DEF Count
<1>3. used \in BOOLEAN
  OBVIOUS
<1>4. Lost(b, decided) <=> Again(b, t)
  BY <1>1, Zenon DEF Lost, Tab
<1>5. tab' = [tab EXCEPT ![b] = IF LastTry(b) THEN Idle ELSE new] /\ UNCHANGED cookie
  BY <1>4, Zenon DEF Again, TypeOK
<1>6. CASE LastTry(b)
  BY <1>5, <1>6, EndsDoes
<1>7. CASE ~LastTry(b)
  <2>1. tries \in 0..(Retries - 1)
    BY <1>7, TabFields, NumbersAssumption DEF LastTry
  <2>. HIDE DEF lost, granted, used
  <2>2. t \in Tab /\ t.tries = tab[b].tries
    BY <1>1, <1>2, <1>3, Zenon DEF Tab
  <2>3. /\ t.pc = tab[b].pc /\ t.host = tab[b].host /\ t.tenant = tab[b].tenant
        /\ t.code = tab[b].code /\ t.to = tab[b].to /\ t.changed = tab[b].changed
        /\ t.lost = lost /\ t.granted = granted
    BY <1>1, Zenon DEF Tab
  <2>. HIDE DEF t
  <2>4. new \in Tab
    BY <2>1, <2>2, Zenon DEF Tab
  <2>5. /\ new.pc = t.pc /\ new.host = t.host /\ new.tenant = t.tenant
        /\ new.code = t.code /\ new.to = t.to /\ new.changed = t.changed
        /\ new.lost = t.lost /\ new.granted = t.granted
    BY <2>2, Zenon DEF Tab
  <2>. HIDE DEF new
  <2>6. tab' \in [Tabs -> Tab] /\ tab'[b] = new /\ \A c \in Tabs \ {b} : tab'[c] = tab[c]
    BY <1>5, <1>7, <2>4 DEF TypeOK
  <2>7. Moves(b)
    BY <2>6 DEF Moves
  <2>. QED
    BY <1>5, <2>3, <2>5, <2>6, <2>7, Zenon DEF Repeats, Proceeds, lost, granted
<1>. QED  BY <1>6, <1>7, <1>5

-----------------------------------------------------------------------------
(* What the invariants need of every step.                                 *)

\* The tables and the other tabs stay as they are.
LEMMA TabsStay ==
    ASSUME TabsOK, NEW b \in Tabs, Moves(b), table' = table,
           FieldsOK(b)', ~tab'[b].changed => RouteOK(b)'
    PROVE  TabsOK'
<1>1. ASSUME NEW c \in Tabs, c # b
      PROVE  FieldsOK(c)' /\ (~tab'[c].changed => RouteOK(c)')
  <2>1. tab'[c] = tab[c]
    BY <1>1 DEF Moves
  <2>2. FieldsOK(c)' <=> FieldsOK(c)
    BY <2>1, Zenon DEF FieldsOK
  <2>3. RouteOK(c)' <=> RouteOK(c)
    BY <2>1, Zenon
       DEF RouteOK, SourcesAgree, CallbackConfig, GetTenantConfig, Accepts
  <2>4. FieldsOK(c) /\ (~tab[c].changed => RouteOK(c))
    BY Zenon DEF TabsOK
  <2>. QED  BY <2>1, <2>2, <2>3, <2>4, Zenon
<1>2. ASSUME NEW c \in Tabs
      PROVE  FieldsOK(c)' /\ (~tab'[c].changed => RouteOK(c)')
  BY <1>1, Zenon
<1>. QED  BY <1>2, Zenon DEF TabsOK

LEMMA GrantsStay ==
    ASSUME GrantsAreAccountedFor, NEW b \in Tabs, Moves(b),
           tab'[b].granted <= tab'[b].lost
    PROVE  GrantsAreAccountedFor'
BY DEF GrantsAreAccountedFor, Moves

LEMMA CookiesStay ==
    ASSUME CookieIsAccepted, table' = table, cookie' = cookie
    PROVE  CookieIsAccepted'
BY Zenon DEF CookieIsAccepted, Accepts, GetTenantConfig

LEMMA EndStep ==
    ASSUME TabsOK, GrantsAreAccountedFor, NEW b \in Tabs, Ends(b), table' = table
    PROVE  TabsOK' /\ GrantsAreAccountedFor'
<1>1. FieldsOK(b)' /\ RouteOK(b)'
  BY IdleType DEF Ends, FieldsOK, RouteOK
<1>2. tab'[b].granted <= tab'[b].lost
  BY IdleType DEF Ends
<1>. QED  BY <1>1, <1>2, TabsStay, GrantsStay DEF Ends

\* A login that begins: the tab holds what the route needs.
LEMMA BeginStep ==
    ASSUME IInv, NEW b \in Tabs, NEW h \in Hosts, NEW pc \in Steps,
           NEW tenant \in Tenants \cup {NULL}, NEW to \in Target \cup {NULL},
           Begin(b, h, pc, tenant, to), UNCHANGED <<table, cookie, changes>>,
           \/ /\ pc = "login-redirect"
              /\ tenant \in Tenants
              /\ table.host[h] # NULL /\ tenant = table.host[h].name
           \/ pc = "login"
           \/ pc = "password" /\ to \in Target /\ Accepts(h, TokenOf(to))
    PROVE  IInv'
<1>1. Begins(b, h, pc, tenant, to) /\ logins' \in 0..MaxLogins
  BY BeginDoes DEF IInv
<1>2. /\ Moves(b)
      /\ tab'[b].pc = pc /\ tab'[b].host = h /\ tab'[b].tenant = tenant
      /\ tab'[b].to = to
  BY <1>1, Zenon DEF Begins
<1>3. TypeOK'
  BY <1>1, <1>2 DEF IInv, TypeOK, Moves
<1>4. FieldsOK(b)'
  BY <1>2 DEF FieldsOK
<1>5. RouteOK(b)'
  <2>1. Accepts(h, TokenOf(to))' <=> Accepts(h, TokenOf(to))
    BY Zenon DEF Accepts, GetTenantConfig
  <2>2. table' = table
    OBVIOUS
  <2>. QED  BY <1>2, <2>1, <2>2 DEF RouteOK
<1>6. TabsOK'
  BY <1>2, <1>4, <1>5, TabsStay DEF IInv
<1>7. GrantsAreAccountedFor'
  <2>1. tab'[b].granted <= tab'[b].lost
    BY <1>1 DEF Begins
  <2>. QED  BY <2>1, <1>2, GrantsStay DEF IInv
<1>. QED  BY <1>3, <1>6, <1>7, CookiesStay DEF IInv

-----------------------------------------------------------------------------
(* Every step keeps the invariants.                                        *)

LEMMA VisitStep ==
    ASSUME IInv, NEW b \in Tabs, NEW h \in Hosts, Visit(b, h) PROVE IInv'
<1> DEFINE config == GetTenantConfig(h, NULL)
<1>1. UNCHANGED <<table, cookie, changes>>
  BY DEF Visit
<1>2. CASE config # NULL /\ config.keycloak
  <2>1. config = table.host[h] /\ config \in Config /\ config.name \in Tenants
    BY <1>2, GetTenantConfigType DEF GetTenantConfig, IInv, TypeOK, Config
  <2>2. Begin(b, h, "login-redirect", config.name, NULL)
    BY <1>2, Zenon DEF Visit
  <2>. QED  BY <1>1, <1>2, <2>1, <2>2, BeginStep DEF Steps
<1>3. CASE ~(config # NULL /\ config.keycloak)
  <2>1. Begin(b, h, "login", NULL, NULL)
    BY <1>3, Zenon DEF Visit
  <2>. QED  BY <1>1, <2>1, BeginStep DEF Steps
<1>. QED  BY <1>2, <1>3

LEMMA SignInStep ==
    ASSUME IInv, NEW b \in Tabs, NEW h \in Hosts, SignIn(b, h) PROVE IInv'
BY BeginStep DEF SignIn, Steps

\* The token of the host's tenant, or of the platform where there is none, is accepted.
LEMMA HostTokenAccepted ==
    ASSUME TypeOK, NEW h \in Hosts, NEW client \in Clients, NEW back \in Tenants \cup {NULL}
    PROVE  Accepts(h, TokenOf(TargetOf(GetTenantConfig(h, NULL), client, back)))
<1>1. GetTenantConfig(h, NULL) \in Config \cup {NULL}
  BY GetTenantConfigType DEF TypeOK
<1>. QED  BY <1>1, TargetOfType DEF Accepts, TokenOf

LEMMA PasswordLoginStep ==
    ASSUME IInv, NEW b \in Tabs, NEW h \in Hosts, PasswordLogin(b, h) PROVE IInv'
<1> DEFINE to == TargetOf(GetTenantConfig(h, NULL), KC_CLIENT_ID, NULL)
<1>1. GetTenantConfig(h, NULL) \in Config \cup {NULL}
  BY GetTenantConfigType DEF IInv, TypeOK
<1>2. to \in Target
  BY <1>1, TargetOfType, DefaultAssumption
<1>3. Accepts(h, TokenOf(to))
  BY HostTokenAccepted, DefaultAssumption DEF IInv
<1>. HIDE DEF to
<1>4. Begin(b, h, "password", NULL, to) /\ UNCHANGED <<table, cookie, changes>>
  BY DEF PasswordLogin, to
<1>. QED  BY <1>2, <1>3, <1>4, BeginStep DEF Steps

\* The browser is on its way to a login page: the callback will ask for the same target.
LEMMA SendToStep ==
    ASSUME IInv, NEW b \in Tabs, tab[b].pc # "idle", NEW target \in Target,
           SendTo(b, target),
           ~tab[b].changed =>
               /\ table.host[tab[b].host] = NULL => target.back = NULL
               /\ SourcesAgree(tab[b].host) =>
                      target = TargetOf(CallbackConfig(tab[b].host, target.back),
                                        ClientOr(target.back), target.back)
    PROVE  IInv'
<1>1. /\ Moves(b) /\ KeepsCounts(b)
      /\ tab'[b].pc = "keycloak"
      /\ tab'[b].code = target
      /\ tab'[b].tenant = target.back
      /\ tab'[b].host = tab[b].host
  BY SendToDoes DEF IInv, Proceeds
<1>2. tab'[b].changed = tab[b].changed
  BY SendToDoes, Zenon DEF IInv, Proceeds
<1>3. UNCHANGED <<table, cookie, logins, changes>>
  BY DEF SendTo
<1>4. TypeOK'
  BY <1>1, <1>3 DEF IInv, TypeOK, Moves
<1>5. FieldsOK(b)'
  BY <1>1 DEF IInv, TabsOK, FieldsOK
<1>6. ~tab'[b].changed => RouteOK(b)'
  <2>. SUFFICES ASSUME ~tab'[b].changed PROVE RouteOK(b)'
    OBVIOUS
  <2>1. ~tab[b].changed
    BY <1>2, Zenon
  <2>. QED
    BY <2>1, <1>1, <1>3 DEF RouteOK, SourcesAgree, CallbackConfig, GetTenantConfig
<1>7. TabsOK'
  BY <1>1, <1>3, <1>5, <1>6, TabsStay DEF IInv
<1>8. GrantsAreAccountedFor'
  BY <1>1, GrantsStay DEF IInv, GrantsAreAccountedFor, KeepsCounts
<1>. QED  BY <1>3, <1>4, <1>7, <1>8, CookiesStay DEF IInv

LEMMA LoginRedirectStep ==
    ASSUME IInv, NEW b \in Tabs, LoginRedirect(b) PROVE IInv'
<1> DEFINE tenant == tab[b].tenant
           host   == tab[b].host
           config == table.name[tenant]
           target == RedirectTarget(tenant)
<1>1. /\ tab[b].pc = "login-redirect" /\ tab[b].pc # "idle"
      /\ tenant \in Tenants /\ host \in Hosts
  BY DEF LoginRedirect, At, IInv, TabsOK, FieldsOK
<1>2. /\ config \in Config \cup {NULL}
      /\ config # NULL => config.name = tenant
      /\ table.host[host] \in Config \cup {NULL}
  BY <1>1, TableFields DEF IInv, TypeOK
<1>3. target \in Target
  BY <1>1, <1>2, TargetOfType, ClientsAssumption DEF RedirectTarget
<1>4. target.back = tenant
  BY <1>1, <1>2, TargetOfType, ClientsAssumption DEF RedirectTarget
<1>5. ASSUME ~tab[b].changed
      PROVE  /\ table.host[host] = NULL => target.back = NULL
             /\ SourcesAgree(host) =>
                    target = TargetOf(CallbackConfig(host, target.back),
                                      ClientOr(target.back), target.back)
  <2>1. RouteOK(b)
    BY <1>5, Zenon DEF IInv, TabsOK
  <2>2. table.host[host] # NULL /\ tenant = table.host[host].name
    BY <2>1, <1>1 DEF RouteOK
  <2>3. SourcesAgree(host) => config = table.host[host]
    BY <2>2 DEF SourcesAgree
  <2>4. CallbackConfig(host, tenant) = table.host[host]
    BY <2>2 DEF CallbackConfig, GetTenantConfig
  <2>5. SourcesAgree(host) => target = TargetOf(CallbackConfig(host, tenant),
                                                ClientOr(tenant), tenant)
    BY <2>2, <2>3, <2>4 DEF RedirectTarget, TargetOf
  <2>. HIDE DEF target
  <2>. QED  BY <2>2, <2>5, <1>4
<1>6. SendTo(b, target)
  BY DEF LoginRedirect
<1>. HIDE DEF target
<1>. QED  BY <1>1, <1>3, <1>5, <1>6, SendToStep

LEMMA LoginPageStep ==
    ASSUME IInv, NEW b \in Tabs, LoginPage(b) PROVE IInv'
<1> DEFINE host   == tab[b].host
           config == GetTenantConfig(host, NULL)
           target == TargetOf(config, KC_CLIENT_ID, NULL)
<1>1. tab[b].pc = "login" /\ tab[b].pc # "idle" /\ host \in Hosts
  BY DEF LoginPage, At, IInv, TabsOK, FieldsOK
<1>2. config \in Config \cup {NULL} /\ config = table.host[host]
  BY <1>1, GetTenantConfigType DEF IInv, TypeOK, GetTenantConfig
<1>. HIDE DEF config
<1>3. /\ target \in Target
      /\ config # NULL => target.back = config.name
      /\ config = NULL => target.back = NULL
  BY <1>2, TargetOfType, DefaultAssumption
<1>4. target = TargetOf(CallbackConfig(host, target.back),
                        ClientOr(target.back), target.back)
  <2>1. CASE config # NULL
    <3>1. CallbackConfig(host, target.back) = config
      BY <1>2, <2>1 DEF CallbackConfig, GetTenantConfig
    <3>. QED  BY <3>1, <2>1 DEF TargetOf
  <2>2. CASE config = NULL
    <3>1. target.back = NULL /\ CallbackConfig(host, NULL) = NULL
      BY <1>2, <1>3, <2>2 DEF CallbackConfig, GetTenantConfig
    <3>2. target = [realm |-> KC_REALM, client |-> KC_CLIENT_ID, back |-> NULL]
      BY <2>2 DEF TargetOf
    <3>. HIDE DEF target
    <3>. QED  BY <3>1, <3>2 DEF TargetOf, ClientOr
  <2>. QED  BY <2>1, <2>2
<1>5. SendTo(b, target)
  BY DEF LoginPage, config
<1>. HIDE DEF target
<1>. QED  BY <1>1, <1>2, <1>3, <1>4, <1>5, SendToStep

LEMMA AuthenticateStep ==
    ASSUME IInv, NEW b \in Tabs, Authenticate(b) PROVE IInv'
<1>1. tab[b].pc = "keycloak" /\ UNCHANGED <<table, cookie, logins, changes>>
  BY DEF Authenticate, At
<1>2. CASE Ends(b)
  <2>1. TypeOK'
    BY <1>1, <1>2 DEF IInv, TypeOK, Ends, Moves
  <2>. QED  BY <1>1, <1>2, <2>1, EndStep, CookiesStay DEF IInv
<1>3. CASE /\ Proceeds(b) /\ KeepsCounts(b)
           /\ tab'[b].pc = "callback"
           /\ tab'[b].code = tab[b].code
           /\ tab'[b].tenant = tab[b].tenant
  <2>1. Moves(b) /\ tab'[b].host = tab[b].host
    BY <1>3 DEF Proceeds
  <2>2. tab'[b].changed = tab[b].changed
    BY <1>3, Zenon DEF Proceeds
  <2>3. TypeOK'
    BY <1>1, <2>1 DEF IInv, TypeOK, Moves
  <2>4. FieldsOK(b)'
    BY <1>1, <1>3, <2>1 DEF IInv, TabsOK, FieldsOK
  <2>5. ~tab'[b].changed => RouteOK(b)'
    <3>. SUFFICES ASSUME ~tab'[b].changed PROVE RouteOK(b)'
      OBVIOUS
    <3>1. RouteOK(b)
      BY <2>2, Zenon DEF IInv, TabsOK
    <3>. QED
      BY <3>1, <1>1, <1>3, <2>1
         DEF RouteOK, SourcesAgree, CallbackConfig, GetTenantConfig
  <2>6. TabsOK'
    BY <1>1, <2>1, <2>4, <2>5, TabsStay DEF IInv
  <2>7. GrantsAreAccountedFor'
    BY <1>3, <2>1, GrantsStay DEF IInv, GrantsAreAccountedFor, KeepsCounts
  <2>. QED  BY <1>1, <2>3, <2>6, <2>7, CookiesStay DEF IInv
<1>. QED  BY <1>2, <1>3, AuthenticateDoes DEF IInv

LEMMA CallbackStep ==
    ASSUME IInv, NEW b \in Tabs, Callback(b) PROVE IInv'
<1> DEFINE host == tab[b].host
           name == tab[b].tenant
           config == CallbackConfig(host, name)
           to   == TargetOf(config, ClientOr(name), name)
<1>1. /\ tab[b].pc = "callback" /\ host \in Hosts /\ name \in Tenants \cup {NULL}
      /\ UNCHANGED <<table, cookie, logins, changes>>
  BY TabFields DEF Callback, At, IInv, TabsOK, FieldsOK
<1>2. config \in Config \cup {NULL}
  BY <1>1, GetTenantConfigType DEF IInv, TypeOK, CallbackConfig
<1>3. to \in Target
  BY <1>1, <1>2, TargetOfType, ClientOrType
<1>4. ~tab[b].changed => /\ SourcesAgree(host) => to = tab[b].code
                         /\ Accepts(host, TokenOf(to))
  <2>. SUFFICES ASSUME ~tab[b].changed
       PROVE  /\ SourcesAgree(host) => to = tab[b].code
              /\ Accepts(host, TokenOf(to))
    OBVIOUS
  <2>1. RouteOK(b)
    BY Zenon DEF IInv, TabsOK
  <2>2. SourcesAgree(host) => to = tab[b].code
    BY <1>1, <2>1 DEF RouteOK
  <2>3. Accepts(host, TokenOf(to))
    <3>1. CASE table.host[host] = NULL
      <4>1. name = NULL
        BY <3>1, <1>1, <2>1 DEF RouteOK
      <4>2. config = GetTenantConfig(host, NULL)
        BY <4>1 DEF CallbackConfig
      <4>. QED  BY <4>1, <4>2, <1>1, HostTokenAccepted, ClientOrType DEF IInv
    <3>2. CASE table.host[host] # NULL
      <4>1. config = GetTenantConfig(host, NULL)
        BY <3>2 DEF CallbackConfig, GetTenantConfig
      <4>. QED  BY <4>1, <1>1, HostTokenAccepted, ClientOrType DEF IInv
    <3>. QED  BY <3>1, <3>2
  <2>. QED  BY <2>2, <2>3
<1>5. tab' = [tab EXCEPT ![b].pc = "exchange", ![b].to = to]
  BY DEF Callback
<1>. HIDE DEF to, config
<1>6. /\ Proceeds(b) /\ KeepsCounts(b)
      /\ tab'[b].pc = "exchange"
      /\ tab'[b].to = to
      /\ tab'[b].code = tab[b].code
  BY <1>3, <1>5, CallbackDoes DEF IInv
<1>7. Moves(b) /\ tab'[b].host = host
  BY <1>6 DEF Proceeds
<1>8. tab'[b].changed = tab[b].changed
  BY <1>6, Zenon DEF Proceeds
<1>9. TypeOK'
  BY <1>1, <1>7 DEF IInv, TypeOK, Moves
<1>10. FieldsOK(b)'
  BY <1>1, <1>3, <1>6, <1>7 DEF FieldsOK
<1>11. ~tab'[b].changed => RouteOK(b)'
  <2>. SUFFICES ASSUME ~tab'[b].changed PROVE RouteOK(b)'
    OBVIOUS
  <2>1. (SourcesAgree(host) => to = tab[b].code) /\ Accepts(host, TokenOf(to))
    BY <1>4, <1>8, Zenon
  <2>2. /\ Accepts(tab[b].host, TokenOf(tab[b].to))'
        /\ SourcesAgree(tab[b].host)' => SourcesAgree(host)
    BY <2>1, <1>1, <1>6, <1>7 DEF Accepts, GetTenantConfig, SourcesAgree
  <2>. QED  BY <2>1, <2>2, <1>6, <1>7 DEF RouteOK
<1>12. TabsOK'
  BY <1>1, <1>7, <1>10, <1>11, TabsStay DEF IInv
<1>13. GrantsAreAccountedFor'
  BY <1>6, <1>7, GrantsStay DEF IInv, GrantsAreAccountedFor, KeepsCounts
<1>. QED  BY <1>1, <1>9, <1>12, <1>13, CookiesStay DEF IInv

\* The handler's answer: a cookie that check accepts, unless the tables have changed.
LEMMA DeliverStep ==
    ASSUME IInv, NEW b \in Tabs, Calling(b), Deliver(b),
           UNCHANGED <<table, logins, changes>>
    PROVE  IInv'
<1> DEFINE host == tab[b].host
           token == TokenOf(tab[b].to)
           new == [token |-> token, changed |-> tab[b].changed]
<1>1. /\ tab[b].pc \in {"exchange", "password"}
      /\ host \in Hosts /\ tab[b].to \in Target
  BY DEF Calling, At, IInv, TabsOK, FieldsOK
<1>2. token \in Token
  BY <1>1 DEF TokenOf, Token, Target
<1>3. cookie' = [cookie EXCEPT ![host] = new] /\ tab' = [tab EXCEPT ![b] = Idle]
  BY Zenon DEF Deliver, TokenOf
<1>4. ~tab[b].changed => Accepts(host, token)
  <2>. SUFFICES ASSUME ~tab[b].changed PROVE Accepts(host, token)
    OBVIOUS
  <2>1. RouteOK(b)
    BY Zenon DEF IInv, TabsOK
  <2>. QED  BY <1>1, <2>1 DEF RouteOK
<1>. HIDE DEF token
<1>5. /\ new \in Cookie
      /\ new.token = token /\ new.changed = tab[b].changed
  <2>1. tab[b].changed \in BOOLEAN
    BY TabFields, Zenon DEF IInv
  <2>. QED  BY <1>2, <2>1, Zenon DEF Cookie
<1>. HIDE DEF new
<1>6. /\ cookie' \in [Hosts -> Cookie \cup {NULL}]
      /\ cookie'[host] = new
      /\ \A h \in Hosts \ {host} : cookie'[h] = cookie[h]
  BY <1>1, <1>3, <1>5 DEF IInv, TypeOK
<1>7. Ends(b)
  BY <1>3, EndsDoes DEF IInv
<1>8. TypeOK'
  BY <1>6, <1>7 DEF IInv, TypeOK, Ends, Moves
<1>9. CookieIsAccepted'
  <2>1. ASSUME NEW h \in Hosts, cookie'[h] # NULL, ~cookie'[h].changed
        PROVE  Accepts(h, cookie'[h].token)
    <3>1. CASE h = host
      BY <2>1, <3>1, <1>4, <1>5, <1>6, Zenon
    <3>2. CASE h # host
      <4>1. cookie'[h] = cookie[h]
        BY <3>2, <1>6
      <4>. QED  BY <2>1, <4>1, Zenon DEF IInv, CookieIsAccepted
    <3>. QED  BY <3>1, <3>2
  <2>. QED  BY <2>1, Zenon DEF CookieIsAccepted, Accepts, GetTenantConfig
<1>. QED  BY <1>7, <1>8, <1>9, EndStep DEF IInv

\* It may also be an error, or the call is repeated.
LEMMA LostStep ==
    ASSUME IInv, NEW b \in Tabs, NEW decided \in BOOLEAN, Calling(b), Lost(b, decided),
           UNCHANGED <<table, logins, changes>>
    PROVE  IInv'
<1>1. cookie' = cookie
  BY LostDoes DEF IInv
<1>2. CASE Ends(b)
  <2>1. TypeOK'
    BY <1>1, <1>2 DEF IInv, TypeOK, Ends, Moves
  <2>. QED  BY <1>1, <1>2, <2>1, EndStep, CookiesStay DEF IInv
<1>3. CASE Repeats(b, decided)
  <2>1. /\ Moves(b)
        /\ tab'[b].pc = tab[b].pc /\ tab'[b].host = tab[b].host
        /\ tab'[b].tenant = tab[b].tenant /\ tab'[b].code = tab[b].code
        /\ tab'[b].to = tab[b].to
    BY <1>3 DEF Repeats, Proceeds
  <2>2. tab'[b].changed = tab[b].changed
    BY <1>3, Zenon DEF Repeats, Proceeds
  <2>3. tab'[b].granted <= tab'[b].lost
    <3>1. /\ tab'[b].lost = Count(tab[b].lost)
          /\ tab'[b].granted \in {tab[b].granted, Count(tab[b].granted)}
      BY <1>3 DEF Repeats
    <3>2. /\ tab[b].lost \in 0..Retries /\ tab[b].granted \in 0..Retries
          /\ tab[b].granted <= tab[b].lost
      BY TabFields DEF IInv, GrantsAreAccountedFor
    <3>. QED  BY <3>1, <3>2, NumbersAssumption DEF Count
  <2>4. TypeOK'
    BY <1>1, <2>1 DEF IInv, TypeOK, Moves
  <2>5. FieldsOK(b)'
    BY <2>1 DEF IInv, TabsOK, FieldsOK
  <2>6. ~tab'[b].changed => RouteOK(b)'
    <3>. SUFFICES ASSUME ~tab'[b].changed PROVE RouteOK(b)'
      OBVIOUS
    <3>1. RouteOK(b)
      BY <2>2, Zenon DEF IInv, TabsOK
    <3>. QED
      BY <3>1, <2>1
         DEF RouteOK, SourcesAgree, CallbackConfig, GetTenantConfig, Accepts
  <2>7. TabsOK'
    BY <2>1, <2>5, <2>6, TabsStay DEF IInv
  <2>8. GrantsAreAccountedFor'
    BY <2>1, <2>3, GrantsStay DEF IInv
  <2>. QED  BY <1>1, <2>4, <2>7, <2>8, CookiesStay DEF IInv
<1>. QED  BY <1>2, <1>3, LostDoes DEF IInv

LEMMA RejectedStep ==
    ASSUME IInv, NEW b \in Tabs, Rejected(b), UNCHANGED <<table, logins, changes>>
    PROVE  IInv'
<1>1. Ends(b) /\ cookie' = cookie
  BY EndsDoes DEF IInv, Rejected, Refuse
<1>2. TypeOK'
  BY <1>1 DEF IInv, TypeOK, Ends, Moves
<1>. QED  BY <1>1, <1>2, EndStep, CookiesStay DEF IInv

LEMMA CallStep ==
    ASSUME IInv, NEW b \in Tabs, NotServed(b) \/ Exchange(b) \/ PasswordGrant(b)
    PROVE  IInv'
<1>1. Calling(b) /\ UNCHANGED <<table, logins, changes>>
  BY DEF NotServed, Exchange, PasswordGrant, Calling
<1>2. Deliver(b) \/ Rejected(b) \/ Lost(b, TRUE) \/ Lost(b, FALSE)
  BY Zenon DEF NotServed, Exchange, PasswordGrant
<1>. QED  BY <1>1, <1>2, DeliverStep, RejectedStep, LostStep

LEMMA LogoutStep ==
    ASSUME IInv, NEW h \in Hosts, Logout(h) PROVE IInv'
<1>1. UNCHANGED <<table, tab, logins, changes>> /\ cookie' = [cookie EXCEPT ![h] = NULL]
  BY DEF Logout
<1>2. TypeOK'
  BY <1>1 DEF IInv, TypeOK
<1>3. TabsOK' /\ GrantsAreAccountedFor'
  BY <1>1, Zenon
     DEF IInv, TabsOK, FieldsOK, RouteOK, SourcesAgree, CallbackConfig, GetTenantConfig,
         Accepts, GrantsAreAccountedFor
<1>4. CookieIsAccepted'
  <2>1. ASSUME NEW g \in Hosts, cookie'[g] # NULL PROVE cookie'[g] = cookie[g]
    BY <1>1, <2>1 DEF IInv, TypeOK
  <2>. QED
    BY <1>1, <2>1, Zenon DEF IInv, CookieIsAccepted, Accepts, GetTenantConfig
<1>. QED  BY <1>2, <1>3, <1>4 DEF IInv

\* A change of the tables is marked on every login under way and every cookie.
LEMMA ChangeTableStep ==
    ASSUME IInv, NEW new \in Table, ChangeTable(new) PROVE IInv'
<1> DEFINE t(b) == [tab[b] EXCEPT !.changed = ~At(b, "idle")]
           c(h) == [cookie[h] EXCEPT !.changed = TRUE]
<1>1. /\ tab' = [b \in Tabs |-> t(b)]
      /\ cookie' = [h \in Hosts |-> IF cookie[h] = NULL THEN NULL ELSE c(h)]
      /\ table' \in Table /\ logins' = logins
      /\ changes' \in 0..MaxChanges
  BY NumbersAssumption DEF ChangeTable, IInv, TypeOK
<1>2. ASSUME NEW b \in Tabs
      PROVE  /\ t(b) \in Tab
             /\ t(b).pc = tab[b].pc /\ t(b).host = tab[b].host
             /\ t(b).tenant = tab[b].tenant /\ t(b).to = tab[b].to
             /\ t(b).lost = tab[b].lost /\ t(b).granted = tab[b].granted
             /\ t(b).changed = ~At(b, "idle")
  <2>1. tab[b] \in Tab
    BY DEF IInv, TypeOK
  <2>2. (~At(b, "idle")) \in BOOLEAN
    OBVIOUS
  <2>. QED  BY <2>1, <2>2, Zenon DEF Tab
<1>3. ASSUME NEW h \in Hosts, cookie[h] # NULL
      PROVE  c(h) \in Cookie /\ c(h).changed
  <2>1. cookie[h] \in Cookie
    BY <1>3 DEF IInv, TypeOK
  <2>. QED  BY <2>1, Zenon DEF Cookie
<1>. HIDE DEF t, c
<1>4. \A b \in Tabs : tab'[b] = t(b)
  BY <1>1
<1>5. TypeOK'
  BY <1>1, <1>2, <1>3 DEF IInv, TypeOK
<1>6. TabsOK'
  <2>1. ASSUME NEW b \in Tabs PROVE FieldsOK(b)'
    BY <1>2, <1>4 DEF IInv, TabsOK, FieldsOK
  <2>2. ASSUME NEW b \in Tabs, ~tab'[b].changed PROVE RouteOK(b)'
    <3>1. At(b, "idle")
      BY <2>2, <1>2, <1>4, Zenon
    <3>2. tab'[b].pc = "idle"
      BY <3>1, <1>2, <1>4 DEF At
    <3>. QED  BY <3>2 DEF RouteOK
  <2>. QED  BY <2>1, <2>2, Zenon DEF TabsOK
<1>7. CookieIsAccepted'
  <2>1. ASSUME NEW h \in Hosts, cookie'[h] # NULL PROVE cookie'[h].changed
    BY <2>1, <1>1, <1>3
  <2>. QED  BY <2>1, Zenon DEF CookieIsAccepted
<1>8. GrantsAreAccountedFor'
  BY <1>2, <1>4 DEF IInv, GrantsAreAccountedFor
<1>. QED  BY <1>5, <1>6, <1>7, <1>8 DEF IInv

LEMMA StutterStep ==
    ASSUME IInv, UNCHANGED vars PROVE IInv'
<1>1. UNCHANGED <<table, tab, cookie, logins, changes>>
  BY DEF vars
<1>2. TypeOK'
  BY <1>1 DEF IInv, TypeOK
<1>3. TabsOK' /\ GrantsAreAccountedFor'
  BY <1>1, Zenon
     DEF IInv, TabsOK, FieldsOK, RouteOK, SourcesAgree, CallbackConfig, GetTenantConfig,
         Accepts, GrantsAreAccountedFor
<1>. QED  BY <1>1, <1>2, <1>3, CookiesStay DEF IInv

LEMMA InitInv == Init => IInv
<1>. SUFFICES ASSUME Init PROVE IInv
  OBVIOUS
<1>1. \A b \in Tabs : tab[b] = Idle
  BY DEF Init
<1>2. TypeOK
  BY IdleType, NumbersAssumption DEF Init, TypeOK
<1>3. TabsOK
  BY <1>1, IdleType DEF TabsOK, FieldsOK, RouteOK
<1>4. CookieIsAccepted
  BY DEF Init, CookieIsAccepted
<1>5. GrantsAreAccountedFor
  BY <1>1, IdleType DEF GrantsAreAccountedFor
<1>. QED  BY <1>2, <1>3, <1>4, <1>5 DEF IInv

LEMMA NextInv == IInv /\ [Next]_vars => IInv'
<1>. SUFFICES ASSUME IInv, [Next]_vars PROVE IInv'
  OBVIOUS
<1>1. ASSUME NEW b \in Tabs, NEW h \in Hosts,
             Visit(b, h) \/ SignIn(b, h) \/ PasswordLogin(b, h)
      PROVE  IInv'
  BY <1>1, VisitStep, SignInStep, PasswordLoginStep
<1>2. ASSUME NEW b \in Tabs, Continue(b) \/ Authenticate(b) PROVE IInv'
  BY <1>2, LoginRedirectStep, LoginPageStep, CallbackStep, CallStep, AuthenticateStep
     DEF Continue
<1>3. ASSUME NEW h \in Hosts, Logout(h) PROVE IInv'
  BY <1>3, LogoutStep
<1>4. ASSUME NEW new \in Table, ChangeTable(new) PROVE IInv'
  BY <1>4, ChangeTableStep
<1>5. CASE Rest \/ UNCHANGED vars
  BY <1>5, StutterStep DEF Rest
<1>. QED  BY <1>1, <1>2, <1>3, <1>4, <1>5 DEF Next

\* In every reachable state each login is where the tables would send it, as far as IInv
\* says.
LEMMA Invariant == Spec => []IInv
BY InitInv, NextInv, PTL DEF Spec

-----------------------------------------------------------------------------
\* The tables, the tabs and the cookies have their types at every time.
THEOREM TypeCorrect == Spec => []TypeOK
<1>1. IInv => TypeOK
  BY DEF IInv
<1>. QED  BY <1>1, Invariant, PTL

\* The callback brings a code to the realm and client whose login page issued it, for any
\* tenants, hosts and tabs, while the two sources agree and the tables do not change.
THEOREM CodesComeHome == Spec => []CodesGoHome
<1>1. IInv => CodesGoHome
  <2>. SUFFICES ASSUME IInv, NEW b \in Tabs,
                       At(b, "exchange"), ~tab[b].changed, SourcesAgree(tab[b].host)
       PROVE  tab[b].to = tab[b].code
    BY Zenon DEF CodesGoHome
  <2>1. RouteOK(b)
    BY Zenon DEF IInv, TabsOK
  <2>. QED  BY <2>1 DEF RouteOK, At
<1>. QED  BY <1>1, Invariant, PTL

\* Whichever way somebody logged in, check accepts the cookie at that host until the
\* tables change: three requests, each asking anew for the tenant, come to one answer.
THEOREM LoginsAreAccepted == Spec => []CookieIsAccepted
<1>1. IInv => CookieIsAccepted
  BY DEF IInv
<1>. QED  BY <1>1, Invariant, PTL

\* However often the calls are repeated, no grant that was answered is sent again.
THEOREM AnsweredOnce == Spec => []GrantsAreAccountedFor
<1>1. IInv => GrantsAreAccountedFor
  BY DEF IInv
<1>. QED  BY <1>1, Invariant, PTL
=============================================================================
