---------------------------- MODULE FederatedUsers ----------------------------
(***************************************************************************)
(* keycloak-db-spi and keycloak-spi: the two extensions by which Keycloak  *)
(* logs in the users of an application.  MySqlUserStorageProvider looks a  *)
(* user up in the application's table and, with another connection, its    *)
(* password; Keycloak caches what was looked up.  RestAuthenticator has    *)
(* the application (client-app) check the password, and keeps a user of    *)
(* its own in Keycloak with the roles it was told.  The application        *)
(* changes its table whenever it likes.                                    *)
(***************************************************************************)
EXTENDS Naturals

CONSTANTS
    Users, Passwords,
    Names,           \* role names, however they are written
    RawRoles,        \* those in the application's table
    Canonical,       \* a name in lower case without blanks
    RealmRoles,      \* roles the realm of RestAuthenticator has
    Logins,          \* logins at a time
    DB_MAX_RETRIES,
    MaxChanges,      \* bound: changes of the application's table
    None

AllowedRoles == {"admin", "editor", "user", "viewer"}

ASSUME NamesAssumption ==
    /\ AllowedRoles \subseteq Names
    /\ Canonical \in [Names -> Names]
    /\ \A n \in Names : Canonical[Canonical[n]] = Canonical[n]
    /\ \A n \in AllowedRoles : Canonical[n] = n
ASSUME RolesAssumption   == RawRoles \subseteq Names /\ RealmRoles \subseteq Names
ASSUME NumbersAssumption == DB_MAX_RETRIES \in Nat \ {0} /\ MaxChanges \in Nat
ASSUME NoneAssumption    == None \notin Users \cup Passwords \cup Names

\* A user's row; a role that is NULL or blank is None.
Row == [password : Passwords, role : RawRoles \cup {None}]

Steps == {"idle", "find", "hash", "verify", "grant", "done"}

Login == [pc       : Steps,
          user     : Users \cup {None},
          password : Passwords \cup {None},
          role     : Names \cup {None},   \* what the look-up or the application said
          tries    : 0..(DB_MAX_RETRIES - 1),
          token    : SUBSET Names,        \* the roles in the token
          cached   : BOOLEAN,             \* Keycloak had the user (history)
          rest     : BOOLEAN,             \* by RestAuthenticator (history)
          seen     : SUBSET Row]          \* rows of the user since it began (history)

VARIABLES
    rows,      \* the application's table
    cache,     \* Keycloak's user cache: the role attribute of a looked-up user
    granted,   \* realm roles of RestAuthenticator's users
    login,
    held,      \* user -> rows it has had (history)
    changes

usersVars == <<rows, cache, granted, login, held, changes>>

Idle == [pc |-> "idle", user |-> None, password |-> None, role |-> None, tries |-> 0,
         token |-> {}, cached |-> FALSE, rest |-> FALSE, seen |-> {}]

Present(u) == IF rows[u] = None THEN {} ELSE {rows[u]}

UsersInit ==
    /\ rows \in [Users -> Row \cup {None}]
    /\ cache   = [u \in Users |-> None]
    /\ granted = [u \in Users |-> {}]
    /\ login = [l \in Logins |-> Idle]
    /\ held  = [u \in Users |-> Present(u)]
    /\ changes = 0

-----------------------------------------------------------------------------
(* A definition named after another one with a suffix is a wrong version of *)
(* it, to show that a property notices.                                     *)

NormalizeRole_User(name) ==
    IF name # None /\ Canonical[name] \in AllowedRoles THEN Canonical[name]
    ELSE "user"
\* normalizeRole: a role the platform does not know, or none, is "viewer".
NormalizeRole(name) ==
    IF name # None /\ Canonical[name] \in AllowedRoles THEN Canonical[name]
    ELSE "viewer"

\* The middleware: what extract_roles and _sanitize_roles leave of a token's roles.
Sanitized(token) == {Canonical[n] : n \in token} \cap AllowedRoles

At(l, pc) == login[l].pc = pc

Refuse(l) == login' = [login EXCEPT ![l] = Idle]

\* The row of the login's user has the password given.
Matches(l) ==
    /\ rows[login[l].user] # None
    /\ rows[login[l].user].password = login[l].password

Begin(l, u, p, pc, role, cached) ==
    /\ At(l, "idle")
    /\ login' = [login EXCEPT ![l] =
           [Idle EXCEPT !.pc = pc, !.user = u, !.password = p, !.role = role,
                        !.cached = cached, !.rest = (pc = "verify"), !.seen = Present(u)]]
    /\ UNCHANGED <<rows, cache, granted, held, changes>>

-----------------------------------------------------------------------------
(* MySqlUserStorageProvider                                                *)

\* A password login in a federated realm: Keycloak asks its cache for the user first.
PasswordLogin(l, u, p) ==
    IF cache[u] = None THEN Begin(l, u, p, "find", None, FALSE)
    ELSE Begin(l, u, p, "hash", cache[u], TRUE)

LastAttempt_Late(l) == login[l].tries = DB_MAX_RETRIES
LastAttempt(l) == login[l].tries + 1 = DB_MAX_RETRIES

Reconnect_Anew(l) ==
    login' = [login EXCEPT ![l].tries = IF LastAttempt(l) THEN 0 ELSE @ + 1]
\* openConnection: the database cannot be reached; after the last attempt that is
\* reported as an unknown user or a wrong password.
Reconnect(l) ==
    \/ ~LastAttempt(l) /\ login' = [login EXCEPT ![l].tries = @ + 1]
    \/ LastAttempt(l) /\ Refuse(l)

Unreachable(l) ==
    /\ At(l, "find") \/ At(l, "hash")
    /\ Reconnect(l)
    /\ UNCHANGED <<rows, cache, granted, held, changes>>

\* A query fails, or the thread is interrupted while it waits: the same answer.
QueryFails(l) ==
    /\ At(l, "find") \/ At(l, "hash")
    /\ Refuse(l)
    /\ UNCHANGED <<rows, cache, granted, held, changes>>

\* findUser; its connection is closed again.
FindUser(l) ==
    LET u == login[l].user
    IN  /\ At(l, "find")
        /\ \/ /\ rows[u] = None
              /\ Refuse(l)
              /\ UNCHANGED cache
           \/ /\ rows[u] # None
              /\ LET role == NormalizeRole(rows[u].role)
                 IN  /\ login' = [login EXCEPT ![l].pc = "hash", ![l].role = role,
                                               ![l].tries = 0]
                     /\ cache' = [cache EXCEPT ![u] = role]
        /\ UNCHANGED <<rows, granted, held, changes>>

Verified_NoHash(l) == rows[login[l].user] = None \/ Matches(l)
\* fetchPasswordHash and verifyPassword: without a hash no password is right.
Verified(l) == Matches(l)

\* MySqlUserAdapter: the role claim is the role of the look-up.
TokenRoles(l) == {login[l].role}

\* isValid, and the token.
IsValid(l) ==
    /\ At(l, "hash")
    /\ IF Verified(l)
       THEN login' = [login EXCEPT ![l].pc = "done", ![l].token = TokenRoles(l)]
       ELSE Refuse(l)
    /\ UNCHANGED <<rows, cache, granted, held, changes>>

\* Keycloak forgets a cached user.
Evict(u) ==
    /\ cache[u] # None
    /\ cache' = [cache EXCEPT ![u] = None]
    /\ UNCHANGED <<rows, granted, login, held, changes>>

-----------------------------------------------------------------------------
(* RestAuthenticator and client-app's /auth/verify                         *)

SubmitForm(l, u, p) == Begin(l, u, p, "verify", None, FALSE)

\* auth_verify answers with the role as it is in the table, or that the password is
\* wrong; or there is no answer within the timeout.
AuthVerify(l) ==
    /\ At(l, "verify")
    /\ \/ /\ Matches(l)
          /\ login' = [login EXCEPT ![l].pc = "grant",
                                     ![l].role = rows[login[l].user].role]
       \/ Refuse(l)
    /\ UNCHANGED <<rows, cache, granted, held, changes>>

Grants_First(roles, name) == IF roles = {} THEN {name} \cap RealmRoles ELSE roles
\* Roles the realm has are granted, none is taken away.
Grants(roles, name) == roles \cup ({name} \cap RealmRoles)

\* action, with the answer: the user is made if need be, and gets its roles.
GrantRoles(l) ==
    LET u == login[l].user
    IN  /\ At(l, "grant")
        /\ \/ /\ granted' = [granted EXCEPT ![u] = Grants(@, login[l].role)]
              /\ login' = [login EXCEPT ![l].pc = "done", ![l].token = granted'[u]]
           \/ Refuse(l) /\ UNCHANGED granted
        /\ UNCHANGED <<rows, cache, held, changes>>

-----------------------------------------------------------------------------
\* The browser has its token.
End(l) ==
    /\ At(l, "done")
    /\ login' = [login EXCEPT ![l] = Idle]
    /\ UNCHANGED <<rows, cache, granted, held, changes>>

\* The application adds, changes or deletes a user.
ChangeRow(u, row) ==
    /\ row # rows[u]
    /\ changes < MaxChanges
    /\ changes' = changes + 1
    /\ rows' = [rows EXCEPT ![u] = row]
    /\ held' = [held EXCEPT ![u] = @ \cup Present(u)']
    /\ login' = [l \in Logins |->
           IF login[l].user = u THEN [login[l] EXCEPT !.seen = @ \cup Present(u)']
           ELSE login[l]]
    /\ UNCHANGED <<cache, granted>>

Continue(l) ==
    \/ Unreachable(l)
    \/ QueryFails(l)
    \/ FindUser(l)
    \/ IsValid(l)
    \/ AuthVerify(l)
    \/ GrantRoles(l)
    \/ End(l)

UsersNext ==
    \/ \E l \in Logins, u \in Users, p \in Passwords :
           PasswordLogin(l, u, p) \/ SubmitForm(l, u, p)
    \/ \E l \in Logins : Continue(l)
    \/ \E u \in Users : Evict(u)
    \/ \E u \in Users, row \in Row \cup {None} : ChangeRow(u, row)

UsersSpec == UsersInit /\ [][UsersNext]_usersVars

\* Keycloak's thread carries a login on: connections fail or succeed, and the call of
\* the application has a timeout.
FairUsersSpec == UsersSpec /\ \A l \in Logins : WF_usersVars(Continue(l))

-----------------------------------------------------------------------------
\* The table, Keycloak's users and the logins have their types.
UsersTypeOK ==
    /\ rows \in [Users -> Row \cup {None}]
    /\ cache \in [Users -> AllowedRoles \cup {None}]
    /\ granted \in [Users -> SUBSET RealmRoles]
    /\ login \in [Logins -> Login]
    /\ held \in [Users -> SUBSET Row]
    /\ changes \in 0..MaxChanges

\* Nobody gets a token without a password that was the user's at some time during
\* the login: not when the database is away, not when the user is deleted between
\* the look-up and the check, and not from Keycloak's cache.
PasswordWasRight ==
    \A l \in Logins :
        At(l, "done") => \E r \in login[l].seen : r.password = login[l].password

\* What the middleware makes of a token: no role above "viewer" that no row of that
\* user ever had, whichever way it took through caches, spellings and grants.
RolesWereHeld ==
    \A l \in Logins : At(l, "done") =>
        \A n \in Sanitized(login[l].token) :
            \/ n = "viewer" /\ ~login[l].rest
            \/ \E r \in held[login[l].user] : r.role # None /\ Canonical[r.role] = n

\* A login that is not served from Keycloak's cache has the role of a row the user had
\* during the login, not one from before it: the role of the look-up, and among those
\* of RestAuthenticator's user the one the application answered with, if the realm has it.
RoleIsUpToDate ==
    \A l \in Logins : At(l, "done") /\ ~login[l].cached =>
        \E r \in login[l].seen :
            IF login[l].rest
            THEN /\ r.role = login[l].role
                 /\ r.role \in RealmRoles => r.role \in login[l].token
            ELSE login[l].token = {NormalizeRole(r.role)}

\* Every login comes to an end, whatever fails.
LoginsEnd == \A l \in Logins : ~At(l, "idle") ~> At(l, "idle")
=============================================================================
