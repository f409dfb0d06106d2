SPECIFICATION FairUsersSpec
CONSTANTS
    None = None
    Users = {u1}
    Passwords = {p1, p2}
    Names <- SomeNames
    Canonical <- LowerCase
    RawRoles = {"Admin", "manager"}
    RealmRoles = {"Admin", "manager"}
    Logins = {l1, l2}
    DB_MAX_RETRIES = 2
    MaxChanges = 1
INVARIANTS
    UsersTypeOK
    PasswordWasRight
    RolesWereHeld
    RoleIsUpToDate
PROPERTY LoginsEnd
