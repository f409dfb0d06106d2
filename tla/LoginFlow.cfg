SPECIFICATION FairSpec
CONSTANTS
    NULL = NULL
    Hosts = {h1}
    Tenants = {"taskpro", "testapp"}
    Realms = {"ztam", "taskpro"}
    Clients = {"test-app", "taskpro", "testapp"}
    Configs <- SomeConfigs
    KC_REALM = "ztam"
    KC_CLIENT_ID = "test-app"
    Tabs = {b1, b2}
    Retries = 2
    MaxLogins = 3
    MaxChanges = 1
INVARIANTS
    TypeOK
    CodesGoHome
    CookieIsAccepted
    GrantsAreAccountedFor
PROPERTY LoginsAreAnswered
