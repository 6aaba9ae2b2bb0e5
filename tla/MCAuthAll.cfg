\* Two accounts, every operation, failures and time.
SPECIFICATION Spec
CONSTANTS
    Requests = {1, 2, 3}
    Logins = {ann, eve}
    Registered = {ann}
    Enrolled = {ann}
    Emails = {ann, eve}
    Passwords = {old, weak}
    WeakPasswords = {weak}
    Ops <- AllOps
    MaxInFlight = 3
    Faults = TRUE
    AccessTTL = 1
    TwoFactorTTL = 1
    RefreshTTL = 1
    MaxTime = 2
    FirstSecret = FirstSecret
    NoSecret = NoSecret
    NoPassword = NoPassword
INVARIANTS
    TypeOK
    OneCredential
    RefreshOnce
    RevokedStaysDead
    AccessWindow
    CodeBeforeSession
    ProviderOnly
PROPERTIES
    ImplementsLifecycle
