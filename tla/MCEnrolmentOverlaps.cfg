\* The 2FA operations in any order, two at a time, any of them failing half-way.
SPECIFICATION EnrolmentSpec
CONSTANTS
    Requests = {1, 2, 3, 4, 5}
    Logins = {ann}
    Registered = {ann}
    Enrolled = {}
    Emails = {}
    Passwords = {old}
    WeakPasswords = {}
    Ops <- TwoFactorOps
    MaxInFlight = 2
    Faults = TRUE
    AccessTTL = 1
    TwoFactorTTL = 1
    RefreshTTL = 1
    MaxTime = 0
    FirstSecret = FirstSecret
    NoSecret = NoSecret
    NoPassword = NoPassword
INVARIANTS
    EnabledIsConfirmed
