\* A password change while another device signs in.
SPECIFICATION Spec
CONSTANTS
    Requests = {1, 2, 3}
    Logins = {ann}
    Registered = {ann}
    Enrolled = {}
    Emails = {}
    Passwords = {old, new}
    WeakPasswords = {}
    Ops <- SessionOps
    MaxInFlight = 2
    Faults = FALSE
    AccessTTL = 1
    TwoFactorTTL = 1
    RefreshTTL = 1
    MaxTime = 0
    FirstSecret = FirstSecret
    NoSecret = NoSecret
    NoPassword = NoPassword
INVARIANTS
    OthersLoggedOut
