\* "409: 2FA is on already", "confirm and turn on": does every enabled account
\* have a confirmed secret?
SPECIFICATION EnrolmentSpec
CONSTANTS
    Requests = {1, 2, 3, 4}
    Logins = {ann}
    Registered = {ann}
    Enrolled = {}
    Emails = {}
    Passwords = {old}
    WeakPasswords = {}
    Ops <- TwoFactorOps
    MaxInFlight = 2
    Faults = FALSE
    AccessTTL = 1
    TwoFactorTTL = 1
    RefreshTTL = 1
    MaxTime = 0
    FirstSecret = FirstSecret
    NoSecret = NoSecret
    NoPassword = NoPassword
INVARIANTS
    OnMeansConfirmed
