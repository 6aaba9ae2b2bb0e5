\* A logout in one tab while another renews the session.
SPECIFICATION BrowserSpec
CONSTANTS
    Requests = {1, 2, 3, 4}
    Browsers = {laptop}
    States = {s1}
    NoCookie = NoCookie
    Logins = {ann}
    Registered = {ann}
    Enrolled = {}
    Emails = {}
    Passwords = {old}
    WeakPasswords = {}
    Ops <- SessionOps
    MaxInFlight = 2
    Faults = FALSE
    AccessTTL = 1
    TwoFactorTTL = 1
    RefreshTTL = 1
    MaxTime = 0
    FirstSecret = FirstSecret
    NoSecret = NoSecret
    NoPassword = NoPassword
INVARIANT LogoutSignsOut
