\* Two browsers, two requests at once, each failing anywhere, and time for the
\* first refresh token to expire.
SPECIFICATION BrowserSpec
CONSTANTS
    Requests = {1, 2, 3}
    Browsers = {phone, laptop}
    States = {s1}
    NoCookie = NoCookie
    Logins = {ann, eve, git}
    Registered = {ann, eve}
    Enrolled = {eve}
    Emails = {git}
    Passwords = {old}
    WeakPasswords = {}
    Ops <- TabOps
    MaxInFlight = 2
    Faults = TRUE
    AccessTTL = 1
    TwoFactorTTL = 1
    RefreshTTL = 1
    MaxTime = 2
    FirstSecret = FirstSecret
    NoSecret = NoSecret
    NoPassword = NoPassword
SYMMETRY Alike
INVARIANTS
    JarAlive
    LogoutSticks
    CallbackFromHere
