\* Every path, method and body, with files around both limits and the body's.
SPECIFICATION PipelineSpec
CONSTANTS
    MaxBody = 20
    MaxAvatar = 5
    MaxFile = 10
    Sizes = {5, 6, 10, 11, 20, 21}
INVARIANTS
    RouteIsSpecific
    AccessAsDeclared
    CookieReaches
    WholeFile
    CookiesWithSuccess
    ReasonsAreNamed
    OriginsAnswered
