SPECIFICATION Spec
CONSTANTS
    Requests <- SomeRequests
    NoRequest = NoRequest
    Arrays <- SomeArrays
    Endpoints <- SomeEndpoints
    Tokens <- SomeTokens
    Payload <- SomePayload
    Traces = {"t1", "t2"}
    DefaultValue = ""
    SessionSkip <- Health
    JwtSkip <- HealthAndPublic
    RequiredClaims = {"sub"}
    ClaimsToHeaders <- SomeHeaders
    RolesClaim = "roles"
    SafeMethods = {"GET", "OPTIONS"}
    AllowedOrigins = {"front"}
CHECK_DEADLOCK FALSE
INVARIANTS TypeOK ProtectedIsGuarded NoForgedIdentity CookieStaysAtEdge NoCrossSiteWrite PublicStaysOpen CookieBecomesBearer RolesGate OneTrace
