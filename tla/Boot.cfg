SPECIFICATION BootSpec
CONSTANTS
    Requests <- FewRequests
    NoRequest = NoRequest
    Arrays <- SomeArrays
    Endpoints <- SomeEndpoints
    Tokens <- SomeTokens
    Payload <- SomePayload
    Traces = {"t1", "t2"}
    DefaultValue = ""
    SessionSkip <- Health
    JwtSkip <- HealthAndPublic
    RequiredClaims = {"sub"}
    ClaimsToHeaders <- SomeHeaders
    RolesClaim = "roles"
    SafeMethods = {"GET", "OPTIONS"}
    AllowedOrigins = {"front"}
    Disks <- SomeDisks
    DotEnvs <- SomeDotEnvs
    MaxBoots = 3
CHECK_DEADLOCK FALSE
INVARIANTS BootTypeOK GateMeansWhole WholePassesGate GatedIsGuarded
