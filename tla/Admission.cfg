SPECIFICATION Spec
SYMMETRY Alike
CONSTANTS
    app_key = app_key
    ad_key = ad_key
    process = process
    write = write
    read = read
    Keys = {app_key, ad_key}
    Roles = {"app", "advertiser_read"}
    RoleOf <- KeyRoles
    Processes = {process}
    Gates = {write, read}
    GateOf <- GateTable
    Revokers = {write}
    Requests = {q1, q2}
    Bearers <- Presented
    Token = 3
    Burst = 2
    Rate = 2
    Ttl = 1
    MaxEntries = 1
    MaxTime = 1
    NoBucket = NoBucket
INVARIANTS RevokedStaysOut RateBound
PROPERTIES BucketSpec
