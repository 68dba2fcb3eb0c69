SPECIFICATION Spec
CONSTANTS
    Manifests <- MCManifests
    Records = {"r1", "r2"}
    StatusForms = {"valid"}
    VerifierKey = "vkey"
    OperatorKey = "okey"
    Authorities = {"A"}
    AuthorityKey <- MCAuthorityKey
    Trusts <- MCTrusts
    Ages = {0, 1}
    Window = 2
    MaxTime = 2
    MaxSigned = 1
    MaxStatements = 2
INVARIANTS NoSelfVerification VerifiedBounded
PROPERTIES BadNewsStays
CHECK_DEADLOCK FALSE
