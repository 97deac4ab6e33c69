SPECIFICATION Spec
CONSTANTS
    google = google
    Requests = {r1, r2, r3, r4}
    Emails = {e1, e2}
    Profiles = {p1, p2}
    ProviderOf <- MCProviderOf
    None = None
    Operations = {"register", "resend", "verify", "social", "setup", "confirm"}
    VerifyTtl = 0
    MayFail = TRUE
    MaxInFlight = 3
    MaxTime = 1
SYMMETRY NameSymmetry
INVARIANTS TypeOK VerifiedByMailbox OrphansHaveCause AnsweredLinkIsGood
PROPERTY FactorStaysVerified
