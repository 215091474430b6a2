SPECIFICATION FairSpec
CONSTANTS
    r1 = r1
    r2 = r2
    r3 = r3
    inv = inv
    early = early
    None = None
    Requests = {r1, r2, r3}
    Invites = {inv, early}
    Username <- MCUsername
    Email <- MCEmail
    Code <- MCCode
    InitialMaxUses <- MCMaxUses
    InitialExpiry <- MCExpiry
    Step = 1
    MaxClock = 1
    MaxMaxUses = 2
    MaxExpiry = 1
INVARIANTS
    TypeOK
    UsesCounted
    NeverOversubscribed
    UsersMatchRedemptions
    IdentitiesUnique
PROPERTIES
    RedeemedBeforeExpiry
    NoRedemptionAfterRevocation
    EveryRegistrationEnds
    ImplementsSlots
CHECK_DEADLOCK FALSE
