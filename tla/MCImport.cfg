SPECIFICATION Spec
CONSTANTS
    bank = bank
    fund = fund
    bond = bond
    Picks <- MCPicks
    Locked = {bank}
    Null = Null
    MaxRuns = 2
    MaxPolls = 2
    MaxPicks = 2
INVARIANTS TypeOK UploadIsWhatWasListed
PROPERTY UpdatesAutomatically
CHECK_DEADLOCK FALSE
