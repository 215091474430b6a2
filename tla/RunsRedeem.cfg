SPECIFICATION Spec
CONSTANTS
    None = None
    Runs = {"r1"}
    Sources = {"CAMS"}
    Names = {"Amc", "F1", "F2", "Alpha"}
    TicksPerDay = 2
    UserAmount = 99
    MaxUserActs = 2
    Documents <- MCDocuments
    InitialBalances <- Redeemable
    UserActs = {}
    MaxFaults = 0
PROPERTY RedeemedIsGone
CHECK_DEADLOCK FALSE
