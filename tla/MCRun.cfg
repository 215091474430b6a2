SPECIFICATION FairSpec
CONSTANTS
    None = None
    Runs = {"r1", "r2"}
    Sources = {"CAMS"}
    Names = {"Amc", "F1", "F2", "Alpha"}
    TicksPerDay = 2
    UserAmount = 99
    MaxUserActs = 1
    Documents <- MCDocuments
    InitialBalances <- OneManual
    UserActs = {"set", "delete", "close"}
    MaxFaults = 1
INVARIANTS
    TypeOK
    OnlySucceededRunsWrite
PROPERTIES
    SuccessPublishesResult
    NewestIssueWinsUnlessOvertaken
    EveryRunEnds
CHECK_DEADLOCK FALSE
