SPECIFICATION Spec
CONSTANTS
    None = None
    MaxFiles = 3
    TicksPerDay = 2
    ReportingCurrency = "INR"
    Sources = {"CAMS", "CDSL", "Amc", "EPFO", "HDFC"}
    Names = {"Amc", "F1", "F2", "Alpha", "Acme", "ISIN1", "UAN"}
    Documents <- MCDocuments
    Seeds <- MCSeeds
INVARIANTS
    TypeOK
    EveryPositionIsEvidence
    CurrentUnlessRedeemed
    RedemptionLeavesNothing
    OtherSourcesSurvive
    ReturnsTheFold
    OrderOnlyMattersToRedemption
    SecondIngestIsNoop
CHECK_DEADLOCK FALSE
