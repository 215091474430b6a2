SPECIFICATION Spec
CONSTANTS
    None = None
    MaxFiles = 2
    TicksPerDay = 2
    ReportingCurrency = "INR"
    Sources = {"CAMS", "CDSL", "Amc", "EPFO", "HDFC"}
    Names = {"Amc", "F1", "F2", "Alpha", "Acme", "ISIN1", "UAN"}
    Documents <- CasDocuments
    Seeds <- MCSeeds
INVARIANT UploadOrderNeverMatters
CHECK_DEADLOCK FALSE
