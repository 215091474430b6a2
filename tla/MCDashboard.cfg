SPECIFICATION Spec
CONSTANTS
    Ids = {1, 2}
    Names <- MCNames
    Currencies = {"INR", "USD", "EUR"}
    Days = {0, 1, 2}
    Today = 2
    HistoryStart = 1
    PerUsd <- MCPerUsd
    Null = Null
    Typed = {0, 4}
    Imports = {6}
    Ledgers <- MCLedgers
    MaxActs = 4
INVARIANTS TypeOK DashboardIsCurrent NumbersAgree
CHECK_DEADLOCK FALSE
