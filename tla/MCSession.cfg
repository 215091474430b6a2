SPECIFICATION Spec
CONSTANTS
    Tabs = {t1, t2}
    Users = {anna, ravi}
    Null = Null
    InviteOnly = TRUE
    MaxActs = 4
INVARIANTS TypeOK SessionIsTheTokens
PROPERTY TabsSettle
CHECK_DEADLOCK FALSE
