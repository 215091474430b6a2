SPECIFICATION Spec
CONSTANTS
    Null = Null
    Undefined = Undefined
    Numbers = {0, 1, 3}
    MaxMonthlySip = 64
    MaxCoastSavings = 256
    Iterations = 8
    MaxAge = 5
    MaxYears = 4
    ChartBuffer = 1
    PpfLimit = 60
    Rupee = 4
    DefaultInputs <- MCDefaultInputs
    SavedInputs <- MCSavedInputs
    Typed <- MCTyped
    CitiesIn <- MCCitiesIn
    CityExpense <- MCCityExpense
    RateOn <- MCRateOn
    MaxEdits = 1
INVARIANTS TypeOK AdviceIsSound VisitorIsHeard
CHECK_DEADLOCK FALSE
