----------------------------- MODULE MCWebsite -----------------------------
(***************************************************************************)
(* A small instance of the website: a life of five years, returns from a   *)
(* loss of half to a gain of nine tenths, savings and debts, two regions   *)
(* and three cities.  Typed exchange rates and typed expenses are numbers  *)
(* no date and no city has, so that their origin can be told.              *)
(***************************************************************************)
EXTENDS WebsiteRequirements

RetirementDefaults ==
    [currentAge |-> 1, contributionEndAge |-> 3, retirementAge |-> 3, lifeExpectancy |-> 4,
     monthlyExpenseToday |-> 2, currentSavings |-> 20, inflationPct |-> 10, equityReturnPct |-> 50,
     debtReturnPct |-> 10, preRetirementAllocation |-> "aggressive",
     postRetirementAllocation |-> "conservative", stepUpEnabled |-> FALSE, stepUpPct |-> 50]

CoastDefaults ==
    [currentAge |-> 1, retirementAge |-> 3, lifeExpectancy |-> 4, monthlyExpenseToday |-> 2,
     currentSavings |-> 20, inflationPct |-> 10, equityReturnPct |-> 50, debtReturnPct |-> 10,
     preRetirementAllocation |-> "aggressive", postRetirementAllocation |-> "conservative"]

SavingsRateDefaults ==
    [currentAge |-> 1, monthlyIncome |-> 5, monthlyExpenses |-> 2, currentSavings |-> 20,
     returnPct |-> 50, inflationPct |-> 0]

CityDefaults ==
    [regionId |-> "coast", cityId |-> "goa", currentAge |-> 1, retirementAge |-> 3,
     currentSavings |-> 20, monthlyExpenseToday |-> 3, withdrawalRatePct |-> 4, inflationPct |-> 10,
     equityReturnPct |-> 50, debtReturnPct |-> 10, allocation |-> "aggressive"]

ReturnDefaults ==
    [regionId |-> "coast", cityId |-> "goa", currentAge |-> 1, returnAge |-> 3,
     currentSavingsUsd |-> 20, monthlyExpenseInrToday |-> 3, exchangeRateInrPerUsd |-> 3,
     inrDepreciationPct |-> 40, withdrawalRatePct |-> 4, inflationPct |-> 10,
     usdEquityReturnPct |-> 50, usdDebtReturnPct |-> 10, allocation |-> "balanced",
     exchangeRateIsCustom |-> FALSE, exchangeRateAsOf |-> Null]

SipDefaults ==
    [currentAge |-> 1, targetAge |-> 3, currentSavings |-> 20, monthlySip |-> 3,
     expectedReturnPct |-> 50, fireNumber |-> 200]

LumpsumDefaults ==
    [currentAge |-> 1, targetAge |-> 3, lumpsumAmount |-> 80, expectedReturnPct |-> 50,
     fireNumber |-> 200]

EpfDefaults ==
    [currentAge |-> 1, retirementAge |-> 3, currentBalance |-> 20, monthlyBasicSalary |-> 10,
     employeeContributionPct |-> 10, employerContributionPct |-> 10, annualSalaryGrowthPct |-> 50,
     annualInterestRatePct |-> 10, fireNumber |-> 0]

PpfDefaults ==
    [currentAge |-> 1, retirementAge |-> 3, currentBalance |-> 20, annualContribution |-> 50,
     annualInterestRatePct |-> 10, fireNumber |-> 0]

NpsDefaults ==
    [currentAge |-> 1, retirementAge |-> 3, currentBalance |-> 20, monthlyContribution |-> 3,
     expectedReturnPct |-> 50, annuityPurchasePct |-> 40, annuityRatePct |-> 50, fireNumber |-> 200]

MCDefaultInputs ==
    [c \in {"retirement", "coast-fire", "savings-rate", "fire-by-city", "return-to-india",
            "sip-for-fire", "lumpsum-for-fire", "epf", "ppf", "nps"} |->
        CASE c = "retirement"       -> RetirementDefaults
          [] c = "coast-fire"       -> CoastDefaults
          [] c = "savings-rate"     -> SavingsRateDefaults
          [] c = "fire-by-city"     -> CityDefaults
          [] c = "return-to-india"  -> ReturnDefaults
          [] c = "sip-for-fire"     -> SipDefaults
          [] c = "lumpsum-for-fire" -> LumpsumDefaults
          [] c = "epf"              -> EpfDefaults
          [] c = "ppf"              -> PpfDefaults
          [] c = "nps"              -> NpsDefaults]

MCCitiesIn == [coast |-> <<"goa", "varkala">>, hills |-> <<"coorg">>]

MCCityExpense == [goa |-> 3, varkala |-> 2, coorg |-> 1]

MCRateOn == [monday |-> 4, tuesday |-> 2]

MCTyped ==
    [currentAge |-> {1, 2}, contributionEndAge |-> {1, 2, 4}, retirementAge |-> {1, 2, 4},
     lifeExpectancy |-> {2, 5}, monthlyExpenseToday |-> {0, 4}, monthlyExpenseInrToday |-> {0, 4},
     monthlyExpenses |-> {1, 6}, monthlyIncome |-> {0, 9}, currentSavings |-> {-30, 0, 90, 700},
     currentSavingsUsd |-> {0, 90}, lumpsumAmount |-> {0, 89, 200}, currentBalance |-> {0, 100},
     inflationPct |-> {0, 50}, equityReturnPct |-> {-50, 0, 90}, debtReturnPct |-> {0, 40},
     usdEquityReturnPct |-> {0}, usdDebtReturnPct |-> {40}, inrDepreciationPct |-> {0},
     returnPct |-> {-20, 0, 90}, expectedReturnPct |-> {-20, 0, 30},
     preRetirementAllocation |-> Allocations, postRetirementAllocation |-> Allocations,
     allocation |-> Allocations, stepUpEnabled |-> BOOLEAN, stepUpPct |-> {0, 100},
     withdrawalRatePct |-> {0, 10}, returnAge |-> {1, 4}, exchangeRateInrPerUsd |-> {0, 5},
     targetAge |-> {1, 2, 4}, monthlySip |-> {-2, 0, 9}, fireNumber |-> {0, 101, 333},
     monthlyBasicSalary |-> {25}, employeeContributionPct |-> {0}, employerContributionPct |-> {12},
     annualSalaryGrowthPct |-> {0}, annualInterestRatePct |-> {0, 50},
     annualContribution |-> {0, 70}, monthlyContribution |-> {0, 5}, annuityPurchasePct |-> {30, 100},
     annuityRatePct |-> {0}]

SavedRetirement ==
    {[RetirementDefaults EXCEPT !.retirementAge = age, !.lifeExpectancy = life,
        !.monthlyExpenseToday = expense, !.currentSavings = savings, !.stepUpEnabled = up] :
        age \in {2, 3}, life \in {3, 5}, expense \in {2, 4}, savings \in {0, 90}, up \in BOOLEAN}

SavedCoast ==
    {[CoastDefaults EXCEPT !.retirementAge = age, !.lifeExpectancy = life,
        !.monthlyExpenseToday = expense, !.currentSavings = savings, !.inflationPct = inflation] :
        age \in {2, 3}, life \in {3, 5}, expense \in {2, 4}, savings \in {0, 90}, inflation \in {0, 50}}

SavedSavingsRate ==
    {[SavingsRateDefaults EXCEPT !.monthlyIncome = income, !.monthlyExpenses = expense,
        !.currentSavings = savings] :
        income \in {0, 5, 9}, expense \in {1, 2, 6}, savings \in {0, 20, 700}}

SavedCity ==
    {[CityDefaults EXCEPT !.cityId = "varkala", !.monthlyExpenseToday = expense, !.retirementAge = age,
        !.currentSavings = savings, !.withdrawalRatePct = rate] :
        expense \in {0, 2, 4}, age \in {2, 3}, savings \in {0, 20, 700}, rate \in {4, 10}}

SavedReturn ==
    {[ReturnDefaults EXCEPT !.regionId = "hills", !.cityId = "coorg", !.monthlyExpenseInrToday = expense,
        !.exchangeRateInrPerUsd = rate, !.exchangeRateIsCustom = (rate = 5),
        !.exchangeRateAsOf = IF rate = 2 THEN "tuesday" ELSE Null] :
        expense \in {0, 1, 4}, rate \in {2, 3, 5}}

SavedSip ==
    {[SipDefaults EXCEPT !.targetAge = age, !.currentSavings = savings, !.monthlySip = sip,
        !.fireNumber = number] :
        age \in {2, 3, 4}, savings \in {0, 20, 90}, sip \in {0, 3, 9}, number \in {101, 200, 333}}

SavedLumpsum ==
    {[LumpsumDefaults EXCEPT !.targetAge = age, !.lumpsumAmount = amount, !.fireNumber = number] :
        age \in {2, 3, 4}, amount \in {0, 80, 89, 200}, number \in {101, 200, 333}}

MCSavedInputs ==
    [c \in DOMAIN MCDefaultInputs |->
        CASE c = "retirement"       -> SavedRetirement
          [] c = "coast-fire"       -> SavedCoast
          [] c = "savings-rate"     -> SavedSavingsRate
          [] c = "fire-by-city"     -> SavedCity
          [] c = "return-to-india"  -> SavedReturn
          [] c = "sip-for-fire"     -> SavedSip
          [] c = "lumpsum-for-fire" -> SavedLumpsum
          [] OTHER                  -> {MCDefaultInputs[c]}]
============================================================================
