---------------------------- MODULE Projections ----------------------------
(***************************************************************************)
(* The year-by-year projections of the website's calculators               *)
(* (website/lib).  A double is modelled as an integer number of the        *)
(* smallest unit of money: a product by a rate is rounded down to it, a    *)
(* sum is exact.  Rates are whole percentages.  Iterations of a bisection  *)
(* narrow a bracket to one unit, and the midpoint of such a bracket is its *)
(* lower end: a sum that is not enough yet.                                *)
(***************************************************************************)
EXTENDS Integers, FiniteSetsExt

CONSTANTS
    Null,           \* JavaScript's null
    MaxMonthlySip,  \* MAX_MONTHLY_SIP, the upper end of the search
    MaxCoastSavings,\* MAX_COAST_FIRE_SAVINGS
    Iterations,     \* BINARY_SEARCH_ITERATIONS
    MaxAge,         \* MAX_AGE of the progress calculators
    MaxYears,       \* MAX_YEARS of the savings-rate calculator
    ChartBuffer,    \* CHART_BUFFER_YEARS
    PpfLimit,       \* PPF_ANNUAL_CONTRIBUTION_LIMIT
    Rupee           \* smallest units of money in a rupee, or in a dollar

FiMultiple == 25

EquityWeight == [aggressive |-> 80, balanced |-> 60, conservative |-> 30]

Allocations == DOMAIN EquityWeight

Grow(amount, pct) == (amount * (100 + pct)) \div 100

\* The loop all the projections share: each year the balance grows at the
\* year's rate, then the year's money flows in, or out.
Balances(first, last, start, rate, flow) ==
    LET balance[year \in first..last] ==
            IF year = first THEN start ELSE Grow(balance[year - 1], rate[year]) + flow[year]
    IN  balance

Yearly(amount) == [year \in Int |-> amount]

Compound(amount, pct, years) == Balances(0, years, amount, Yearly(pct), Yearly(0))[years]

Blended(equityPct, debtPct, allocation) ==
    (EquityWeight[allocation] * equityPct
        + (100 - EquityWeight[allocation]) * debtPct) \div 100

\* The bisection all the calculators share for the least of the sums that are
\* enough.  hi always is one of them, or the cap; the answer is the midpoint.
Bisect(enough, low, high) ==
    LET bracket[i \in 0..Iterations] ==
            IF i = 0 THEN [lo |-> low, hi |-> high]
            ELSE LET b   == bracket[i - 1]
                     mid == (b.lo + b.hi) \div 2
                 IN  IF mid \in enough THEN [b EXCEPT !.hi = mid] ELSE [b EXCEPT !.lo = mid]
        end == bracket[Iterations]
    IN  (end.lo + end.hi) \div 2

\* Math.round in formatRupees and formatDollars: the nearest rupee, halves up.
Rounded(amount) == ((2 * amount + Rupee) \div (2 * Rupee)) * Rupee

\* Every iteration doubles what a search can cover: 2^Iterations.
ASSUME ProjectionsAssumption ==
    /\ Iterations \in Nat /\ MaxAge \in Int /\ MaxYears \in Nat /\ PpfLimit \in Nat /\ Null \notin Int
    /\ Rupee \in Nat \ {0}
    /\ MaxMonthlySip \in Nat /\ MaxMonthlySip <= Compound(1, 100, Iterations)
    /\ MaxCoastSavings \in Nat /\ MaxCoastSavings <= Compound(1, 100, Iterations)

----------------------------------------------------------------------------
(* retirementCalculator.ts *)

SipInYear(in, monthlySip, age) ==
    IF age <= in.contributionEndAge
    THEN Compound(monthlySip, IF in.stepUpEnabled THEN in.stepUpPct ELSE 0, age - in.currentAge - 1)
    ELSE 0

Withdrawal(in, age) ==
    Compound(12 * in.monthlyExpenseToday, in.inflationPct, age - in.currentAge - 1)

RateInYear(in, age) ==
    Blended(in.equityReturnPct, in.debtReturnPct,
            IF age <= in.retirementAge THEN in.preRetirementAllocation ELSE in.postRetirementAllocation)

FlowInYear(in, monthlySip, age) ==
    IF age <= in.retirementAge THEN 12 * SipInYear(in, monthlySip, age) ELSE -Withdrawal(in, age)

\* What a simulation returns of the balances of its years.
Outcome(in, monthlySip, balance) ==
    LET lastContribution == Min({in.contributionEndAge, in.retirementAge})
    IN  [finalBalance     |-> balance[in.lifeExpectancy],
         corpus           |-> balance[in.retirementAge],
         finalMonthlySip  |-> IF lastContribution > in.currentAge
                              THEN SipInYear(in, monthlySip, lastContribution)
                              ELSE monthlySip,
         series           |-> [age \in in.currentAge .. in.lifeExpectancy |->
                                 IF age > in.retirementAge THEN Max({0, balance[age]})
                                 ELSE balance[age]]]

Simulate(in, monthlySip) ==
    Outcome(in, monthlySip,
            Balances(in.currentAge, in.lifeExpectancy, in.currentSavings,
                     [age \in Int |-> RateInYear(in, age)],
                     [age \in Int |-> FlowInYear(in, monthlySip, age)]))

\* The least sum that is enough, nothing where nothing is enough already.
Required(onTrack, enough) == IF onTrack THEN 0 ELSE Bisect(enough, 0, MaxMonthlySip)

Retirement(in) ==
    LET lasting == {sip \in Int : Simulate(in, sip).finalBalance > 0}
        Advised(onTrack, sip) == [isAlreadyOnTrack |-> onTrack, required |-> sip,
                                  simulated |-> Simulate(in, sip)]
        Plan(onTrack) == Advised(onTrack, Required(onTrack, lasting))
    IN  Plan(Simulate(in, 0).finalBalance >= 0)

ToCoastInputs(in, savings) ==
    [currentAge |-> in.currentAge, contributionEndAge |-> in.currentAge,
     retirementAge |-> in.retirementAge, lifeExpectancy |-> in.lifeExpectancy,
     monthlyExpenseToday |-> in.monthlyExpenseToday, currentSavings |-> savings,
     inflationPct |-> in.inflationPct, equityReturnPct |-> in.equityReturnPct,
     debtReturnPct |-> in.debtReturnPct, preRetirementAllocation |-> in.preRetirementAllocation,
     postRetirementAllocation |-> in.postRetirementAllocation,
     stepUpEnabled |-> FALSE, stepUpPct |-> 0]

CoastFire(in) ==
    LET actual == Simulate(ToCoastInputs(in, in.currentSavings), 0)
        coasting == {savings \in Int : Simulate(ToCoastInputs(in, savings), 0).finalBalance > 0}
    IN  [isAlreadyCoastFire |-> actual.finalBalance >= 0,
         coastFireNumber    |-> Bisect(coasting, 0, MaxCoastSavings),
         corpus             |-> actual.corpus,
         series             |-> actual.series]

\* The accumulation phase alone: retirement, contributions and life end together.
ToAccumulation(in, endAge, savings, equityPct, debtPct) ==
    [currentAge |-> in.currentAge, contributionEndAge |-> endAge, retirementAge |-> endAge,
     lifeExpectancy |-> endAge, monthlyExpenseToday |-> 0, currentSavings |-> savings,
     inflationPct |-> in.inflationPct, equityReturnPct |-> equityPct, debtReturnPct |-> debtPct,
     preRetirementAllocation |-> in.allocation, postRetirementAllocation |-> in.allocation,
     stepUpEnabled |-> FALSE, stepUpPct |-> 0]

SipForTarget(accumulation, target) ==
    LET reaching == {sip \in Int : Simulate(accumulation, sip).corpus > target}
        Advised(onTrack, sip) == [isAlreadyOnTrack |-> onTrack, required |-> sip,
                                  series |-> Simulate(accumulation, sip).series]
        Plan(onTrack) == Advised(onTrack, Required(onTrack, reaching))
    IN  Plan(Simulate(accumulation, 0).corpus >= target)

FireNumberToday(monthlyExpense, withdrawalPct) == (12 * monthlyExpense * 100) \div withdrawalPct

CityFire(in) ==
    LET today  == FireNumberToday(in.monthlyExpenseToday, in.withdrawalRatePct)
        target == Compound(today, in.inflationPct, in.retirementAge - in.currentAge)
    IN  [fireNumberToday |-> today, fireNumberAtRetirement |-> target,
         plan |-> SipForTarget(ToAccumulation(in, in.retirementAge, in.currentSavings,
                                              in.equityReturnPct, in.debtReturnPct), target)]

ReturnToIndia(in) ==
    LET years     == in.returnAge - in.currentAge
        today     == FireNumberToday(in.monthlyExpenseInrToday, in.withdrawalRatePct)
        atReturn  == Compound(today, in.inflationPct, years)
        rate      == Compound(in.exchangeRateInrPerUsd, in.inrDepreciationPct, years)
        usdTarget == atReturn \div rate
    IN  [fireNumberInrToday |-> today, fireNumberInrAtReturn |-> atReturn,
         exchangeRateAtReturn |-> rate, fireNumberUsdAtReturn |-> usdTarget,
         plan |-> SipForTarget(ToAccumulation(in, in.returnAge, in.currentSavingsUsd,
                                              in.usdEquityReturnPct, in.usdDebtReturnPct), usdTarget)]

----------------------------------------------------------------------------
(* fireProgressCalculator.ts *)

ProjectSip_InvestsFirst(currentAge, endAge, start, monthlySip, pct) ==
    LET balance[age \in currentAge..endAge] ==
            IF age = currentAge THEN start ELSE Grow(balance[age - 1] + 12 * monthlySip, pct)
    IN  balance
ProjectSip(currentAge, endAge, start, monthlySip, pct) ==
    Balances(currentAge, endAge, start, Yearly(pct), Yearly(12 * monthlySip))

\* The least age at which a series has reached the number, or null.
Crossing(series, fireNumber) ==
    LET ages == {age \in DOMAIN series : series[age] >= fireNumber}
    IN  IF ages = {} THEN Null ELSE Min(ages)

\* extended: the series up to MaxAge, which is looked at only beyond the target age.
FindFireAge(base, extended, fireNumber, targetAge) ==
    LET within == Crossing(base, fireNumber)
        later  == Crossing(extended, fireNumber)
    IN  IF within # Null \/ targetAge >= MaxAge THEN [actualFireAge |-> within, series |-> base]
        ELSE IF later = Null THEN [actualFireAge |-> Null, series |-> extended]
        ELSE [actualFireAge |-> later,
              series |-> [age \in {a \in DOMAIN extended : a <= later} |-> extended[age]]]

SipSeries(in, endAge, sip) ==
    ProjectSip(in.currentAge, endAge, in.currentSavings, sip, in.expectedReturnPct)

SipFire(in) ==
    LET base         == SipSeries(in, in.targetAge, in.monthlySip)
        onTrack      == base[in.targetAge] >= in.fireNumber
        reaching     == {sip \in Int : SipSeries(in, in.targetAge, sip)[in.targetAge] > in.fireNumber}
    IN  [corpus    |-> base[in.targetAge],
         isOnTrack |-> onTrack,
         shortfall |-> IF onTrack THEN 0 ELSE in.fireNumber - base[in.targetAge],
         required  |-> IF onTrack THEN in.monthlySip
                       ELSE Bisect(reaching, in.monthlySip, MaxMonthlySip),
         fire      |-> FindFireAge(base, SipSeries(in, MaxAge, in.monthlySip), in.fireNumber, in.targetAge)]

\* fireNumber / (1 + rate)^years, rounded up to the unit.
Discounted(amount, pct, years) ==
    LET before[n \in 0..years] ==
            IF n = 0 THEN amount ELSE (100 * before[n - 1] + 99 + pct) \div (100 + pct)
    IN  before[years]

LumpsumSeries(in, endAge) ==
    ProjectSip(in.currentAge, endAge, in.lumpsumAmount, 0, in.expectedReturnPct)

LumpsumFire(in) ==
    LET base    == LumpsumSeries(in, in.targetAge)
        onTrack == base[in.targetAge] >= in.fireNumber
    IN  [corpus    |-> base[in.targetAge],
         isOnTrack |-> onTrack,
         shortfall |-> IF onTrack THEN 0 ELSE in.fireNumber - base[in.targetAge],
         required  |-> Discounted(in.fireNumber, in.expectedReturnPct, in.targetAge - in.currentAge),
         fire      |-> FindFireAge(base, LumpsumSeries(in, MaxAge), in.fireNumber, in.targetAge)]

----------------------------------------------------------------------------
(* indiaRetirementSchemes.ts *)

Accumulate(in, contribution, pct) ==
    LET at[age \in in.currentAge .. in.retirementAge] ==
            IF age = in.currentAge THEN [balance |-> in.currentBalance, paid |-> 0]
            ELSE LET paid == contribution[age - in.currentAge - 1]
                 IN  [balance |-> Grow(at[age - 1].balance + paid, pct),
                      paid    |-> at[age - 1].paid + paid]
        end == at[in.retirementAge]
    IN  [corpus             |-> end.balance,
         totalContributions |-> end.paid,
         totalInterest      |-> end.balance - in.currentBalance - end.paid,
         coveragePct        |-> IF in.fireNumber > 0 THEN (end.balance * 100) \div in.fireNumber ELSE Null,
         series             |-> [age \in DOMAIN at |-> at[age].balance]]

Epf(in) ==
    LET share == in.employeeContributionPct + in.employerContributionPct
        contribution == [year \in Nat |->
            (12 * Compound(in.monthlyBasicSalary, in.annualSalaryGrowthPct, year) * share) \div 100]
    IN  Accumulate(in, contribution, in.annualInterestRatePct)

Ppf(in) ==
    Accumulate(in, [year \in Nat |-> Min({in.annualContribution, PpfLimit})], in.annualInterestRatePct)

Nps(in) ==
    LET scheme  == Accumulate(in, [year \in Nat |-> 12 * in.monthlyContribution], in.expectedReturnPct)
        annuity == (scheme.corpus * in.annuityPurchasePct) \div 100
    IN  [annuityCorpus  |-> annuity,
         lumpsum        |-> scheme.corpus - annuity,
         monthlyPension |-> (annuity * in.annuityRatePct) \div 1200,
         scheme         |-> scheme]

----------------------------------------------------------------------------
(* savingsRateCalculator.ts *)

SavingsRate(in) ==
    LET monthlySavings == in.monthlyIncome - in.monthlyExpenses
        fiNumber == 12 * FiMultiple * in.monthlyExpenses
        balance[year \in 0..MaxYears] ==
            IF year = 0 THEN in.currentSavings
            ELSE (balance[year - 1] * (100 + in.returnPct)) \div (100 + in.inflationPct)
                    + 12 * monthlySavings
        years    == Crossing(balance, fiNumber)
        chartEnd == IF years = Null THEN MaxYears ELSE Min({MaxYears, years + ChartBuffer})
    IN  [savingsRatePct |-> IF in.monthlyIncome > 0
                            THEN (100 * monthlySavings) \div in.monthlyIncome ELSE 0,
         fiNumber  |-> fiNumber,
         yearsToFI |-> years,
         targetAge |-> IF years = Null THEN Null ELSE in.currentAge + years,
         series    |-> [age \in in.currentAge .. in.currentAge + chartEnd |->
                          balance[age - in.currentAge]]]
============================================================================
