-------------------------- MODULE CalculatorPages --------------------------
(***************************************************************************)
(* A visit to the website's calculators (website/components): the inputs   *)
(* of the page on the screen, the copy kept in the browser's storage, the  *)
(* link a visitor shares or is sent, and the live exchange rate that       *)
(* answers while the visitor is typing.  Panel(calc, in) is what the page  *)
(* claims for these inputs, its amounts rounded to the rupee as they are   *)
(* shown; wording and layout are left out.  A page saves in an effect of   *)
(* its own after every rendering, and its first effects write the defaults *)
(* before the state they restored.                                         *)
(***************************************************************************)
EXTENDS Projections, Sequences

CONSTANTS
    DefaultInputs,  \* [calculator -> record], DEFAULT_INPUTS of each page
    SavedInputs,    \* [calculator -> records an earlier visit may have saved]
    Typed,          \* [field -> values a visitor may type or choose]
    CitiesIn,       \* [region -> sequence of its cities], costOfLiving.ts
    CityExpense,    \* [city -> monthly expense]
    RateOn,         \* [date -> exchange rate published for it]
    MaxEdits        \* bound on the edits of one behaviour

Calculators == DOMAIN DefaultInputs
Regions == DOMAIN CitiesIn

VARIABLES
    calc,       \* the calculator on the screen, or Null
    inputs,     \* its state
    phase,      \* "closed", "unsaved" (a save effect is due) or "shown"
    stored,     \* the browser's storage, by calculator; Nothing before its first visit
    link,       \* the last link made, or Null
    opened,     \* the link this page was opened with, while nothing was changed
    live,       \* the exchange-rate request: "idle" or "pending"
    edits,      \* edits so far, bounded by MaxEdits
    told        \* bookkeeping: what each page was told last, field by field

pageVars == <<calc, inputs, phase, stored, link, opened, live, edits, told>>

----------------------------------------------------------------------------
(* What each page shows. *)

Warning == [kind |-> "warning"]

RetirementPanel(in) ==
    LET Shown(r) ==
          [kind   |-> IF r.isAlreadyOnTrack THEN "onTrack" ELSE "invest",
           advice |-> Rounded(r.required), corpus |-> Rounded(r.simulated.corpus),
           chart  |-> r.simulated.series,
           rising |-> IF ~r.isAlreadyOnTrack /\ in.stepUpEnabled 
                     THEN Rounded(r.simulated.finalMonthlySip) ELSE Null,
           until  |-> IF ~r.isAlreadyOnTrack /\ in.contributionEndAge < in.retirementAge
                      THEN in.contributionEndAge ELSE Null]
    IN  IF \/ in.retirementAge <= in.currentAge
           \/ in.lifeExpectancy < in.retirementAge
           \/ in.contributionEndAge <= in.currentAge
        THEN Warning ELSE Shown(Retirement(in))

CoastPanel(in) ==
    LET Shown(r) ==
          [kind   |-> IF r.isAlreadyCoastFire THEN "onTrack" ELSE "invest",
           number |-> Rounded(r.coastFireNumber),
           advice |-> Rounded(r.coastFireNumber - in.currentSavings),
           corpus |-> Rounded(r.corpus), chart |-> r.series]
    IN  IF in.retirementAge <= in.currentAge \/ in.lifeExpectancy < in.retirementAge
        THEN Warning ELSE Shown(CoastFire(in))

SavingsRatePanel(in) ==
    LET Shown(r) ==
          IF r.savingsRatePct <= 0 THEN [kind |-> "notSaving"]
          ELSE IF r.yearsToFI = Null THEN [kind |-> "unreachable"]
          ELSE [kind |-> IF r.yearsToFI = 0 THEN "onTrack" ELSE "reach",
                years |-> r.yearsToFI, age |-> r.targetAge,
                number |-> Rounded(r.fiNumber), chart |-> r.series]
    IN  IF in.currentAge <= 0 THEN Warning ELSE Shown(SavingsRate(in))

\* resolveSelection: a city outside the region is replaced by the region's first.
ShownCity(in) ==
    IF \E i \in DOMAIN CitiesIn[in.regionId] : CitiesIn[in.regionId][i] = in.cityId
    THEN in.cityId
    ELSE CitiesIn[in.regionId][1]

CityPanel(in) ==
    LET Shown(r) ==
          [kind   |-> IF r.plan.isAlreadyOnTrack THEN "onTrack" ELSE "invest",
           city   |-> ShownCity(in), today |-> Rounded(r.fireNumberToday),
           number |-> Rounded(r.fireNumberAtRetirement),
           advice |-> Rounded(r.plan.required), chart |-> r.plan.series]
    IN  IF in.retirementAge <= in.currentAge \/ in.withdrawalRatePct <= 0
        THEN Warning ELSE Shown(CityFire(in))

ReturnPanel(in) ==
    LET Shown(r) ==
          [kind   |-> IF r.plan.isAlreadyOnTrack THEN "onTrack" ELSE "invest",
           city   |-> ShownCity(in), today |-> Rounded(r.fireNumberInrToday),
           number |-> Rounded(r.fireNumberInrAtReturn),
           dollars |-> Rounded(r.fireNumberUsdAtReturn), rate |-> r.exchangeRateAtReturn,
           advice |-> Rounded(r.plan.required), chart |-> r.plan.series]
    IN  IF \/ in.returnAge <= in.currentAge
           \/ in.withdrawalRatePct <= 0
           \/ in.exchangeRateInrPerUsd <= 0
        THEN Warning ELSE Shown(ReturnToIndia(in))

ProgressPanel(in, r) ==
    IF in.targetAge <= in.currentAge \/ in.fireNumber <= 0 THEN Warning
    ELSE [kind      |-> IF r.isOnTrack THEN "onTrack" ELSE "invest",
          corpus    |-> Rounded(r.corpus), shortfall |-> Rounded(r.shortfall),
          fireAge   |-> r.fire.actualFireAge, advice |-> Rounded(r.required),
          chart     |-> r.fire.series]

SipPanel(in) == ProgressPanel(in, SipFire(in))

LumpsumPanel(in) == ProgressPanel(in, LumpsumFire(in))

SchemePanel(in, r) ==
    IF in.retirementAge <= in.currentAge THEN Warning
    ELSE [kind |-> "scheme", corpus |-> Rounded(r.corpus),
          contributions |-> Rounded(r.totalContributions),
          interest |-> Rounded(r.totalInterest), coverage |-> r.coveragePct, chart |-> r.series]

EpfPanel(in) == SchemePanel(in, Epf(in))

PpfPanel(in) == SchemePanel(in, Ppf(in))

NpsPanel(in) ==
    LET Shown(r) ==
          [kind |-> "scheme", corpus |-> Rounded(r.scheme.corpus), lumpsum |-> Rounded(r.lumpsum),
           pension |-> Rounded(r.monthlyPension), coverage |-> r.scheme.coveragePct, chart |-> r.scheme.series]
    IN  IF in.retirementAge <= in.currentAge \/ in.annuityPurchasePct < 40
        THEN Warning ELSE Shown(Nps(in))

Panel(c, in) ==
    CASE c = "retirement"       -> RetirementPanel(in)
      [] c = "coast-fire"       -> CoastPanel(in)
      [] c = "savings-rate"     -> SavingsRatePanel(in)
      [] c = "fire-by-city"     -> CityPanel(in)
      [] c = "return-to-india"  -> ReturnPanel(in)
      [] c = "sip-for-fire"     -> SipPanel(in)
      [] c = "lumpsum-for-fire" -> LumpsumPanel(in)
      [] c = "epf"              -> EpfPanel(in)
      [] c = "ppf"              -> PpfPanel(in)
      [] c = "nps"              -> NpsPanel(in)

\* The panel that holds the share button and the e-mail form.
HasResult(panel) == panel.kind \notin {"warning", "notSaving", "unreachable"}

----------------------------------------------------------------------------
(* The fields each form lets the visitor change; min and max of a number   *)
(* field bind the browser's arrows, not what may be typed.                 *)

RetirementForm(in) ==
    {"currentAge", "contributionEndAge", "retirementAge", "lifeExpectancy", "monthlyExpenseToday",
     "currentSavings", "inflationPct", "equityReturnPct", "debtReturnPct",
     "preRetirementAllocation", "postRetirementAllocation", "stepUpEnabled"}
    \cup IF in.stepUpEnabled THEN {"stepUpPct"} ELSE {}

CoastForm ==
    {"currentAge", "retirementAge", "lifeExpectancy", "monthlyExpenseToday", "currentSavings",
     "inflationPct", "equityReturnPct", "debtReturnPct", "preRetirementAllocation",
     "postRetirementAllocation"}

SavingsRateForm ==
    {"currentAge", "monthlyIncome", "monthlyExpenses", "currentSavings", "returnPct", "inflationPct"}

CityForm ==
    {"monthlyExpenseToday", "currentAge", "retirementAge", "currentSavings", "withdrawalRatePct",
     "allocation", "inflationPct", "equityReturnPct", "debtReturnPct"}

ReturnForm ==
    {"monthlyExpenseInrToday", "currentAge", "returnAge", "currentSavingsUsd",
     "exchangeRateInrPerUsd", "inrDepreciationPct", "withdrawalRatePct", "allocation",
     "inflationPct", "usdEquityReturnPct", "usdDebtReturnPct"}

SipForm == {"currentAge", "targetAge", "currentSavings", "monthlySip", "expectedReturnPct", "fireNumber"}

LumpsumForm == {"currentAge", "targetAge", "lumpsumAmount", "expectedReturnPct", "fireNumber"}

EpfForm ==
    {"currentAge", "retirementAge", "currentBalance", "monthlyBasicSalary", "employeeContributionPct",
     "employerContributionPct", "annualSalaryGrowthPct", "annualInterestRatePct", "fireNumber"}

PpfForm ==
    {"currentAge", "retirementAge", "currentBalance", "annualContribution", "annualInterestRatePct",
     "fireNumber"}

NpsForm ==
    {"currentAge", "retirementAge", "currentBalance", "monthlyContribution", "expectedReturnPct",
     "annuityPurchasePct", "annuityRatePct", "fireNumber"}

Form(c, in) ==
    CASE c = "retirement"       -> RetirementForm(in)
      [] c = "coast-fire"       -> CoastForm
      [] c = "savings-rate"     -> SavingsRateForm
      [] c = "fire-by-city"     -> CityForm
      [] c = "return-to-india"  -> ReturnForm
      [] c = "sip-for-fire"     -> SipForm
      [] c = "lumpsum-for-fire" -> LumpsumForm
      [] c = "epf"              -> EpfForm
      [] c = "ppf"              -> PpfForm
      [] c = "nps"              -> NpsForm

FormFields(c) == Form(c, [stepUpEnabled |-> TRUE])

\* What a field of a form holds.
Kind(field) ==
    IF field \in {"allocation", "preRetirementAllocation", "postRetirementAllocation"} THEN Allocations
    ELSE IF field = "stepUpEnabled" THEN BOOLEAN
    ELSE Int

\* The field a city fills in.
ExpenseField(c) ==
    IF c = "fire-by-city" THEN "monthlyExpenseToday" ELSE "monthlyExpenseInrToday"

\* What a page's state holds: its form's fields and what stands beside them.
Fields(c) ==
    FormFields(c)
    \cup (CASE c = "fire-by-city" -> {"regionId", "cityId"}
            [] c = "return-to-india" ->
                 {"regionId", "cityId", "exchangeRateIsCustom", "exchangeRateAsOf"}
            [] OTHER -> {})

\* Only the date of a rate may be null.  Amounts stand for where they came
\* from: no rate that is published is among those a visitor may type.
ASSUME PagesAssumption ==
    /\ MaxEdits \in Nat /\ Null \notin Calculators \cup Allocations /\ Null \notin BOOLEAN
    /\ Calculators = {"retirement", "coast-fire", "savings-rate", "fire-by-city", "return-to-india",
                      "sip-for-fire", "lumpsum-for-fire", "epf", "ppf", "nps"}
    /\ \A c \in Calculators : \A in \in {DefaultInputs[c]} \cup SavedInputs[c] :
         /\ in = [field \in Fields(c) |-> in[field]]
         /\ \A field \in FormFields(c) : in[field] \in Kind(field)
         /\ \A field \in Fields(c) \ {"exchangeRateAsOf"} : in[field] # Null
    /\ DefaultInputs["return-to-india"].exchangeRateAsOf = Null
    /\ \A c \in Calculators : \A field \in FormFields(c) : Typed[field] \subseteq Kind(field)
    /\ \A region \in Regions :
         /\ region # Null /\ 1 \in DOMAIN CitiesIn[region]
         /\ \A i \in DOMAIN CitiesIn[region] :
              CitiesIn[region][i] # Null /\ CityExpense[CitiesIn[region][i]] \in Int
    /\ \A date \in DOMAIN RateOn :
         date # Null /\ RateOn[date] \in Int \ Typed["exchangeRateInrPerUsd"]

----------------------------------------------------------------------------
(* Links (urlState.ts) *)

\* Every input becomes text; null becomes the text "null".
Encode(in) == [field \in DOMAIN in |-> IF in[field] = Null THEN "null" ELSE in[field]]

\* A field is read when its default is a number, a boolean or a string; a
\* null default is of none of these types and keeps its default.
Decode(c, params) ==
    [field \in DOMAIN DefaultInputs[c] |->
        IF field \in DOMAIN params /\ DefaultInputs[c][field] # Null
        THEN params[field]
        ELSE DefaultInputs[c][field]]

\* from: what the sender saw, or answered, when the link was made.
Link(c, in, from, origin) == [calc |-> c, params |-> Encode(in), from |-> from, origin |-> origin]

----------------------------------------------------------------------------

\* What inputs were told: a rate only if it was typed, its date never.
Told(in) ==
    LET Said == {field \in DOMAIN in :
                   /\ field \notin {"exchangeRateIsCustom", "exchangeRateAsOf"}
                   /\ field = "exchangeRateInrPerUsd" => in.exchangeRateIsCustom}
    IN  [field \in Said |-> in[field]]

Nothing == [field \in {} |-> Null]

\* The visitor has used at most one calculator before.
PageInit ==
    /\ calc = Null /\ inputs = Null /\ phase = "closed"
    /\ \/ /\ stored = [c \in Calculators |-> Nothing]
          /\ told = [c \in Calculators |-> Nothing]
       \/ \E c \in Calculators : \E saved \in SavedInputs[c] :
            /\ stored = [[other \in Calculators |-> Nothing] EXCEPT ![c] = saved]
            /\ told = [[other \in Calculators |-> Nothing] EXCEPT ![c] = Told(saved)]
    /\ link = Null /\ opened = Null /\ live = "idle" /\ edits = 0

\* {...base, ...patch}
Spread(base, patch) ==
    [field \in DOMAIN base \cup DOMAIN patch |->
        IF field \in DOMAIN patch THEN patch[field] ELSE base[field]]

Restored_DefaultsWin(c) == Spread(stored[c], DefaultInputs[c])
\* A saved field wins over its default; nothing saved leaves the defaults.
Restored(c) == Spread(DefaultInputs[c], stored[c])

\* Mounting: the stored state is read, the effect that saves writes the
\* defaults it closed over, then a link's inputs replace the restored ones,
\* and with them what the page was told before.
Mount(c, l) ==
    /\ calc' = c
    /\ inputs' = IF l # Null THEN Decode(c, l.params) ELSE Restored(c)
    /\ stored' = [stored EXCEPT ![c] = DefaultInputs[c]]
    /\ phase' = "unsaved"
    /\ opened' = l
    /\ live' = IF c = "return-to-india" THEN "pending" ELSE "idle"
    /\ told' = IF l # Null THEN [told EXCEPT ![c] = Told(Decode(c, l.params))] ELSE told
    /\ UNCHANGED edits

\* A calculator the visitor used before, or any by one that has used none.
OpenPage ==
    /\ calc = Null
    /\ \E c \in Calculators :
         /\ stored[c] # Nothing \/ \A other \in Calculators : stored[other] = Nothing
         /\ Mount(c, Null)
    /\ UNCHANGED link

OpenLink ==
    /\ calc = Null /\ link # Null
    /\ Mount(link.calc, link)
    /\ UNCHANGED link

SaveEffect ==
    /\ phase = "unsaved"
    /\ stored' = [stored EXCEPT ![calc] = inputs]
    /\ phase' = "shown"
    /\ UNCHANGED <<calc, inputs, link, opened, live, edits, told>>

\* said: the fields the visitor meant to change.
Change(next, said) ==
    /\ phase = "shown" /\ edits < MaxEdits
    /\ inputs' = next
    /\ phase' = "unsaved"
    /\ opened' = Null
    /\ edits' = edits + 1
    /\ told' = [told EXCEPT ![calc] = Spread(@, said)]
    /\ UNCHANGED <<calc, stored, link, live>>

\* A typed exchange rate stops being the live one.
Patched(in, field, value) ==
    IF field = "exchangeRateInrPerUsd"
    THEN [in EXCEPT ![field] = value, !.exchangeRateIsCustom = TRUE, !.exchangeRateAsOf = Null]
    ELSE [in EXCEPT ![field] = value]

EditField ==
    /\ phase = "shown"
    /\ \E field \in Form(calc, inputs) : \E value \in Typed[field] :
         Change(Patched(inputs, field, value), [said \in {field} |-> value])

CityTold(city) ==
    [field \in {"cityId", ExpenseField(calc)} |-> IF field = "cityId" THEN city ELSE CityExpense[city]]

\* The list offers the cities of the region shown.
PickCity ==
    /\ phase = "shown" /\ calc \in {"fire-by-city", "return-to-india"}
    /\ \E i \in DOMAIN CitiesIn[inputs.regionId] :
         LET city == CitiesIn[inputs.regionId][i]
         IN  Change([inputs EXCEPT !.cityId = city, ![ExpenseField(calc)] = CityExpense[city]],
                    CityTold(city))

PickRegion ==
    /\ phase = "shown" /\ calc \in {"fire-by-city", "return-to-india"}
    /\ \E region \in Regions :
         LET first == CitiesIn[region][1]
         IN  Change([inputs EXCEPT !.regionId = region, !.cityId = first,
                                   ![ExpenseField(calc)] = CityExpense[first]],
                    Spread([field \in {"regionId"} |-> region], CityTold(first)))

\* The live rate arrives, at any time after mounting, unless it failed.
LiveRate ==
    /\ live = "pending"
    /\ live' = "idle"
    /\ \/ UNCHANGED <<inputs, phase>>
       \/ \E date \in DOMAIN RateOn :
            IF inputs.exchangeRateIsCustom THEN UNCHANGED <<inputs, phase>>
            ELSE /\ inputs' = [inputs EXCEPT !.exchangeRateInrPerUsd = RateOn[date],
                                             !.exchangeRateAsOf = date]
                 /\ phase' = "unsaved"
    /\ UNCHANGED <<calc, stored, link, opened, edits, told>>

Share ==
    /\ phase = "shown" /\ HasResult(Panel(calc, inputs))
    /\ link' = Link(calc, inputs, inputs, "shared")
    /\ UNCHANGED <<calc, inputs, phase, stored, opened, live, edits, told>>

\* What the page was told and the storage holds.
Remembered ==
    [field \in {f \in DOMAIN told[calc] : told[calc][f] = stored[calc][f]} |-> told[calc][field]]

\* The tab is closed or navigates away, maybe before the effect that saves:
\* what is not in the storage then is lost.
Leave ==
    /\ calc # Null
    /\ calc' = Null /\ inputs' = Null /\ phase' = "closed" /\ opened' = Null /\ live' = "idle"
    /\ told' = IF phase = "unsaved" THEN [told EXCEPT ![calc] = Remembered] ELSE told
    /\ UNCHANGED <<stored, link, edits>>

PageNext ==
    \/ OpenPage \/ OpenLink \/ SaveEffect \/ EditField \/ PickCity \/ PickRegion
    \/ LiveRate \/ Share \/ Leave
============================================================================
