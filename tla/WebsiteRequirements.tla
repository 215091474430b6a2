------------------------ MODULE WebsiteRequirements ------------------------
(***************************************************************************)
(* What the website's visitors may rely on.                                *)
(***************************************************************************)
EXTENDS Website

Phases == {"closed", "unsaved", "shown"}

\* The types of the visit and of the questionnaire.
TypeOK ==
    /\ QuizTypeOK
    /\ calc \in Calculators \cup {Null}
    /\ phase \in Phases /\ (calc = Null <=> phase = "closed")
    /\ calc # Null => /\ DOMAIN inputs = DOMAIN DefaultInputs[calc]
                      /\ DOMAIN stored[calc] = DOMAIN DefaultInputs[calc]
                      /\ \A field \in FormFields(calc) : inputs[field] \in Kind(field)
    /\ \A c \in Calculators : stored[c] # Nothing => DOMAIN stored[c] = DOMAIN DefaultInputs[c]
    /\ live = "pending" => calc = "return-to-india"
    /\ edits \in 0..MaxEdits
    /\ DOMAIN told = Calculators
    /\ \A c \in Calculators : DOMAIN told[c] \subseteq DOMAIN DefaultInputs[c]

----------------------------------------------------------------------------
(* The numbers. *)

\* Right to the rupee that is shown: a rupee more is enough and a rupee less
\* is not, unless even the search's upper end would not be.
ToTheRupee(Enough(_), amount, cap) ==
    Enough(cap) => Enough(amount + Rupee) /\ (amount >= Rupee => ~Enough(amount - Rupee))

\* The sum the retirement page asks for is the one that makes the money last,
\* if no investment and no step-up loses more than all of it.
\* Money that lasts without investing is what coasting means.
RetirementAdvice(in, panel) ==
    LET Lasts(sip) == Simulate(in, sip).finalBalance > 0
    IN  /\ /\ panel.kind = "invest"
           /\ in.equityReturnPct >= -100 /\ in.debtReturnPct >= -100
           /\ in.stepUpEnabled => in.stepUpPct >= -100
           => ToTheRupee(Lasts, panel.advice, MaxMonthlySip)
        /\ panel.kind # "warning" => (panel.kind = "onTrack") = (CoastPanel(in).kind = "onTrack")

\* The Coast FIRE number is the sum with which the money lasts, "you need X
\* more" is what is missing to it, and who has it is told so, as long as
\* rounding does not swallow what more savings earn.
CoastAdvice(in, panel) ==
    LET Coasts(savings) == CoastFire([in EXCEPT !.currentSavings = savings]).isAlreadyCoastFire
        CoastsWith(more) == Coasts(in.currentSavings + more)
    IN  panel.kind # "warning" /\ in.equityReturnPct >= 0 /\ in.debtReturnPct >= 0 =>
          /\ ToTheRupee(Coasts, panel.number, MaxCoastSavings)
          /\ Coasts(MaxCoastSavings) /\ in.currentSavings >= 0 =>
               /\ panel.kind = "invest" =>
                    /\ panel.advice >= 0
                    /\ ToTheRupee(CoastsWith, panel.advice, MaxCoastSavings - in.currentSavings)
               /\ panel.kind = "onTrack" => panel.number < in.currentSavings + Rupee

AsSip(in, endAge, savings, equityPct, debtPct, target) ==
    [currentAge |-> in.currentAge, targetAge |-> endAge, currentSavings |-> savings,
     monthlySip |-> 0, fireNumber |-> target,
     expectedReturnPct |-> Blended(equityPct, debtPct, in.allocation)]

\* A plan is on track as it stands by the measure of the SIP page too, and
\* otherwise with the advised sum.
PlanIsOnTrack(plan, panel) ==
    LET OnTrack(sip) == SipFire([plan EXCEPT !.monthlySip = sip]).isOnTrack
    IN  /\ panel.kind = "onTrack" <=> OnTrack(plan.monthlySip)
        /\ panel.kind = "invest" => ToTheRupee(OnTrack, panel.advice, MaxMonthlySip)

\* No investment loses more than all of it, and the rate is a whole rupee.
CityAdvice(in, panel) ==
    panel.kind # "warning" /\ in.equityReturnPct >= -100 /\ in.debtReturnPct >= -100 =>
        PlanIsOnTrack(AsSip(in, in.retirementAge, in.currentSavings, in.equityReturnPct,
                            in.debtReturnPct, CityFire(in).fireNumberAtRetirement),
                      panel)

ReturnAdvice(in, panel) ==
    /\ panel.kind # "warning" /\ panel.rate > 0
    /\ in.usdEquityReturnPct >= -100 /\ in.usdDebtReturnPct >= -100
    => PlanIsOnTrack(AsSip(in, in.returnAge, in.currentSavingsUsd, in.usdEquityReturnPct,
                           in.usdDebtReturnPct, ReturnToIndia(in).fireNumberUsdAtReturn),
                     panel)

\* Corpus, shortfall and FIRE age tell the same story: on track if and only
\* if the number is reached by the target age, what is missing completes it
\* to the rupee, and the chart of a later FIRE age ends there.
ProgressIsConsistent(in, panel) ==
    panel.kind # "warning" /\ in.expectedReturnPct >= 0 =>
      /\ (panel.kind = "onTrack") = (panel.fireAge # Null /\ panel.fireAge <= in.targetAge)
      /\ panel.kind = "onTrack" => panel.shortfall = 0 /\ panel.corpus + Rupee > in.fireNumber
      /\ panel.kind = "invest" =>
           panel.corpus + panel.shortfall \in in.fireNumber - Rupee .. in.fireNumber + Rupee
      /\ panel.fireAge # Null /\ panel.fireAge > in.targetAge =>
           /\ panel.chart[panel.fireAge] >= in.fireNumber
           /\ \A age \in DOMAIN panel.chart :
                age < panel.fireAge => panel.chart[age] < in.fireNumber

\* The sum to invest monthly is the one that is on track, if it is not yet.
SipAdvice(in, panel) ==
    in.monthlySip >= 0 =>
      /\ ProgressIsConsistent(in, panel)
      /\ panel.kind = "invest" /\ in.expectedReturnPct >= -100 => PlanIsOnTrack(in, panel)

\* The sum to invest today is the one that is on track.
LumpsumAdvice(in, panel) ==
    /\ ProgressIsConsistent(in, panel)
    /\ panel.kind # "warning" /\ in.expectedReturnPct > -100 =>
         /\ in.lumpsumAmount >= panel.advice + Rupee => panel.kind = "onTrack"
         /\ in.lumpsumAmount <= panel.advice - Rupee => panel.kind = "invest"

\* The provident fund and the pension scheme grow equal contributions to equal sums.
SchemesAgree(in, panel) ==
    LET asPpf == [currentAge |-> in.currentAge, retirementAge |-> in.retirementAge,
                  currentBalance |-> in.currentBalance, annualContribution |-> 12 * in.monthlyContribution,
                  annualInterestRatePct |-> in.expectedReturnPct, fireNumber |-> in.fireNumber]
        Same(ppf) == ppf.corpus = panel.corpus /\ ppf.coverage = panel.coverage
    IN  panel.kind # "warning" /\ 12 * in.monthlyContribution <= PpfLimit => Same(PpfPanel(asPpf))

\* Without inflation, saving an income is a monthly investment: both pages
\* name the same age of independence.
SavingIsInvesting(in, panel) ==
    LET sip == SipFire([currentAge |-> in.currentAge, targetAge |-> in.currentAge + 1,
                        currentSavings |-> in.currentSavings,
                        monthlySip |-> in.monthlyIncome - in.monthlyExpenses,
                        expectedReturnPct |-> in.returnPct,
                        fireNumber |-> 12 * FiMultiple * in.monthlyExpenses])
    IN  in.inflationPct = 0 /\ panel.kind \in {"onTrack", "reach"} /\ panel.age <= MaxAge
          => sip.fire.actualFireAge = panel.age

\* Interest is paid, not charged, on a fund into which money is paid.
EarnsInterest(in, panel, paid) ==
    /\ panel.kind = "scheme"
    /\ \A number \in paid \cup {in.currentBalance, in.annualInterestRatePct} : number >= 0
    => panel.interest >= 0

Advice(c, in, panel) ==
    CASE c = "retirement"       -> RetirementAdvice(in, panel)
      [] c = "coast-fire"       -> CoastAdvice(in, panel)
      [] c = "fire-by-city"     -> CityAdvice(in, panel)
      [] c = "return-to-india"  -> ReturnAdvice(in, panel)
      [] c = "sip-for-fire"     -> SipAdvice(in, panel)
      [] c = "lumpsum-for-fire" -> LumpsumAdvice(in, panel)
      [] c = "savings-rate"     -> SavingIsInvesting(in, panel)
      [] c = "nps"              -> SchemesAgree(in, panel)
      [] c = "epf"              -> EarnsInterest(in, panel, {in.monthlyBasicSalary,
                                       in.employeeContributionPct, in.employerContributionPct,
                                       in.annualSalaryGrowthPct + 100})
      [] c = "ppf"              -> EarnsInterest(in, panel, {in.annualContribution})

\* Whatever inputs are on the screen, the advice of a page is right to the
\* rupee, on whichever side of the least sum that suffices the search's
\* midpoint and its rounding fall, and pages that answer one question two
\* ways agree (retirementCalculator.ts, fireProgressCalculator.ts,
\* indiaRetirementSchemes.ts, savingsRateCalculator.ts).
AdviceIsSound == phase = "shown" => Advice(calc, inputs, Panel(calc, inputs))

----------------------------------------------------------------------------
(* The visitor's inputs. *)

\* The page the questionnaire leads to uses every answer it asked for, and
\* the defaults, nothing the visitor saved or answered elsewhere, otherwise
\* (buildDestinationHref and decodeParamsToInputs).
AnswersAreUsed ==
    opened # Null /\ opened.origin = "quiz" =>
      LET given == opened.from
          list  == QuestionsFor(given["category"], given["path"])
          asked == {list[i] : i \in 1..Len(list)}
          Is(field, key) == given[key] # Undefined /\ inputs[field] = given[key]
      IN  /\ calc = given["path"]
          /\ Is("currentAge", "currentAge") /\ Is("currentSavings", "currentSavings")
          /\ "monthlyIncome" \in asked =>
               Is("monthlyIncome", "monthlyIncome") /\ Is("monthlyExpenses", "monthlyExpenses")
          /\ "riskComfort" \in asked =>
               /\ Is("monthlyExpenseToday", "monthlyExpenses")
               /\ Is("retirementAge", "retirementAge")
               /\ Is("preRetirementAllocation", "riskComfort")
          /\ calc = "retirement" => inputs.contributionEndAge = inputs.retirementAge
          /\ \A field \in DOMAIN inputs :
               inputs[field] # DefaultInputs[calc][field] =>
                 field \in asked \cup {"monthlyExpenseToday", "preRetirementAllocation", "contributionEndAge"}

\* A shared link shows its reader what its sender saw, but for a live
\* exchange rate, which is looked up again (encodeInputsToParams).
LinksSayTheSame ==
    opened # Null /\ opened.origin = "shared" =>
      \/ Panel(calc, inputs) = Panel(opened.calc, opened.from)
      \/ calc = "return-to-india" /\ ~inputs.exchangeRateIsCustom /\ inputs.exchangeRateAsOf # Null

\* The date shown beside an exchange rate is the date of that rate, and a
\* rate is marked as the visitor's own exactly when a visitor typed it,
\* through edits, late answers, links and the browser's storage (handleChange
\* and the effect that fetches the live rate).
RateOrigin(in) ==
    /\ in.exchangeRateAsOf # Null => in.exchangeRateInrPerUsd = RateOn[in.exchangeRateAsOf]
    /\ in.exchangeRateIsCustom <=> in.exchangeRateInrPerUsd \in Typed["exchangeRateInrPerUsd"]

\* The expense is the visitor's own or that of the city shown
\* (handleCityChange, handleRegionChange, resolveSelection).
ExpenseOrigin(c, in) ==
    \/ in[ExpenseField(c)] \in Typed[ExpenseField(c)]
    \/ in[ExpenseField(c)] = CityExpense[ShownCity(in)]

CityPages == {"fire-by-city", "return-to-india"}

\* What an earlier visit saved came from the same places, and so do the defaults.
ASSUME OriginAssumption ==
    /\ \A c \in CityPages : \A in \in {DefaultInputs[c]} \cup SavedInputs[c] :
         in.regionId \in Regions /\ ExpenseOrigin(c, in)
    /\ \A in \in {DefaultInputs["return-to-india"]} \cup SavedInputs["return-to-india"] :
         RateOrigin(in)

\* What a page was told last, typed or chosen on it, saved by an earlier
\* visit or read in a link, stays on the screen, whatever arrives late, and is
\* in the storage for the next visit once the page rests or was left; the one
\* exception is what had not been saved yet when the page was left.
InputsRemembered ==
    /\ calc # Null =>
         \A field \in DOMAIN told[calc] : field \in DOMAIN inputs /\ inputs[field] = told[calc][field]
    /\ \A c \in Calculators : c # calc \/ phase = "shown" =>
         \A field \in DOMAIN told[c] : field \in DOMAIN stored[c] /\ stored[c][field] = told[c][field]

\* What a visitor told the site is what the page on the screen computes
\* with, wherever it was told and whatever arrived since, and what the next
\* visit finds unless the page was left before it was saved
\* (useLocalStorageState, handleChange, the effect that fetches the live
\* rate, decodeParamsToInputs, buildDestinationHref).
VisitorIsHeard ==
    /\ InputsRemembered
    /\ PassedQuestionsAnswered
    /\ AnswersAreUsed
    /\ LinksSayTheSame
    /\ calc = "return-to-india" => RateOrigin(inputs)
    /\ stored["return-to-india"] # Nothing => RateOrigin(stored["return-to-india"])
    /\ calc \in CityPages => ExpenseOrigin(calc, inputs)
============================================================================
