------------------------------ MODULE Website ------------------------------
(***************************************************************************)
(* The questionnaire and the calculators it leads to: the last screen of   *)
(* the questionnaire loads the page of the calculator it recommends, with  *)
(* the answers in the link, and from then on the page is on its own.       *)
(***************************************************************************)
EXTENDS CalculatorPages, Questionnaire

vars == <<quizVars, pageVars>>

\* The question a prefilled input is taken from.
SavingsRateSource ==
    [currentAge |-> "currentAge", monthlyIncome |-> "monthlyIncome",
     monthlyExpenses |-> "monthlyExpenses", currentSavings |-> "currentSavings"]

CoastSource ==
    [currentAge |-> "currentAge", monthlyExpenseToday |-> "monthlyExpenses",
     currentSavings |-> "currentSavings", retirementAge |-> "retirementAge",
     preRetirementAllocation |-> "riskComfort"]

RetirementSource ==
    [currentAge |-> "currentAge", monthlyExpenseToday |-> "monthlyExpenses",
     currentSavings |-> "currentSavings", retirementAge |-> "retirementAge",
     contributionEndAge |-> "retirementAge", preRetirementAllocation |-> "riskComfort"]

Prefilled(c, source) ==
    [field \in DOMAIN DefaultInputs[c] |->
        IF field \in DOMAIN source /\ answers[source[field]] # Undefined
        THEN answers[source[field]]
        ELSE DefaultInputs[c][field]]

\* buildDestinationHref: a link with parameters, or the bare route.
Destination(path) ==
    CASE path = "savings-rate" -> Link(path, Prefilled(path, SavingsRateSource), answers, "quiz")
      [] path = "retirement"   -> Link(path, Prefilled(path, RetirementSource), answers, "quiz")
      [] path = "coast-fire"   -> Link(path, Prefilled(path, CoastSource), answers, "quiz")
      [] OTHER                 -> Null

Untouched == \A key \in Keys : answers[key] = Undefined

\* A visitor takes the questionnaire before having used a calculator.
TakeQuiz ==
    /\ calc = Null
    /\ \A c \in Calculators : stored[c] = Nothing
    /\ QuizNext
    /\ UNCHANGED pageVars

\* The page is loaded anew: the questionnaire's state is gone.
SeeResults ==
    /\ calc = Null /\ IsDone
    /\ \A c \in Calculators : stored[c] = Nothing
    /\ Mount(answers["path"], Destination(answers["path"]))
    /\ step' = 0 /\ draft' = Undefined
    /\ answers' = [key \in Keys |-> Undefined]
    /\ UNCHANGED link

BrowsePages ==
    /\ Untouched
    /\ PageNext
    /\ UNCHANGED quizVars

Init == QuizInit /\ PageInit

Next == TakeQuiz \/ SeeResults \/ BrowsePages

Spec == Init /\ [][Next]_vars
============================================================================
