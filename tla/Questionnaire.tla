--------------------------- MODULE Questionnaire ---------------------------
(***************************************************************************)
(* The get-started questionnaire of the website                            *)
(* (website/components/GetStartedQuestionnaire.tsx): a category, then the  *)
(* calculator that fits, then the questions of that calculator, with a way *)
(* back from every step.  The list of questions is computed from the       *)
(* answers given so far, so going back and choosing another path changes   *)
(* the questions under the visitor's position.                             *)
(***************************************************************************)
EXTENDS Integers, Sequences

CONSTANTS
    Undefined,      \* an answer not given, a draft not typed
    Numbers         \* the numbers a visitor may type

VARIABLES
    step,       \* position in the list of questions
    answers,    \* what has been answered so far
    draft       \* the number typed and not yet confirmed

quizVars == <<step, answers, draft>>

Keys == {"category", "path", "currentAge", "monthlyIncome", "monthlyExpenses",
         "currentSavings", "retirementAge", "riskComfort"}

ChoiceKeys == {"category", "path", "riskComfort"}

PathsOf == [track          |-> {"savings-rate", "retirement", "coast-fire", "sip-for-fire", "lumpsum-for-fire"},
            where          |-> {"fire-by-city", "return-to-india"},
            indiaAccounts  |-> {"epf", "ppf", "nps"}]

Categories == DOMAIN PathsOf

Paths == UNION {PathsOf[category] : category \in Categories}

Risks == {"aggressive", "balanced", "conservative"}

ASSUME UndefinedAssumption ==
    /\ Numbers \subseteq Int
    /\ Undefined \notin Numbers
    /\ Undefined \notin Categories \cup Paths \cup Risks

\* The least number each numeric question accepts.
Least(key) == IF key \in {"currentAge", "retirementAge"} THEN 1 ELSE 0

SavingsRateQuestions ==
    <<"category", "path", "currentAge", "monthlyIncome", "monthlyExpenses", "currentSavings">>

RetirementQuestions ==
    <<"category", "path", "currentAge", "monthlyExpenses", "currentSavings", "retirementAge", "riskComfort">>

QuestionsFor(category, path) ==
    IF category = Undefined THEN <<"category">>
    ELSE IF path = "savings-rate" THEN SavingsRateQuestions
    ELSE IF path \in {"retirement", "coast-fire"} THEN RetirementQuestions
    ELSE <<"category", "path">>

Questions == QuestionsFor(answers["category"], answers["path"])

IsDone == step >= Len(Questions)

Asked == Questions[step + 1]

\* The answers a question accepts.
Offered(key) ==
    CASE key = "category"    -> Categories
      [] key = "path"        -> PathsOf[answers["category"]]
      [] key = "riskComfort" -> Risks
      [] OTHER               -> {n \in Numbers : n >= Least(key)}

----------------------------------------------------------------------------

QuizInit ==
    /\ step = 0
    /\ answers = [key \in Keys |-> Undefined]
    /\ draft = Undefined

\* Choosing a category forgets the path; every other answer is kept.
Record(key, value) ==
    [k \in Keys |-> IF k = key THEN value
                    ELSE IF k = "path" /\ key = "category" THEN Undefined
                    ELSE answers[k]]

AnswerAndAdvance(key, value) ==
    /\ answers' = Record(key, value)
    /\ draft' = Undefined
    /\ step' = step + 1

Choose ==
    /\ ~IsDone /\ Asked \in ChoiceKeys
    /\ \E value \in Offered(Asked) : AnswerAndAdvance(Asked, value)

TypeNumber ==
    /\ ~IsDone /\ Asked \notin ChoiceKeys
    /\ draft' \in Numbers
    /\ UNCHANGED <<step, answers>>

\* Continue is disabled until a number has been typed, also where the field
\* shows the answer of an earlier pass.
Continue ==
    /\ ~IsDone /\ Asked \notin ChoiceKeys
    /\ draft # Undefined /\ draft \in Offered(Asked)
    /\ AnswerAndAdvance(Asked, draft)

GoBack_FromStart ==
    /\ step' = step - 1
    /\ draft' = Undefined
    /\ UNCHANGED answers
GoBack ==
    /\ step > 0
    /\ step' = step - 1
    /\ draft' = Undefined
    /\ UNCHANGED answers

QuizNext ==
    \/ Choose
    \/ TypeNumber
    \/ Continue
    \/ GoBack

QuizSpec == QuizInit /\ [][QuizNext]_quizVars

----------------------------------------------------------------------------

QuizTypeOK ==
    /\ step \in 0..Len(Questions)
    /\ draft \in Numbers \cup {Undefined}
    /\ DOMAIN answers = Keys
    /\ answers["category"] \in Categories \cup {Undefined}
    /\ answers["path"] \in Paths \cup {Undefined}

\* Whatever detours were taken, every question before the visitor's position
\* has an answer that question offers, and the path belongs to the category:
\* nothing of an abandoned path stands in for an answer (answerAndAdvance,
\* goBack and the recomputed list of questions).
PassedQuestionsAnswered ==
    /\ \A i \in 1..Len(Questions) : i <= step => answers[Questions[i]] \in Offered(Questions[i])
    /\ answers["path"] # Undefined =>
         /\ answers["category"] # Undefined
         /\ answers["path"] \in PathsOf[answers["category"]]
============================================================================
