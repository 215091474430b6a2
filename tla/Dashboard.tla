----------------------------- MODULE Dashboard -----------------------------
(***************************************************************************)
(* The net-worth dashboard (NetWorthDashboard.tsx and the components in    *)
(* it).  Every request answers when it likes and is answered from what the *)
(* server held at some moment since it was sent.  A save is one or two     *)
(* requests and a reload, all in the closure of the click: the reload asks *)
(* in the currency that was selected then.  The save button is never       *)
(* disabled, and while the accounts load the page shows nothing to click.  *)
(***************************************************************************)
EXTENDS LedgerApi, SequencesExt

CONSTANTS
    Typed,      \* the amounts a visitor may type
    Ledgers,    \* the ledgers a visit may start with
    Imports,    \* the amounts an import in the background may write
    MaxActs     \* bound on the acts of one behaviour

ASSUME DashboardAssumption ==
    /\ "INR" \in Currencies
    /\ Typed \cup Imports \subseteq Int /\ MaxActs \in Nat
    /\ \A l \in Ledgers :
         /\ l \in [Ids -> Accounts \cup {Null}]
         /\ \A a, b \in Ids : a # b /\ l[a] # Null /\ l[b] # Null => l[a].name # l[b].name

VARIABLES
    ledger,     \* the server's accounts
    selected,   \* the display currency
    accounts,   \* what the last answer said: [currency, rows]
    loading,    \* the page says it is loading
    error,      \* the last load failed
    fetches,    \* loads under way, oldest first
    charts,     \* the two charts: [state, currency, data]
    form,       \* the account dialog, or Null when closed
    ops,        \* saves and closings under way
    unseen,     \* the ledger changed and no load was started since
    hasty,      \* the visitor acted while the page waited for an answer
    acts        \* acts so far

pageVars == <<selected, accounts, loading, error, fetches, charts>>
vars == <<ledger, pageVars, form, ops, unseen, hasty, acts>>

Loads == [currency : Currencies, rows : SUBSET Rows]
Dialogs == [editing : Ids \cup {Null}, name : Names, currency : Currencies,
            amount : Int \cup {Null}, original : [text : Int] \cup {Null}]
Saves == [id : Nat, stage : {"account", "balance", "close"}, target : Ids \cup {Null},
          dialog : Dialogs, currency : Currencies]

ASSUME DialogAssumption == Null \notin Dialogs

Absent == [state |-> "absent"]

\* The charts mount, and ask, each time the dashboard is drawn anew.
AskCharts(currency) ==
    [state |-> "asking", currency |-> currency,
     data |-> [history |-> History(ledger, currency), allocation |-> Allocation(ledger, currency)]]

Act == acts < MaxActs /\ acts' = acts + 1

Waiting == ops # {} \/ fetches # <<>>

\* fetchData: the page gives way to "Loading".
StartLoad(currency) ==
    /\ fetches' = Append(fetches, [currency |-> currency, rows |-> List(ledger', currency)])
    /\ loading' = TRUE /\ error' = FALSE /\ charts' = Absent
    /\ unseen' = FALSE

Init ==
    /\ ledger \in Ledgers
    /\ selected = "INR"
    /\ accounts = [currency |-> "INR", rows |-> {}]
    /\ loading = TRUE /\ error = FALSE /\ charts = Absent
    /\ fetches = <<[currency |-> "INR", rows |-> List(ledger, "INR")]>>
    /\ form = Null /\ ops = {}
    /\ unseen = FALSE /\ hasty = FALSE /\ acts = 0

----------------------------------------------------------------------------
(* Loading *)

SelectCurrency ==
    /\ ~loading
    /\ Act
    /\ selected' \in Currencies \ {selected}
    /\ hasty' = (hasty \/ Waiting)
    /\ UNCHANGED ledger
    /\ StartLoad(selected')
    /\ UNCHANGED <<accounts, form, ops>>

LoadAnswers_LoadingOnError ==
    /\ \E i \in DOMAIN fetches :
         /\ fetches' = RemoveAt(fetches, i)
         /\ \/ /\ accounts' = [currency |-> fetches[i].currency, rows |-> fetches[i].rows]
               /\ charts' = AskCharts(selected)
               /\ loading' = FALSE
               /\ UNCHANGED error
            \/ /\ error' = TRUE
               /\ UNCHANGED <<accounts, charts, loading>>
    /\ UNCHANGED <<ledger, selected, form, ops, unseen, hasty, acts>>
LoadAnswers ==
    /\ \E i \in DOMAIN fetches :
         /\ fetches' = RemoveAt(fetches, i)
         /\ \/ \E rows \in {fetches[i].rows, List(ledger, fetches[i].currency)} :
                 /\ accounts' = [currency |-> fetches[i].currency, rows |-> rows]
                 /\ charts' = AskCharts(selected)
                 /\ UNCHANGED error
            \/ /\ error' = TRUE
               /\ charts' = IF loading THEN AskCharts(selected) ELSE charts
               /\ UNCHANGED accounts
    /\ loading' = FALSE
    /\ UNCHANGED <<ledger, selected, form, ops, unseen, hasty, acts>>

ChartsAnswer ==
    /\ charts.state = "asking"
    /\ \/ \E data \in {charts.data, AskCharts(charts.currency).data} :
            charts' = [charts EXCEPT !.state = "shown", !.data = data]
       \/ charts' = [charts EXCEPT !.state = "error"]
    /\ UNCHANGED <<ledger, selected, accounts, loading, error, fetches, form, ops, unseen, hasty, acts>>

----------------------------------------------------------------------------
(* The account dialog *)

\* Balances arrive as text, a typed amount is parsed to a number.
Text(amount) == IF amount = Null THEN Null ELSE [text |-> amount]
Number(amount) == IF amount = Null THEN Null ELSE [number |-> amount]

Dialog(editing, name, currency, amount, original) ==
    [editing |-> editing, name |-> name, currency |-> currency, amount |-> amount, original |-> original]

\* The dialog opens on a row or empty, and the visitor types what pleases;
\* a name left blank is refused when saving.
OpenAccountModal ==
    /\ ~loading /\ form = Null
    /\ Act
    /\ \/ \E row \in accounts.rows, currency \in Currencies, name \in Names :
            \E amount \in Typed \cup {row.balance, Null} :
              form' = Dialog(row.id, name, currency, amount, Text(row.balance))
       \/ \E currency \in Currencies, name \in Names, amount \in Typed \cup {Null} :
            form' = Dialog(Null, name, currency, amount, Null)
    /\ UNCHANGED <<ledger, pageVars, ops, unseen, hasty>>

Cancel ==
    /\ ~loading /\ form # Null
    /\ form' = Null
    /\ UNCHANGED <<ledger, pageVars, ops, unseen, hasty, acts>>

\* A balance is sent when it "has changed", is typed and is not zero.
SendsBalance(dialog) ==
    /\ dialog.amount \notin {Null, 0}
    /\ dialog.editing # Null => Number(dialog.amount) # dialog.original

Start(op) ==
    /\ Act
    /\ ops' = ops \cup {op}
    /\ hasty' = (hasty \/ Waiting)
    /\ UNCHANGED <<ledger, pageVars, unseen>>

Save ==
    /\ ~loading /\ form # Null
    /\ Start([id |-> acts, stage |-> "account", target |-> form.editing, dialog |-> form,
              currency |-> selected])
    /\ UNCHANGED form

\* "Remove account? click here", and the confirmation.
CloseAccount ==
    /\ ~loading /\ form # Null /\ form.editing # Null
    /\ Start([id |-> acts, stage |-> "close", target |-> form.editing, dialog |-> form,
              currency |-> selected])
    /\ form' = Null

\* A request failed, or was carried out and its answer lost: an alert, and nothing else.
Alert(op, changed) ==
    /\ ledger' \in {ledger, changed}
    /\ ops' = ops \ {op}
    /\ unseen' = TRUE
    /\ UNCHANGED <<pageVars, form, hasty, acts>>

Finish_NoReload(op) ==
    /\ ops' = ops \ {op}
    /\ form' = IF op.stage = "close" THEN form ELSE Null
    /\ UNCHANGED <<pageVars, unseen, hasty, acts>>
\* The last request of a save succeeded: whatever dialog is open closes.
Finish(op) ==
    /\ ops' = ops \ {op}
    /\ form' = IF op.stage = "close" THEN form ELSE Null
    /\ StartLoad(op.currency)
    /\ UNCHANGED <<selected, accounts, hasty, acts>>

\* The account is written; the balance comes next, if there is one to send.
Proceed(op, target, changed) ==
    \/ /\ ledger' = changed
       /\ IF SendsBalance(op.dialog)
          THEN /\ ops' = (ops \ {op}) \cup {[op EXCEPT !.stage = "balance", !.target = target]}
               /\ UNCHANGED <<pageVars, form, unseen, hasty, acts>>
          ELSE Finish(op)
    \/ Alert(op, changed)

AccountAnswers ==
    \E op \in ops :
        /\ op.stage = "account"
        /\ IF Taken(ledger, op.dialog.name, op.target)
           THEN Alert(op, ledger)
           ELSE IF op.target # Null
           THEN Proceed(op, op.target, Rename(ledger, op.target, op.dialog.name))
           ELSE LET free == {id \in Ids : ledger[id] = Null}
                IN  /\ free # {}
                    /\ Proceed(op, Min(free), Create(ledger, Min(free), op.dialog.name, op.dialog.currency))

\* The page names no day for a balance, the server takes today.
BalanceAnswers ==
    \E op \in ops :
        LET changed == SetBalance(ledger, op.target, op.dialog.currency, Today, op.dialog.amount)
        IN  /\ op.stage = "balance"
            /\ \/ ledger' = changed /\ Finish(op)
               \/ Alert(op, changed)

CloseAnswers ==
    \E op \in ops :
        /\ op.stage = "close"
        /\ \/ ledger' = Close(ledger, op.target) /\ Finish(op)
           \/ Alert(op, Close(ledger, op.target))

----------------------------------------------------------------------------
(* Imports: the run in the background writes, on whatever day a statement  *)
(* is as of, and the visitor closes the dialog                             *)

ImportWrites ==
    /\ Act
    /\ \E id \in Active(ledger), amount \in Imports, day \in Days :
         ledger' = SetBalance(ledger, id, ledger[id].currency, day, amount)
    /\ unseen' = TRUE
    /\ UNCHANGED <<pageVars, form, ops, hasty>>

OnImported ==
    /\ ~loading
    /\ Act
    /\ hasty' = (hasty \/ Waiting)
    /\ UNCHANGED ledger
    /\ StartLoad(selected)
    /\ UNCHANGED <<selected, accounts, form, ops>>

Next ==
    \/ SelectCurrency \/ LoadAnswers \/ ChartsAnswer
    \/ OpenAccountModal \/ Cancel \/ Save \/ CloseAccount
    \/ AccountAnswers \/ BalanceAnswers \/ CloseAnswers
    \/ ImportWrites \/ OnImported

Spec == Init /\ [][Next]_vars

----------------------------------------------------------------------------
(* What the page computes from the rows *)

Sum(rows) == SumFunction([row \in rows |-> OrZero(row.shown)])

\* The summary.
TotalAssets(rows) == Sum({row \in rows : IsAsset(row)})
TotalLiabilities(rows) == Sum({row \in rows : ~IsAsset(row)})

\* The hierarchy: every prefix of a name is a node, and a node with an
\* account of its own shows that account, not its children.
Paths(rows) == UNION {{SubSeq(row.name, 1, n) : n \in 1..Len(row.name)} : row \in rows}
Deepest(rows) == Max({0} \cup {Len(path) : path \in Paths(rows)})

Children(rows, path) == {p \in Paths(rows) : Len(p) = Len(path) + 1 /\ IsPrefix(path, p)}

\* The totals of the nodes below a depth, from those of the nodes below them.
NodeTotals(rows, depth, below) ==
    [path \in {p \in Paths(rows) : Len(p) > depth} |->
        LET own == {row \in rows : row.name = path}
        IN  IF own # {} THEN Sum(own)
            ELSE SumFunction([child \in Children(rows, path) |-> below[child]])]

NodeTotal(rows, root) ==
    LET deepest == Deepest(rows)
        total[height \in 0..deepest] ==
            IF height = 0 THEN [path \in {} |-> 0]
            ELSE NodeTotals(rows, deepest - height, total[height - 1])
    IN  IF <<root>> \in Paths(rows) THEN total[deepest][<<root>>] ELSE 0
============================================================================
