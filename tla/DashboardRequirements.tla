----------------------- MODULE DashboardRequirements -----------------------
(***************************************************************************)
(* What the visitors of the dashboard may rely on.                         *)
(***************************************************************************)
EXTENDS Dashboard

\* The types of the page and of the ledger; the page says that it loads only
\* while a load is under way, and no two accounts share a name.
TypeOK ==
    /\ ledger \in [Ids -> Accounts \cup {Null}]
    /\ selected \in Currencies /\ accounts \in Loads /\ fetches \in Seq(Loads)
    /\ form \in Dialogs \cup {Null} /\ ops \subseteq Saves
    /\ error \in BOOLEAN /\ unseen \in BOOLEAN /\ hasty \in BOOLEAN /\ acts \in 0..MaxActs
    /\ loading \in BOOLEAN /\ (loading => fetches # <<>> /\ charts = Absent)
    /\ \A a, b \in Ids : a # b /\ ledger[a] # Null /\ ledger[b] # Null => ledger[a].name # ledger[b].name

\* Nothing is under way and nothing failed.
AtRest == ops = {} /\ fetches = <<>> /\ ~error /\ charts.state = "shown"

\* The dashboard at rest shows, in the currency it names, the accounts and
\* the chart data the server holds, whatever was saved, closed or renamed and
\* however late the answers were, as long as the visitor waits for answers
\* before acting again and nothing failed or was imported behind the page's
\* back (fetchData and its callers, the key of the charts).
DashboardIsCurrent ==
    AtRest /\ ~hasty /\ ~unseen =>
      /\ accounts = [currency |-> selected, rows |-> List(ledger, selected)]
      /\ charts = [AskCharts(selected) EXCEPT !.state = "shown"]

Nested(rows) == \E a, b \in rows : a # b /\ IsPrefix(a.name, b.name)

\* Some open account has a balance in a currency that is not its own.
HasForeign ==
    \E id \in Active(ledger) : \E c \in Currencies \ {ledger[id].currency} :
        Latest(ledger[id], c, Today) # Null

\* What an account is worth has not changed with the rates since its latest
\* balance was dated, or since the history began for an older one.
RatesHeld(account, display) ==
    LET dated == Dated(account, account.currency, Today)
    IN  dated # {} /\ account.currency # display =>
          \A c \in {account.currency, display} : PerUsd[c][RateDay(Max(dated))] = PerUsd[c][Today]

\* The five places that add up the same balances agree: the summary with the
\* hierarchy, unless an account lies below another account; with the last
\* point of the growth chart, if a balance is dated within the year it covers
\* and unless a rate has changed since the latest balance of an account, which
\* the chart converts at the rate of its own day and the summary at today's;
\* and with the allocation chart, unless an account has a balance in a
\* currency other than its own (totalAssets, calculateNodeTotal,
\* list_accounts, get_networth_history, get_asset_allocation).
NumbersAgree ==
    AtRest /\ ~hasty /\ ~unseen =>
      LET rows  == accounts.rows
          chart == charts.data.history
      IN  /\ ~Nested(rows) => /\ NodeTotal(rows, "Assets") = TotalAssets(rows)
                              /\ NodeTotal(rows, "Liabilities") = TotalLiabilities(rows)
          /\ DOMAIN chart # {} /\ (\A id \in Active(ledger) : RatesHeld(ledger[id], selected)) =>
                chart[Max(DOMAIN chart)] =
                    [assets |-> TotalAssets(rows), liabilities |-> TotalLiabilities(rows)]
          /\ ~HasForeign => charts.data.allocation = TotalAssets(rows)

\* "Only create a new balance entry if the balance has actually changed":
\* an edit sends no balance whose amount is the one the dialog opened with.
OnlyChangedBalancesAreSent ==
    \A op \in ops :
        op.stage = "balance" /\ op.dialog.editing # Null => Text(op.dialog.amount) # op.dialog.original
============================================================================
