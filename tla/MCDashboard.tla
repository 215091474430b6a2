---------------------------- MODULE MCDashboard ----------------------------
(***************************************************************************)
(* Two accounts at most, of three names of which two are nested, in the    *)
(* rupee, whose rate changed when the history began, the dollar and a      *)
(* currency without a rate; balances dated today, within the history or    *)
(* before it; and four acts of the visitor or of imports.                  *)
(***************************************************************************)
EXTENDS DashboardRequirements

Bank == <<"Assets", "Bank", "HDFC">>
MCNames == {Bank, Bank \o <<"Savings">>, <<"Liabilities", "Loan", "Home">>}

MCPerUsd == [c \in Currencies |-> [day \in Days |->
                CASE c = "USD" -> 1
                  [] c = "INR" -> IF day < HistoryStart THEN 1 ELSE 2
                  [] OTHER -> Null]]

Funded == [Account(Bank, "INR") EXCEPT !.balance["INR"][Baseline] = 2]

MCLedgers == {[id \in Ids |-> Null], [id \in Ids |-> IF id = 1 THEN Funded ELSE Null]}
============================================================================
