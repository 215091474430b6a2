----------------------------- MODULE LedgerApi -----------------------------
(***************************************************************************)
(* The requests of the dashboard as the server answers them                *)
(* (backend/api/account_api.py over database/repository.py), for one user  *)
(* and on one day, today: the balances of an account, dated and each in a  *)
(* currency, and what the dashboard's three questions - accounts, history, *)
(* allocation - make of them in a display currency, by the rates of their  *)
(* day or of today.                                                        *)
(***************************************************************************)
EXTENDS Integers, Sequences, FiniteSets, FiniteSetsExt

CONSTANTS
    Ids,            \* account ids, in the order they are given out
    Names,          \* account names, sequences of parts
    Currencies,
    Days,           \* the days balances are dated with, none after today
    Today,
    HistoryStart,   \* the first day of the history, a year ago
    PerUsd,         \* [Currencies -> [Days -> units to the dollar, by the latest
                    \* rate of that day or before, or Null without one]]
    Null

\* An account that exists: its balance in a currency on a day is an amount or
\* Null where none was entered.
Accounts == [name : Names, currency : Currencies, active : BOOLEAN,
             balance : [Currencies -> [Days -> Int \cup {Null}]]]

\* The day the history takes its first balances from.
Baseline == HistoryStart - 1

ASSUME ApiAssumption ==
    /\ Ids \subseteq Nat /\ Null \notin Int \cup Accounts
    /\ Days \subseteq Int /\ HistoryStart \in Int /\ {Baseline, Today} \subseteq Days
    /\ \A day \in Days : day <= Today
    /\ PerUsd \in [Currencies -> [Days -> (Nat \ {0}) \cup {Null}]]

\* create_account and update_account refuse a name that starts otherwise.
ASSUME NamesAssumption ==
    /\ IsFiniteSet(Ids) /\ IsFiniteSet(Currencies) /\ IsFiniteSet(Days)
    /\ Names \subseteq Seq(STRING)
    /\ \A name \in Names : name # <<>> /\ Head(name) \in {"Assets", "Liabilities"}

\* A new account is open and has no balance yet.
Account(name, currency) ==
    [name |-> name, currency |-> currency, active |-> TRUE,
     balance |-> [c \in Currencies |-> [day \in Days |-> Null]]]

IsAsset(account) == Head(account.name) = "Assets"

Taken(ledger, name, id) ==
    \E other \in Ids \ {id} : ledger[other] # Null /\ ledger[other].name = name

Active(ledger) == {id \in Ids : ledger[id] # Null /\ ledger[id].active}

\* All rates are quoted against the dollar: directly, inversely or through it.
Convert(amount, from, to, day) ==
    IF amount = Null THEN Null
    ELSE IF from = to THEN amount
    ELSE IF PerUsd[from][day] = Null \/ PerUsd[to][day] = Null THEN Null
    ELSE (amount * PerUsd[to][day]) \div PerUsd[from][day]

\* The days up to one with a balance in a currency, and the latest balance.
Dated(account, currency, day) == {d \in Days : d <= day /\ account.balance[currency][d] # Null}

Latest(account, currency, day) ==
    LET dated == Dated(account, currency, day)
    IN  IF dated = {} THEN Null ELSE account.balance[currency][Max(dated)]

Own(account) == Latest(account, account.currency, Today)

\* GET /accounts answers with rows.
Rows == [id : Ids, name : Names, currency : Currencies, balance : Int \cup {Null}, shown : Int \cup {Null}]

\* GET /accounts: the open accounts, each with the latest balance in its own
\* currency, at today's rate.
List(ledger, display) ==
    {[id |-> id, name |-> ledger[id].name, currency |-> ledger[id].currency,
      balance |-> Own(ledger[id]),
      shown |-> Convert(Own(ledger[id]), ledger[id].currency, display, Today)] : id \in Active(ledger)}

OrZero(amount) == IF amount = Null THEN 0 ELSE amount

\* A balance counts at the rate of its own day, one from before the history at
\* the rate of the day the history takes it from; without a rate not at all.
RateDay(day) == IF day < HistoryStart THEN Baseline ELSE day

CountsFor(account, display, day) ==
    LET dated == Dated(account, account.currency, day)
    IN  IF dated = {} THEN 0
        ELSE OrZero(Convert(Latest(account, account.currency, day), account.currency, display,
                            RateDay(Max(dated))))

\* The days of a history of some accounts: those one of them got a balance on.
Points(ledger, ids) ==
    {day \in Days : /\ day >= HistoryStart
                    /\ \E id \in ids : ledger[id].balance[ledger[id].currency][day] # Null}

Totals(ledger, ids, display, day) ==
    LET Total(some) == SumFunction([id \in some |-> CountsFor(ledger[id], display, day)])
        assets == {id \in ids : IsAsset(ledger[id])}
    IN  [assets |-> Total(assets), liabilities |-> Total(ids \ assets)]

History_ClosedToo(ledger, display) ==
    LET known == {id \in Ids : ledger[id] # Null}
    IN  [day \in Points(ledger, known) |-> Totals(ledger, known, display, day)]
\* GET /networth-history: the totals of the open accounts, day by day.
History(ledger, display) ==
    [day \in Points(ledger, Active(ledger)) |-> Totals(ledger, Active(ledger), display, day)]

\* GET /allocation: the latest balances of assets in every currency they have
\* one in, at today's rates.
Allocation(ledger, display) ==
    LET Held(id) == SumFunction(
            [c \in Currencies |-> OrZero(Convert(Latest(ledger[id], c, Today), c, display, Today))])
    IN  SumFunction([id \in {a \in Active(ledger) : IsAsset(ledger[a])} |-> Held(id)])

----------------------------------------------------------------------------
(* What the writing requests leave behind; a name taken, also by a closed  *)
(* account, fails on the unique index.                                     *)

Create(ledger, id, name, currency) == [ledger EXCEPT ![id] = Account(name, currency)]

\* PUT renames; the currency it is sent is not stored.
Rename(ledger, id, name) == [ledger EXCEPT ![id].name = name]

SetBalance(ledger, id, currency, day, amount) ==
    [ledger EXCEPT ![id].balance[currency][day] = amount]

Close(ledger, id) == [ledger EXCEPT ![id].active = FALSE]
============================================================================
