-------------------------------- MODULE MCRun --------------------------------
(***************************************************************************)
(* Two runs over two mutual-fund folios: a statement, its restatement for  *)
(* the same date, an older one that lists both folios, a faulty one.  The  *)
(* user typed one folio's amount for the date of the first two.            *)
(***************************************************************************)
EXTENDS RunRequirements

Folio(id, v, day) ==
    [institution |-> "Amc", identifier |-> id, name |-> "Alpha", kind |-> None,
     value |-> v, employer |-> None, pension |-> None, currency |-> "INR", asOf |-> day]
Cas(issued, holdings) ==
    [read |-> "facts", complete |-> TRUE, type |-> "mutual_fund_cas", issued |-> issued,
     source |-> "CAMS", exhaustive |-> TRUE, softWarning |-> FALSE, holdings |-> holdings]

Both1    == Cas(3, <<Folio("F1", 1, 1), Folio("F2", 2, 1)>>)
First2   == Cas(5, <<Folio("F1", 3, 2)>>)
First2b  == Cas(6, <<Folio("F1", 4, 2)>>)
Faulty   == Cas(7, <<Folio("F1", None, 2)>>)

MCDocuments == {Both1, First2, First2b, Faulty}
SameDay == {First2, First2b}
F1 == AccountName("mutual_fund_cas", Folio("F1", 1, 1))
F2 == AccountName("mutual_fund_cas", Folio("F2", 1, 1))
Manual(amount) == [amount |-> amount, document |-> None]
OneManual == [b \in {<<F1, 2>>} |-> Manual(3)]
Redeemable == [b \in {<<F2, 1>>} |->
    [amount |-> 2, document |-> [run |-> None, issued |-> 3, source |-> "CAMS"]]]
=============================================================================
