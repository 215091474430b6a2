------------------------------ MODULE MCIngest ------------------------------
(***************************************************************************)
(* Statements for the runs of IngestRequirements: two aggregators, one     *)
(* folio and one share, dates 1..3 and the restatement of a date.          *)
(***************************************************************************)
EXTENDS IngestRequirements, TLC

Fund(v, day) == [institution |-> "Amc", identifier |-> "F1", name |-> "Alpha",
                 kind |-> None, value |-> v, employer |-> None, pension |-> None,
                 currency |-> "INR", asOf |-> day]
Fund2(v, day) == [Fund(v, day) EXCEPT !.identifier = "F2"]
Share(v, day, name) == [Fund(v, day) EXCEPT !.institution = None,
                        !.identifier = "ISIN1", !.name = name, !.kind = "equity"]
Passbook(day) == [Fund(2, day) EXCEPT !.identifier = "UAN", !.employer = 3, !.pension = 1]

Doc(type, source, issued, exhaustive, holdings) ==
    [read |-> "facts", complete |-> TRUE, type |-> type, issued |-> issued,
     source |-> source, exhaustive |-> exhaustive, softWarning |-> FALSE,
     holdings |-> holdings]

Cams1      == Doc("mutual_fund_cas", "CAMS", 3, TRUE, <<Fund(1, 1), Fund2(1, 1)>>)
Cams2      == Doc("mutual_fund_cas", "CAMS", 4, TRUE, <<Fund2(8, 2)>>)
Cams3      == Doc("mutual_fund_cas", "CAMS", 7, TRUE, <<Fund(2, 3)>>)
Cams3Rev   == Doc("mutual_fund_cas", "CAMS", 8, TRUE, <<Fund(4, 3)>>)
Cdsl1      == Doc("mutual_fund_cas", "CDSL", 4, TRUE, <<Fund2(6, 1)>>)
Cdsl3      == Doc("mutual_fund_cas", "CDSL", 9, TRUE, <<Fund(5, 3)>>)
Silent(d)  == [d EXCEPT !.exhaustive = FALSE]
Tie3       == Doc("mutual_fund_cas", "CDSL", 7, FALSE, <<Fund(6, 3)>>)
Amc2       == [Doc("mutual_fund_cas", "Amc", 5, FALSE, <<Fund2(7, 2)>>)
                 EXCEPT !.softWarning = TRUE]
Demat1     == Doc("demat_cas", "CDSL", 3, TRUE, <<Share(10, 1, None)>>)
Demat2     == Doc("demat_cas", "CDSL", 5, TRUE, <<Share(11, 2, "Acme")>>)
Epf1       == Doc("epf_passbook", "EPFO", 2, TRUE, <<Passbook(1)>>)
Bank2      == Doc("bank_statement", None, 4, TRUE, <<Fund(9, 2)>>)
Loan1      == Doc("loan_statement", "HDFC", 2, FALSE, <<Fund(9, 1)>>)
Unknown    == Doc("unrecognized", None, None, FALSE, <<>>)
NoIssue    == Doc("bank_statement", "HDFC", None, FALSE, <<Fund(1, 1)>>)
Partial    == [Cams2 EXCEPT !.complete = FALSE]
Locked     == [Cams2 EXCEPT !.read = "not_decrypted"]
ApiError   == [Cams2 EXCEPT !.read = "error"]
NoValue    == Doc("bank_statement", "HDFC", 3, FALSE, <<Fund(1, 1), Fund2(None, 1)>>)

SeedOf(d, h) == [k \in DOMAIN Stated(d, h) |-> Stated(d, h)[k]]
Manual == [value |-> 3, currency |-> "INR", asOf |-> 2, issued |-> None, source |-> None]
NoPositions == [k \in {} |-> Manual]
FundKey == AccountName("mutual_fund_cas", Fund2(1, 1))

MCSeeds == {NoPositions,
            (FundKey :> Manual),
            SeedOf(Cams2, Fund2(8, 2)),
            SeedOf(Cdsl1, Fund2(6, 1)),
            SeedOf(Demat1, Share(10, 1, None)) @@ SeedOf(Cams1, Fund(1, 1))}

MCDocuments == {Cams1, Cams3, Cams3Rev, Cdsl1, Cdsl3, Amc2, Demat1, Demat2, Epf1,
                Bank2, Loan1, Unknown, NoIssue, Partial, Locked, ApiError, NoValue,
                Silent(Cams1), Silent(Cams3), Silent(Cams3Rev), Tie3}
RegistryDocuments == {Cams1, Cdsl3, Demat1, Demat2}
CasDocuments == {Cams1, Cams3, Cdsl1, Amc2}
=============================================================================
