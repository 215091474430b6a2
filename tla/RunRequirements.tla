--------------------------- MODULE RunRequirements ---------------------------
(***************************************************************************)
(* What ingestion runs owe the user's ledger, across concurrent runs, the  *)
(* user's own changes, failures and restarts.                              *)
(***************************************************************************)
EXTENDS IngestionRun

Owner(b) == IF balances[b].document = None THEN None ELSE balances[b].document.run

TypeOK ==
    /\ \A n \in DOMAIN accounts : accounts[n].active \in BOOLEAN
                                  /\ accounts[n].by \in Runs \cup {None}
    /\ \A b \in DOMAIN balances : b[1] \in DOMAIN accounts /\ b[2] \in Int
                                  /\ balances[b].amount \in Int
    /\ status \in [Runs -> Statuses \cup {None}]
    /\ pc \in [Runs -> Over \cup InTransaction \cup {"queued", "failing", "cleaning"}]
    /\ \A r \in Runs : todo[r] \subseteq DOMAIN result[r]
    /\ tmpdir \in [Runs -> BOOLEAN]

(* A run that has not succeeded has changed nothing: no account and no     *)
(* balance row in the ledger comes from it, whatever failed half-way       *)
(* through its positions (background.py:24-49).                            *)
OnlySucceededRunsWrite ==
    /\ \A n \in DOMAIN accounts : accounts[n].by # None => status[accounts[n].by] = "SUCCEEDED"
    /\ \A b \in DOMAIN balances : Owner(b) \in Runs => status[Owner(b)] = "SUCCEEDED"

(* A run that succeeds publishes its whole result: every position of a     *)
(* document is in the ledger at its date, under a document of the run, and *)
(* with the stated amount.  Only a row whose amount somebody else changed  *)
(* between this run's select and its write may keep the amount it has:     *)
(* SQLAlchemy sends the columns that differ from what was selected, and    *)
(* may find nothing to send but the document (persistence.py:66-103,       *)
(* repository.py:214-217, background.py:30-46).                            *)
SuccessPublishesResult ==
    [][\A r \in Runs : (status[r] # "SUCCEEDED" /\ status'[r] = "SUCCEEDED") =>
          \A n \in DOMAIN result[r] :
              LET p == result[r][n]  b == <<n, p.asOf>>
              IN  p.issued # None =>
                  /\ b \in DOMAIN balances'
                  /\ balances'[b].document = DocumentOf(r, p)
                  /\ \/ balances'[b].amount = p.value
                     \/ /\ b \in overtaken[r] \cap DOMAIN balances
                        /\ balances'[b].amount = balances[b].amount]_vars

IssueOf(b) == PositionOf(balances[b], b[2]).issued

(* A statement never replaces a later-issued one for the same account and  *)
(* date ("newer doc_issued_at wins, regardless of which document was       *)
(* uploaded/processed first", pipeline.py:126-129) when a run commits on   *)
(* the very ledger it loaded, for accounts still open.  Neither condition  *)
(* can be dropped: a run writes back whatever it loaded, over what another *)
(* run committed meanwhile, and writes closed accounts it did not load     *)
(* (persistence.py:27-103).                                                *)
NewestIssueWinsUnlessOvertaken ==
    [][\A r \in Runs :
          (status[r] # "SUCCEEDED" /\ status'[r] = "SUCCEEDED" /\ current[r] = Loaded) =>
              \A b \in DOMAIN balances :
                  accounts[b[1]].active => ~IssuedLater(IssueOf(b), IssueOf(b)')]_vars

(* "Silence about a position it would have mentioned means that position   *)
(* is gone" (backend/ingestion/README.md:52-53): what a successful run     *)
(* found redeemed is not loaded again by the next one.                     *)
RedeemedIsGone ==
    [][\A r \in Runs : (status[r] # "SUCCEEDED" /\ status'[r] = "SUCCEEDED") =>
          \A n \in DOMAIN current[r] \ DOMAIN result[r] : n \notin DOMAIN Loaded']_vars

(* Every upload that is accepted ends and its files are removed, unless    *)
(* the server stops meanwhile: also when ingest() or the database fails,   *)
(* and no two runs wait for each other's rows for ever.  And every run     *)
(* that ends says so, SUCCEEDED or FAILED, unless the database fails once  *)
(* more, when the run is marked as failed (background.py:20-55).           *)
EveryRunEnds ==
    /\ \A r \in Runs : (status[r] = "PENDING") ~> (pc[r] = "lost" \/ (pc[r] = "ended" /\ ~tmpdir[r]))
    /\ [][\A r \in Runs : pc[r] # "cleaning" /\ pc'[r] = "cleaning" =>
             status'[r] \in Terminal \/ (pc[r] = "failing" /\ faults' # faults)]_vars
=============================================================================
