------------------------- MODULE IngestRequirements -------------------------
(***************************************************************************)
(* What one call of ingest() owes its caller, over the whole batch: the    *)
(* statements of IngestPipeline are about one file or one holding, these   *)
(* relate the working positions to everything read so far.                 *)
(***************************************************************************)
EXTENDS IngestPipeline

(* Evidence: what the seed and the holdings merged so far say of a key.    *)
Taken(i, j) ==
    /\ i \in DOMAIN batch /\ Accepted(batch[i]) /\ j \in DOMAIN batch[i].holdings
    /\ i < fileNo \/ (i = fileNo /\ pc # "file" /\ j < holdingNo)

InSeed(k, p) == k \in DOMAIN seed /\ p = seed[k]
StatedAt(i, j, k, p) ==
    LET stated == Stated(batch[i], batch[i].holdings[j])
    IN  Taken(i, j) /\ k \in DOMAIN stated /\ p = stated[k]
Evidence(k, p) ==
    InSeed(k, p) \/ \E i \in DOMAIN batch : \E j \in DOMAIN batch[i].holdings :
                        StatedAt(i, j, k, p)

(* The files that have had their say about redemption.                     *)
Heard(i) == i \in DOMAIN batch /\ i < fileNo /\ Accepted(batch[i])
Redeemed(k, p) == \E i \in DOMAIN batch :
    Heard(i) /\ Redeems(batch[i]) /\ RedeemedBy(batch[i], k, p)

(* Keys and statements to quantify over.                                   *)
Candidates == {<<k, seed[k]>> : k \in DOMAIN seed} \cup
    UNION {UNION {LET stated == Stated(batch[i], batch[i].holdings[j])
                  IN  {<<k, stated[k]>> : k \in DOMAIN stated} :
                  j \in {n \in DOMAIN batch[i].holdings : Taken(i, n)}} :
           i \in DOMAIN batch}

AtLeast(p, q) == ~Newer(q, p)

TypeOK ==
    /\ batch \in Seq(Documents) /\ seed \in Seeds
    /\ positions \in [DOMAIN positions -> Position]
    /\ pc \in {"file", "holdings", "done", "raised"}
    /\ fileNo \in 1..Len(batch) + 1 /\ holdingNo \in Nat \ {0}
    /\ pc = "holdings" => fileNo <= Len(batch) /\ Accepted(batch[fileNo])

(* Every stored position is, whole, what the seed or one holding of an     *)
(* accepted file stated for that very key: merging never mixes two         *)
(* statements, and a file that was set aside contributes nothing           *)
(* (pipeline.py:193-311).                                                  *)
EveryPositionIsEvidence == \A k \in DOMAIN positions : Evidence(k, positions[k])

(* Whatever has been stated for a key, the key now holds something at      *)
(* least as recent, or else a statement at least as recent as it was       *)
(* redeemed by an exhaustive document of its source: an older statement    *)
(* never displaces a newer one, and silence removes only what it may       *)
(* (_should_replace, _document_supersedes, pipeline.py:125-157, 304-311).  *)
CurrentUnlessRedeemed ==
    \A c \in Candidates :
        \/ c[1] \in DOMAIN positions /\ AtLeast(positions[c[1]], c[2])
        \/ \E q \in Candidates : /\ q[1] = c[1] /\ AtLeast(q[2], c[2])
                                 /\ Redeemed(q[1], q[2])

(* A position that an exhaustive statement already read has redeemed is    *)
(* only there because a file read after that statement stated it again:    *)
(* nothing survives its redemption (pipeline.py:304-311).                  *)
RedemptionLeavesNothing ==
    \A k \in DOMAIN positions : \A i \in DOMAIN batch :
        Heard(i) /\ Redeems(batch[i]) /\ RedeemedBy(batch[i], k, positions[k]) =>
            \E n \in DOMAIN batch : \E j \in DOMAIN batch[n].holdings :
                n > i /\ StatedAt(n, j, k, positions[k])

(* A seeded position whose source issued none of the batch's exhaustive    *)
(* statements is never dropped: a consolidated statement of one aggregator *)
(* says nothing about another's holdings, unless a document of the batch   *)
(* has made the holding its own (README.md of backend/ingestion, "Source-  *)
(* scoped completeness").                                                  *)
OtherSourcesSurvive ==
    \A k \in DOMAIN seed :
        (\A i \in DOMAIN batch : Accepted(batch[i]) =>
            k \notin Mentioned(batch[i]) /\
            (Redeems(batch[i]) => batch[i].source # seed[k].source))
        => k \in DOMAIN positions /\ positions[k] = seed[k]

(* Returned positions are those of the statements taken whole, in upload   *)
(* order: the files that are set aside, and stopping between two holdings  *)
(* of a file, leave no trace (pipeline.py:193-311).                        *)
ReturnsTheFold ==
    pc = "done" => result.positions = FoldLeft(Ingested, seed, batch)

(* "Upload order never matters" (pipeline.py:129-131): the same files in   *)
(* another order return the same positions.                                *)
Reorderings(files) ==
    {[i \in DOMAIN files |-> files[p[i]]] : p \in Bijection(DOMAIN files, DOMAIN files)}
UploadOrderNeverMatters ==
    pc = "done" => \A files \in Reorderings(batch) :
                       FoldLeft(Ingested, seed, files) = result.positions

(* What is true of it: the order only matters to a batch in which some     *)
(* document may redeem, or in which two statements of a key tie on         *)
(* (as_of, doc_issued_at): the rest is decided by supersession alone       *)
(* (_should_replace, pipeline.py:125-143).                                 *)
Tie(c, d) == c[1] = d[1] /\ c # d /\ AtLeast(c[2], d[2]) /\ AtLeast(d[2], c[2])
OrderOnlyMattersToRedemption ==
    (/\ \A i \in DOMAIN batch : Accepted(batch[i]) => ~Redeems(batch[i])
     /\ ~\E c, d \in Candidates : Tie(c, d)) => UploadOrderNeverMatters

(* Ingesting the same files a second time changes nothing                  *)
(* (test_second_ingest_is_noop, backend/tests/evals/                       *)
(* test_ledger_properties.py:33-38), redemptions included, when the first  *)
(* call started from an empty ledger and no two sources stated different   *)
(* things of a key with the same (as_of, doc_issued_at): which of those is *)
(* first depends on what was redeemed before.                              *)
RivalTie(c, d) == Tie(c, d) /\ c[2].source # d[2].source
SecondIngestIsNoop ==
    (/\ pc = "done" /\ DOMAIN seed = {}
     /\ ~\E c, d \in Candidates : RivalTie(c, d)) =>
        FoldLeft(Ingested, result.positions, batch) = result.positions

(* The exhaustive statements of a batch only redeem holdings of a kind     *)
(* they list (README.md of backend/ingestion, "silence about a position it *)
(* would have mentioned").  Kinds are the second and third segments of the *)
(* account name; a CDSL mutual-fund statement lists no shares.             *)
KindsListedBy(d) ==
    CASE d.type = "mutual_fund_cas" -> {<<"Investment", "MutualFund">>}
      [] d.type = "demat_cas" ->
            {<<"Investment", kind>> : kind \in {"equity", "reit", "invit", "etf"}}
      [] d.type = "epf_passbook" -> {<<"Retirement", "EPF">>, <<"Retirement", "EPS">>}
      [] d.type = "nps_statement" -> {<<"Retirement", "NPS">>}
      [] OTHER -> {}
SilenceOnlyAboutListedKinds ==
    \A k \in DOMAIN seed \ DOMAIN positions :
        \E i \in DOMAIN batch :
            /\ Accepted(batch[i]) /\ Redeems(batch[i])
            /\ <<k[2], k[3]>> \in KindsListedBy(batch[i])
=============================================================================
