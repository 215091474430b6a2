----------------------------- MODULE Statements -----------------------------
(***************************************************************************)
(* What a statement says and what it does to a set of positions: the pure  *)
(* part of backend/ingestion/pipeline.py.  IngestPipeline runs it file by  *)
(* file and holding by holding, IngestionRun uses it for a whole upload.   *)
(*                                                                         *)
(* A file is a member of Documents: what reading it yields.  Its text, its *)
(* password and the parser or model that read it are left out; `read` is   *)
(* the outcome of route_extract.  Dates (asOf) count days, instants        *)
(* (issued) count ticks of the day, a position key is the sequence of the  *)
(* account name's segments, amounts are integers; units and NAV are left   *)
(* out.                                                                    *)
(***************************************************************************)
EXTENDS Integers, Sequences, FiniteSets, SequencesExt

CONSTANTS
    Documents,          \* what the uploaded files may contain
    Sources,            \* statement issuers and aggregators
    Names,              \* institutions, identifiers, scheme names
    None,               \* Python's None
    TicksPerDay         \* instants in a day

ASSUME NoneAssumption == None \notin Int
ASSUME TicksAssumption == TicksPerDay \in Nat \ {0}

Currencies == {"INR", "USD"}
EligibleTypes ==
    {"mutual_fund_cas", "demat_cas", "epf_passbook", "nps_statement", "bank_statement"}
SupportedTypes == EligibleTypes \cup
    {"loan_statement", "brokerage_statement", "sgb_confirmation",
     "deposit_statement", "insurance_policy"}
Unreadable == {"not_decrypted", "not_a_pdf", "truncated"}

Holding == [institution: Names \cup {None}, identifier: Names,
            name: Names \cup {None}, kind: STRING \cup {None},
            value: Int \cup {None},           \* EPF: employee balance
            employer: Int \cup {None}, pension: Int \cup {None},
            currency: Currencies, asOf: Int]

Document == [read: Unreadable \cup {"facts", "error"}, complete: BOOLEAN,
             type: SupportedTypes \cup {"unrecognized", "unsupported"},
             issued: Int \cup {None}, source: Sources \cup {None},
             exhaustive: BOOLEAN, softWarning: BOOLEAN, holdings: Seq(Holding)]

Position == [value: Int, currency: Currencies, asOf: Int,
             issued: Int \cup {None}, source: Sources \cup {None}]

ASSUME DocumentsAssumption == Documents \subseteq Document
-----------------------------------------------------------------------------
(* The account name of a holding, as its segments.                         *)
Join(segments) == SelectSeq(segments, LAMBDA s : s # None)

AccountName(type, h) ==
    CASE type = "bank_statement" /\ h.kind = "ppf" ->
            Join(<<"Assets", "Retirement", "PPF", h.institution, h.identifier>>)
      [] type = "bank_statement" /\ h.kind # "ppf" ->
            Join(<<"Assets", "Bank", h.institution, h.identifier>>)
      [] type = "nps_statement" ->
            <<"Assets", "Retirement", "NPS", h.identifier, h.name>>
      [] type = "mutual_fund_cas" ->
            Join(<<"Assets", "Investment", "MutualFund",
                   h.institution, h.identifier, h.name>>)
      [] type = "loan_statement" ->
            Join(<<"Liabilities", "Loan", h.institution, h.identifier>>)
      [] type = "brokerage_statement" ->
            <<"Assets", "Investment", "Equity", "US", h.identifier>>
      [] type = "demat_cas" ->
            Join(<<"Assets", "Investment", h.kind, h.identifier, h.name>>)
      [] type = "sgb_confirmation" -> <<"Assets", "Investment", "SGB", h.identifier>>
      [] type = "deposit_statement" ->
            Join(<<"Assets", "Deposit", h.kind, h.institution, h.identifier>>)
      [] type = "insurance_policy" ->
            Join(<<"Assets", "Insurance", "ULIP", h.institution, h.identifier>>)

EpfName(h) == <<"Assets", "Retirement", "EPF", h.identifier>>
EpsName(h) == <<"Assets", "Retirement", "EPS", h.identifier>>

(* Holdings whose amounts or kind make the code raise instead of yielding  *)
(* a Position; the exception ends the whole call.                          *)
Raises_ValueUnchecked(d, h) == d.type = "unsupported"
Raises(d, h) ==
    \/ d.type = "unsupported"
    \/ h.value = None
    \/ d.type = "epf_passbook" /\ (h.employer = None \/ h.pension = None)
    \/ d.type = "demat_cas" /\ h.kind \notin {"equity", "reit", "invit", "etf"}
    \/ d.type = "deposit_statement" /\ h.kind \notin {"fd", "rd"}

(* The positions one holding states, by key: two for an EPF passbook, one  *)
(* otherwise; a loan's outstanding principal is stored negated.            *)
Stated(d, h) ==
    LET At(amount) == [value |-> amount, currency |-> h.currency, asOf |-> h.asOf,
                       issued |-> d.issued, source |-> d.source]
    IN  IF d.type = "epf_passbook"
        THEN [k \in {EpfName(h), EpsName(h)} |->
                 At(IF k = EpfName(h) THEN h.value + h.employer ELSE h.pension)]
        ELSE [k \in {AccountName(d.type, h)} |->
                 At(IF d.type = "loan_statement" THEN -h.value ELSE h.value)]

Mentioned(d) == UNION {DOMAIN Stated(d, d.holdings[j]) : j \in DOMAIN d.holdings}

(* The supersession order: the later as_of, then the later issue.          *)
IssuedLater(a, b) == a # None /\ (b = None \/ a > b)
Newer(p, q) == p.asOf > q.asOf \/ (p.asOf = q.asOf /\ IssuedLater(p.issued, q.issued))
ShouldReplace_AsOfOnly(ps, k, p) == k \notin DOMAIN ps \/ p.asOf >= ps[k].asOf
ShouldReplace(ps, k, p) == k \notin DOMAIN ps \/ Newer(p, ps[k])

Merge_KeepsProvenance(ps, new) ==
    [k \in DOMAIN ps \cup DOMAIN new |->
        IF k \notin DOMAIN new THEN ps[k]
        ELSE IF k \notin DOMAIN ps THEN new[k]
        ELSE IF Newer(new[k], ps[k]) THEN [new[k] EXCEPT !.source = ps[k].source]
        ELSE ps[k]]
Merge_Accumulates(ps, new) ==
    [k \in DOMAIN ps \cup DOMAIN new |->
        IF k \notin DOMAIN new THEN ps[k]
        ELSE IF k \notin DOMAIN ps THEN new[k]
        ELSE [new[k] EXCEPT !.value = @ + ps[k].value]]
Merge(ps, new) ==
    [k \in DOMAIN ps \cup DOMAIN new |->
        IF k \in DOMAIN new /\ ShouldReplace(ps, k, new[k]) THEN new[k] ELSE ps[k]]

(* What a document's silence about a position means.                       *)
Redeems(d) == d.exhaustive /\ d.type \in EligibleTypes
Supersedes(d, p) ==
    d.issued >= (IF p.issued = None THEN p.asOf * TicksPerDay ELSE p.issued)
RedeemedBy_AnySource(d, k, p) == k \notin Mentioned(d) /\ Supersedes(d, p)
RedeemedBy(d, k, p) ==
    /\ k \notin Mentioned(d)
    /\ p.source = d.source
    /\ Supersedes(d, p)

(* Why a file is set aside, in the order the code asks.                    *)
Verdict(d) ==
    IF d.read # "facts" THEN d.read
    ELSE IF ~d.complete THEN "incomplete"
    ELSE IF d.type = "unrecognized" THEN "unclassified"
    ELSE IF d.issued = None THEN "incomplete"
    ELSE "accepted"
Accepted(d) == Verdict(d) = "accepted"

(* A whole statement at once, when no holding of it raises.                *)
Merged(ps, d) == FoldLeft(LAMBDA qs, h : Merge(qs, Stated(d, h)), ps, d.holdings)
Ingested(ps, d) ==
    LET qs == Merged(ps, d)
        kept == {k \in DOMAIN qs : ~(Redeems(d) /\ RedeemedBy(d, k, qs[k]))}
    IN  IF Accepted(d) THEN [k \in kept |-> qs[k]] ELSE ps
=============================================================================
