--------------------------- MODULE IngestPipeline ---------------------------
(***************************************************************************)
(* One call of ingest() (backend/ingestion/pipeline.py): the files of one  *)
(* upload are read in order, each one is either set aside with a warning   *)
(* or its holdings are merged, one by one, into the positions loaded from  *)
(* the ledger; then a consolidated statement deletes the positions of its  *)
(* own source that it no longer lists.                                     *)
(***************************************************************************)
EXTENDS Statements, FiniteSetsExt

CONSTANTS
    Seeds,              \* the positions a call may start from
    MaxFiles,           \* bound: files in one upload
    ReportingCurrency

ASSUME BatchAssumption == MaxFiles \in Nat
ASSUME SeedsAssumption ==
    \A s \in Seeds : s \in [DOMAIN s -> Position]

VARIABLES
    batch,      \* the uploaded files, in upload order
    seed,       \* the positions the call was given
    positions,  \* the working copy
    warnings,   \* <<file, reason>> pairs
    pc,         \* "file", "holdings", "done" or "raised"
    fileNo,     \* the file at hand
    holdingNo,  \* the holding at hand
    result      \* what the call returned

vars == <<batch, seed, positions, warnings, pc, fileNo, holdingNo, result>>

File == batch[fileNo]

Init ==
    /\ batch \in UNION {[1..n -> Documents] : n \in 1..MaxFiles}
    /\ seed \in Seeds
    /\ positions = seed
    /\ warnings = {}
    /\ pc = "file" /\ fileNo = 1 /\ holdingNo = 1
    /\ result = None

SetAside_EndsBatch ==
    /\ pc = "file" /\ fileNo <= Len(batch)
    /\ Verdict(File) \notin {"accepted", "error"}
    /\ warnings' = warnings \cup {<<fileNo, Verdict(File)>>}
    /\ fileNo' = Len(batch) + 1
    /\ UNCHANGED <<batch, seed, positions, pc, holdingNo, result>>
SetAside ==
    /\ pc = "file" /\ fileNo <= Len(batch)
    /\ Verdict(File) \notin {"accepted", "error"}
    /\ warnings' = warnings \cup {<<fileNo, Verdict(File)>>}
    /\ fileNo' = fileNo + 1
    /\ UNCHANGED <<batch, seed, positions, pc, holdingNo, result>>

Accept ==
    /\ pc = "file" /\ fileNo <= Len(batch)
    /\ Accepted(File)
    /\ warnings' = warnings \cup (IF File.softWarning THEN {<<fileNo, "soft">>} ELSE {})
    /\ pc' = "holdings" /\ holdingNo' = 1
    /\ UNCHANGED <<batch, seed, positions, fileNo, result>>

TakeHolding ==
    /\ pc = "holdings" /\ holdingNo <= Len(File.holdings)
    /\ ~Raises(File, File.holdings[holdingNo])
    /\ positions' = Merge(positions, Stated(File, File.holdings[holdingNo]))
    /\ holdingNo' = holdingNo + 1
    /\ UNCHANGED <<batch, seed, warnings, pc, fileNo, result>>

EndFile_SeededOnly ==
    /\ pc = "holdings" /\ holdingNo > Len(File.holdings)
    /\ LET kept == {k \in DOMAIN positions :
                       ~(k \in DOMAIN seed /\ Redeems(File)
                            /\ RedeemedBy(File, k, positions[k]))}
       IN  positions' = [k \in kept |-> positions[k]]
    /\ pc' = "file" /\ fileNo' = fileNo + 1
    /\ UNCHANGED <<batch, seed, warnings, holdingNo, result>>
(* After the last holding: an eligible exhaustive statement drops what it  *)
(* no longer lists, any other document drops nothing.                      *)
EndFile ==
    /\ pc = "holdings" /\ holdingNo > Len(File.holdings)
    /\ LET kept == {k \in DOMAIN positions :
                       ~(Redeems(File) /\ RedeemedBy(File, k, positions[k]))}
       IN  positions' = [k \in kept |-> positions[k]]
    /\ pc' = "file" /\ fileNo' = fileNo + 1
    /\ UNCHANGED <<batch, seed, warnings, holdingNo, result>>

(* Any other exception leaves ingest(); nothing of the batch is returned.  *)
Raise ==
    /\ \/ pc = "file" /\ fileNo <= Len(batch) /\ Verdict(File) = "error"
       \/ /\ pc = "holdings" /\ holdingNo <= Len(File.holdings)
          /\ Raises(File, File.holdings[holdingNo])
    /\ pc' = "raised"
    /\ UNCHANGED <<batch, seed, positions, warnings, fileNo, holdingNo, result>>

Total(ps) ==
    MapThenSumSet(LAMBDA k : ps[k].value,
                  {k \in DOMAIN ps : ps[k].currency = ReportingCurrency})
LatestAsOf(ps) ==
    IF DOMAIN ps = {} THEN None ELSE Max({ps[k].asOf : k \in DOMAIN ps})

Return ==
    /\ pc = "file" /\ fileNo > Len(batch)
    /\ result' = [positions |-> positions, total |-> Total(positions),
                  asOf |-> LatestAsOf(positions), warnings |-> warnings]
    /\ pc' = "done"
    /\ UNCHANGED <<batch, seed, positions, warnings, fileNo, holdingNo>>

Next == SetAside \/ Accept \/ TakeHolding \/ EndFile \/ Raise \/ Return

Spec == Init /\ [][Next]_vars
=============================================================================
