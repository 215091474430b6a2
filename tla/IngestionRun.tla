---------------------------- MODULE IngestionRun ----------------------------
(***************************************************************************)
(* The life of ingestion runs against the accounts and balances tables     *)
(* (backend/ingestion/background.py, persistence.py, the repositories of   *)
(* backend/database/repository.py), at READ COMMITTED: each run is a task  *)
(* that marks itself PROCESSING, loads the user's latest balances, ingests *)
(* its statement in a thread, writes every resulting position back row by  *)
(* row and marks itself SUCCEEDED in the same transaction; any exception   *)
(* rolls that back and marks it FAILED.  Runs interleave at every await,   *)
(* with each other and with the user's own changes; the server may die.    *)
(*                                                                         *)
(* One user, one statement per upload, one currency.  What a transaction   *)
(* has written is in `staged` until its commit, and locked: another        *)
(* transaction that writes the same account name or balance row waits.     *)
(***************************************************************************)
EXTENDS Statements

CONSTANTS
    Runs,
    UserActs,        \* what else the user does: "set", "delete", "close"
    UserAmount,      \* an amount no statement states
    MaxUserActs,     \* bound: the user's changes in a behaviour
    MaxFaults,       \* bound: database failures and server crashes
    InitialBalances  \* the balances table when the first run starts

ASSUME BoundAssumption == MaxUserActs \in Nat /\ MaxFaults \in Nat
Statuses == {"PENDING", "PROCESSING", "SUCCEEDED", "FAILED"}

(* What a balance row holds: its amount, and the document of the run that  *)
(* wrote it, unless the user did.                                          *)
Records == [run: Runs \cup {None}, issued: Int, source: Sources \cup {None}]
Rows == [amount: Int, document: Records \cup {None}]

ASSUME RunAssumption == None \notin Runs \cup Records \cup Statuses

(* The rows that are there at first come from no run of the behaviour.     *)
ASSUME LedgerAssumption ==
    /\ UserAmount \in Int
    /\ IsFiniteSet(DOMAIN InitialBalances) /\ InitialBalances \in [DOMAIN InitialBalances -> Rows]
    /\ \A b \in DOMAIN InitialBalances :
         /\ b = <<b[1], b[2]>> /\ b[2] \in Int
         /\ InitialBalances[b].document # None => InitialBalances[b].document.run = None

VARIABLES
    accounts,   \* committed: [name -> [active, by]], by: what created it
    balances,   \* committed: [<<name, date>> -> [amount, document]]
    status,     \* committed status of each run
    pc,         \* where each run's task is
    statement,  \* the statement uploaded with it
    current,    \* the positions it loaded
    result,     \* the positions ingest() returned
    todo,       \* result keys not yet written
    key,        \* the result key at hand
    seen,       \* the balance row selected for it, or None
    staged,     \* what its transaction has written: [accounts, balances]
    overtaken,  \* bookkeeping: its rows whose amount somebody changed
                \* between its select and its write
    tmpdir,     \* its temporary directory exists
    userActs,   \* how many changes the user has made
    faults      \* how often the database failed or the server crashed

db == <<accounts, balances>>
task == <<statement, current, result, todo, key, seen, staged, overtaken>>
local == <<current, result, todo, key, seen, staged, overtaken>>
vars == <<db, status, pc, task, tmpdir, userActs, faults>>

NoRows == [k \in {} |-> None]
Nothing == [accounts |-> {}, balances |-> NoRows]
Over == {"none", "ended", "lost"}
Terminal == {"SUCCEEDED", "FAILED"}

Init ==
    /\ balances = InitialBalances
    /\ accounts = [n \in {b[1] : b \in DOMAIN balances} |-> [active |-> TRUE, by |-> None]]
    /\ status = [r \in Runs |-> None]
    /\ pc = [r \in Runs |-> "none"]
    /\ statement = [r \in Runs |-> None]
    /\ current = [r \in Runs |-> NoRows] /\ result = [r \in Runs |-> NoRows]
    /\ todo = [r \in Runs |-> {}]
    /\ key = [r \in Runs |-> None] /\ seen = [r \in Runs |-> None]
    /\ staged = [r \in Runs |-> Nothing]
    /\ overtaken = [r \in Runs |-> {}]
    /\ tmpdir = [r \in Runs |-> FALSE]
    /\ userActs = 0 /\ faults = 0

To(r, label) == pc' = [pc EXCEPT ![r] = label]
Put(f, k, v) == [x \in DOMAIN f \cup {k} |-> IF x = k THEN v ELSE f[x]]
Overlay(f, g) == [x \in DOMAIN f \cup DOMAIN g |-> IF x \in DOMAIN g THEN g[x] ELSE f[x]]
Others(r) == Runs \ {r}
NameLocked(r, n) == \E s \in Others(r) : n \in staged[s].accounts
RowLocked(r, b) == \E s \in Others(r) : b \in DOMAIN staged[s].balances

-----------------------------------------------------------------------------
(* upload_statements: the run is committed PENDING, the task is scheduled. *)
Upload(r) ==
    /\ status[r] = None
    /\ \E d \in Documents : statement' = [statement EXCEPT ![r] = d]
    /\ status' = [status EXCEPT ![r] = "PENDING"]
    /\ tmpdir' = [tmpdir EXCEPT ![r] = TRUE]
    /\ To(r, "queued")
    /\ UNCHANGED <<db, local, userActs, faults>>

MarkProcessing(r) ==
    /\ pc[r] = "queued"
    /\ status' = [status EXCEPT ![r] = "PROCESSING"]
    /\ To(r, "loading")
    /\ UNCHANGED <<db, task, tmpdir, userActs, faults>>

(* load_current_networth: per active account the row of the latest date.   *)
Dates(n) == {b[2] : b \in {c \in DOMAIN balances : c[1] = n}}
Latest(n) == CHOOSE d \in Dates(n) : \A e \in Dates(n) : d >= e
PositionOf(row, date) ==
    [value |-> row.amount, currency |-> "INR", asOf |-> date,
     issued |-> IF row.document = None THEN None ELSE row.document.issued,
     source |-> IF row.document = None THEN None ELSE row.document.source]
Loaded ==
    [n \in {m \in DOMAIN accounts : accounts[m].active /\ Dates(m) # {}} |->
        PositionOf(balances[<<n, Latest(n)>>], Latest(n))]

Load(r) ==
    /\ pc[r] = "loading"
    /\ current' = [current EXCEPT ![r] = Loaded]
    /\ To(r, "ingesting")
    /\ UNCHANGED <<db, status, statement, result, todo, key, seen, staged, overtaken, tmpdir, userActs, faults>>

(* ingest() of the one statement; IngestPipeline takes it step by step.    *)
IngestRaises(d) ==
    \/ Verdict(d) = "error"
    \/ Accepted(d) /\ \E j \in DOMAIN d.holdings : Raises(d, d.holdings[j])

Ingest(r) ==
    /\ pc[r] = "ingesting" /\ ~IngestRaises(statement[r])
    /\ result' = [result EXCEPT ![r] = Ingested(current[r], statement[r])]
    /\ todo' = [todo EXCEPT ![r] = DOMAIN Ingested(current[r], statement[r])]
    /\ To(r, "persisting")
    /\ UNCHANGED <<db, status, statement, current, key, seen, staged, overtaken, tmpdir, userActs, faults>>

(* persist_networth, one position at a time: find the account ...          *)
FindAccount_NeverCreates(r) ==
    /\ pc[r] = "persisting"
    /\ \E k \in todo[r] : key' = [key EXCEPT ![r] = k]
    /\ To(r, "selecting")
    /\ UNCHANGED <<db, status, statement, current, result, todo, seen, staged, overtaken, tmpdir, userActs, faults>>
FindAccount(r) ==
    /\ pc[r] = "persisting"
    /\ \E k \in todo[r] :
        /\ key' = [key EXCEPT ![r] = k]
        /\ To(r, IF k \in DOMAIN accounts \cup staged[r].accounts
                 THEN "selecting" ELSE "creating")
    /\ UNCHANGED <<db, status, statement, current, result, todo, seen, staged, overtaken, tmpdir, userActs, faults>>

(* ... or create it ...                                                    *)
CreateAccount(r) ==
    /\ pc[r] = "creating"
    /\ ~NameLocked(r, key[r]) /\ key[r] \notin DOMAIN accounts
    /\ staged' = [staged EXCEPT ![r].accounts = @ \cup {key[r]}]
    /\ To(r, "selecting")
    /\ UNCHANGED <<db, status, statement, current, result, todo, key, seen, overtaken, tmpdir, userActs, faults>>

(* ... select the balance of its as_of date ...                            *)
Row(r) == <<key[r], result[r][key[r]].asOf>>
SelectBalance(r) ==
    /\ pc[r] = "selecting"
    /\ seen' = [seen EXCEPT ![r] =
                   IF Row(r) \in DOMAIN balances THEN balances[Row(r)] ELSE None]
    /\ To(r, "writing")
    /\ UNCHANGED <<db, status, statement, current, result, todo, key, staged, overtaken, tmpdir, userActs, faults>>

(* ... and insert or update it.  A position with an issue instant is       *)
(* recorded under a document of this run; only changed columns are sent.   *)
DocumentOf(r, p) ==
    IF p.issued = None THEN None
    ELSE [run |-> r, issued |-> p.issued, source |-> p.source]
Changed(r, p) ==
    IF seen[r] = None THEN TRUE
    ELSE \/ p.value # seen[r].amount
         \/ p.issued # None /\ DocumentOf(r, p) # seen[r].document
Updated_DocumentOnly(r, p, row) ==
    [amount |-> row.amount,
     document |-> IF p.issued = None THEN row.document ELSE DocumentOf(r, p)]
Updated(r, p, row) ==
    [amount |-> IF p.value # seen[r].amount THEN p.value ELSE row.amount,
     document |-> IF p.issued = None THEN row.document ELSE DocumentOf(r, p)]

ChangedSinceSelect(r) ==
    {b \in {Row(r)} \cap DOMAIN balances :
        seen[r] # None /\ balances[b].amount # seen[r].amount}

Written(r) ==
    /\ todo' = [todo EXCEPT ![r] = @ \ {key[r]}]
    /\ key' = [key EXCEPT ![r] = None] /\ seen' = [seen EXCEPT ![r] = None]
    /\ To(r, "persisting")
    /\ UNCHANGED <<db, status, statement, current, result, tmpdir, userActs, faults>>

WriteBalance_CommitsEach(r) ==
    /\ pc[r] = "writing"
    /\ balances' = Put(balances, Row(r), [amount |-> result[r][key[r]].value,
                                         document |-> DocumentOf(r, result[r][key[r]])])
    /\ accounts' = Overlay(accounts, [n \in staged[r].accounts |-> [active |-> TRUE, by |-> r]])
    /\ todo' = [todo EXCEPT ![r] = @ \ {key[r]}]
    /\ key' = [key EXCEPT ![r] = None] /\ seen' = [seen EXCEPT ![r] = None]
    /\ To(r, "persisting")
    /\ UNCHANGED <<status, statement, current, result, staged, overtaken, tmpdir, userActs, faults>>
WriteBalance(r) ==
    /\ pc[r] = "writing"
    /\ LET p == result[r][key[r]]
           put(row) == staged' = [staged EXCEPT ![r].balances = Put(@, Row(r), row)]
       IN  IF ~Changed(r, p)
           THEN UNCHANGED staged
           ELSE /\ ~RowLocked(r, Row(r))
                /\ (seen[r] = None) <=> (Row(r) \notin DOMAIN balances)
                /\ IF seen[r] = None
                   THEN put([amount |-> p.value, document |-> DocumentOf(r, p)])
                   ELSE put(Updated(r, p, balances[Row(r)]))
    /\ overtaken' = [overtaken EXCEPT ![r] = @ \cup ChangedSinceSelect(r)]
    /\ Written(r)

(* Leaving the transaction, the task's local variables go.                 *)
Leave(r) ==
    /\ current' = [current EXCEPT ![r] = NoRows] /\ result' = [result EXCEPT ![r] = NoRows]
    /\ todo' = [todo EXCEPT ![r] = {}]
    /\ key' = [key EXCEPT ![r] = None] /\ seen' = [seen EXCEPT ![r] = None]
    /\ staged' = [staged EXCEPT ![r] = Nothing]
    /\ overtaken' = [overtaken EXCEPT ![r] = {}]

(* mark_succeeded and the commit of the whole transaction.                 *)
CreatedBy(r) == [n \in staged[r].accounts |-> [active |-> TRUE, by |-> r]]
Succeed(r) ==
    /\ pc[r] = "persisting" /\ todo[r] = {}
    /\ accounts' = Overlay(accounts, CreatedBy(r))
    /\ balances' = Overlay(balances, staged[r].balances)
    /\ status' = [status EXCEPT ![r] = "SUCCEEDED"]
    /\ Leave(r)
    /\ To(r, "cleaning")
    /\ UNCHANGED <<statement, tmpdir, userActs, faults>>

-----------------------------------------------------------------------------
(* What raises inside the second transaction.                              *)
StatementFault_Uncaught(r) == FALSE
StatementFault(r) == pc[r] = "ingesting" /\ IngestRaises(statement[r])
NameTaken(r) == pc[r] = "creating" /\ key[r] \in DOMAIN accounts
RowTakenOrGone(r) ==
    /\ pc[r] = "writing"
    /\ Changed(r, result[r][key[r]])
    /\ ~RowLocked(r, Row(r))
    /\ (seen[r] = None) # (Row(r) \notin DOMAIN balances)

WaitsFor(r, s) ==
    \/ pc[r] = "creating" /\ key[r] \in staged[s].accounts
    \/ pc[r] = "writing" /\ Row(r) \in DOMAIN staged[s].balances
DeadlockVictim(r) == \E s \in Others(r) : WaitsFor(r, s) /\ WaitsFor(s, r)

InTransaction == {"loading", "ingesting", "persisting", "creating", "selecting", "writing"}

RollBack(r) ==
    /\ Leave(r)
    /\ To(r, "failing")
    /\ UNCHANGED <<db, status, statement, tmpdir, userActs>>

Fail(r) ==
    /\ StatementFault(r) \/ NameTaken(r) \/ RowTakenOrGone(r) \/ DeadlockVictim(r)
    /\ RollBack(r)
    /\ UNCHANGED faults

Fault == faults < MaxFaults /\ faults' = faults + 1

DatabaseFails(r) ==
    /\ Fault
    /\ \/ pc[r] \in InTransaction \cup {"queued"} /\ RollBack(r)
       \* mark_failed itself fails: the exception leaves run_ingestion
       \/ /\ pc[r] = "failing" /\ To(r, "cleaning")
          /\ UNCHANGED <<db, status, task, tmpdir, userActs>>

MarkFailed(r) ==
    /\ pc[r] = "failing"
    /\ status' = [status EXCEPT ![r] = "FAILED"]
    /\ To(r, "cleaning")
    /\ UNCHANGED <<db, task, tmpdir, userActs, faults>>

(* finally: shutil.rmtree                                                  *)
Clean(r) ==
    /\ pc[r] = "cleaning"
    /\ tmpdir' = [tmpdir EXCEPT ![r] = FALSE]
    /\ statement' = [statement EXCEPT ![r] = None]
    /\ To(r, "ended")
    /\ UNCHANGED <<db, status, local, userActs, faults>>

(* The server dies: tasks are gone, the database rolls their transactions  *)
(* back, nothing looks for them after a restart.                           *)
Crash ==
    /\ Fault /\ \E r \in Runs : pc[r] \notin Over
    /\ pc' = [r \in Runs |-> IF pc[r] \in Over THEN pc[r] ELSE "lost"]
    /\ statement' = [r \in Runs |-> None]
    /\ current' = [r \in Runs |-> NoRows] /\ result' = [r \in Runs |-> NoRows]
    /\ todo' = [r \in Runs |-> {}]
    /\ key' = [r \in Runs |-> None] /\ seen' = [r \in Runs |-> None]
    /\ staged' = [r \in Runs |-> Nothing]
    /\ overtaken' = [r \in Runs |-> {}]
    /\ UNCHANGED <<db, status, tmpdir, userActs>>

-----------------------------------------------------------------------------
(* The user's own changes (backend/api/account_api.py), one commit each.   *)
Unlocked(b) == \A r \in Runs : b \notin DOMAIN staged[r].balances

(* create_balance: an existing row keeps its source document.              *)
UserSets(n, date) ==
    /\ "set" \in UserActs /\ n \in DOMAIN accounts /\ Unlocked(<<n, date>>)
    /\ balances' = Put(balances, <<n, date>>,
           [amount |-> UserAmount,
            document |-> IF <<n, date>> \in DOMAIN balances
                         THEN balances[<<n, date>>].document ELSE None])
    /\ UNCHANGED <<accounts, status, pc, task, tmpdir, faults>>

UserDeletes(b) ==
    /\ "delete" \in UserActs /\ b \in DOMAIN balances /\ Unlocked(b)
    /\ balances' = [c \in DOMAIN balances \ {b} |-> balances[c]]
    /\ UNCHANGED <<accounts, status, pc, task, tmpdir, faults>>

UserCloses(n) ==
    /\ "close" \in UserActs /\ n \in DOMAIN accounts /\ accounts[n].active
    /\ accounts' = [accounts EXCEPT ![n].active = FALSE]
    /\ UNCHANGED <<balances, status, pc, task, tmpdir, faults>>

StatedDates == {h.asOf : h \in UNION {{d.holdings[j] : j \in DOMAIN d.holdings} : d \in Documents}}

Task(r) ==
    \/ MarkProcessing(r) \/ Load(r) \/ Ingest(r)
    \/ FindAccount(r) \/ CreateAccount(r) \/ SelectBalance(r) \/ WriteBalance(r)
    \/ Succeed(r) \/ Fail(r) \/ MarkFailed(r) \/ Clean(r)
User ==
  /\ userActs < MaxUserActs /\ userActs' = userActs + 1
  /\ \/ \E n \in DOMAIN accounts : UserCloses(n) \/ \E date \in StatedDates : UserSets(n, date)
     \/ \E b \in DOMAIN balances : UserDeletes(b)

Next ==
    \/ \E r \in Runs : Upload(r) \/ Task(r) \/ DatabaseFails(r)
    \/ User
    \/ Crash

Spec == Init /\ [][Next]_vars
(* The event loop keeps running every background task that can go on.      *)
FairSpec == Spec /\ \A r \in Runs : WF_vars(Task(r))
=============================================================================
