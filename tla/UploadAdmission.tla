--------------------------- MODULE UploadAdmission ---------------------------
(***************************************************************************)
(* POST /ingestion/upload of one user (backend/api/ingestion_api.py) and   *)
(* the sliding-window limiter it charges (backend/ingestion/rate_limit.py).*)
(* Several uploads may be under way: each waits for the bytes of its next  *)
(* file, then judges, charges and stores that file without yielding.       *)
(*                                                                         *)
(* The limiter's list of (time, size) pairs is a set of charges, each      *)
(* named by the file it is for, as the code only counts and sums it.       *)
(***************************************************************************)
EXTENDS Integers, Sequences, FiniteSets, FiniteSetsExt

CONSTANTS
    Uploads,          \* upload requests
    Sizes,            \* per upload, the sizes of its files
    WellFormed,       \* uploads with distinct names and readable passwords
    Window,           \* WINDOW_SECONDS
    MaxUploads,       \* MAX_UPLOADS_PER_WINDOW
    MaxBytes,         \* MAX_CUMULATIVE_BYTES_PER_WINDOW
    MaxFileSize,      \* MAX_STATEMENT_SIZE_BYTES
    MaxClock          \* bound

ASSUME SizesAssumption == Sizes \in [Uploads -> Seq(Nat)]
ASSUME LimitAssumption == Window \in Nat \ {0} /\ MaxUploads \in Nat /\ MaxBytes \in Nat
                          /\ MaxFileSize \in Nat

VARIABLES
    clock,
    log,       \* the limiter's charges
    charged,   \* history: every charge since the process started
    pc,        \* "new", "reading", "storing", "accepted", "refused", "broken"
    next,      \* per upload: the file it waits for
    tmpdir,    \* per upload: its temporary directory exists
    run        \* per upload: its ingestion run is committed, PENDING

vars == <<clock, log, charged, pc, next, tmpdir, run>>

Init ==
    /\ clock = 0 /\ log = {} /\ charged = {}
    /\ pc = [u \in Uploads |-> "new"]
    /\ next = [u \in Uploads |-> 1]
    /\ tmpdir = [u \in Uploads |-> FALSE]
    /\ run = [u \in Uploads |-> FALSE]

Charge_Backdated(u, n) == [upload |-> u, file |-> n, at |-> clock - 1, size |-> Sizes[u][n]]
Charge(u, n) == [upload |-> u, file |-> n, at |-> clock, size |-> Sizes[u][n]]
Recent(charges) == {c \in charges : c.at > clock - Window}
Bytes(charges) == MapThenSumSet(LAMBDA c : c.size, charges)

(* check_rate_limit: what it forgets, and whether it lets a file through.  *)
Allows_BytesBefore(size) == Cardinality(Recent(log)) < MaxUploads /\ Bytes(Recent(log)) <= MaxBytes
Allows_OffByOne(size) ==
    Cardinality(Recent(log)) <= MaxUploads /\ Bytes(Recent(log)) + size <= MaxBytes
Allows(size) ==
    /\ Cardinality(Recent(log)) < MaxUploads
    /\ Bytes(Recent(log)) + size <= MaxBytes

Receive(u) ==
    /\ pc[u] = "new"
    /\ IF Sizes[u] = <<>> \/ u \notin WellFormed
       THEN pc' = [pc EXCEPT ![u] = "refused"] /\ UNCHANGED tmpdir
       ELSE /\ pc' = [pc EXCEPT ![u] = "reading"]
            /\ tmpdir' = [tmpdir EXCEPT ![u] = TRUE]
    /\ UNCHANGED <<clock, log, charged, next, run>>

FileArrives(u) == pc[u] = "reading" /\ next[u] <= Len(Sizes[u])
FileSize(u) == Sizes[u][next[u]]
Refuse(u) == /\ pc' = [pc EXCEPT ![u] = "refused"]
             /\ tmpdir' = [tmpdir EXCEPT ![u] = FALSE]

RefuseLarge(u) ==
    /\ FileArrives(u) /\ FileSize(u) > MaxFileSize
    /\ Refuse(u)
    /\ UNCHANGED <<clock, log, charged, next, run>>

RefuseRate_SkipsFile(u) ==
    /\ FileArrives(u) /\ FileSize(u) <= MaxFileSize /\ ~Allows(FileSize(u))
    /\ log' = Recent(log)
    /\ next' = [next EXCEPT ![u] = @ + 1]
    /\ UNCHANGED <<clock, charged, pc, tmpdir, run>>
RefuseRate_ClearsLog(u) ==
    /\ FileArrives(u) /\ FileSize(u) <= MaxFileSize /\ ~Allows(FileSize(u))
    /\ log' = {}
    /\ Refuse(u)
    /\ UNCHANGED <<clock, charged, next, run>>
RefuseRate_KeepsDirectory(u) ==
    /\ FileArrives(u) /\ FileSize(u) <= MaxFileSize /\ ~Allows(FileSize(u))
    /\ log' = Recent(log)
    /\ pc' = [pc EXCEPT ![u] = "refused"]
    /\ UNCHANGED <<clock, charged, next, run, tmpdir>>
RefuseRate(u) ==
    /\ FileArrives(u) /\ FileSize(u) <= MaxFileSize /\ ~Allows(FileSize(u))
    /\ log' = Recent(log)
    /\ Refuse(u)
    /\ UNCHANGED <<clock, charged, next, run>>

StoreFile(u) ==
    /\ FileArrives(u) /\ FileSize(u) <= MaxFileSize /\ Allows(FileSize(u))
    /\ log' = Recent(log) \cup {Charge(u, next[u])}
    /\ charged' = charged \cup {Charge(u, next[u])}
    /\ next' = [next EXCEPT ![u] = @ + 1]
    /\ UNCHANGED <<clock, pc, tmpdir, run>>

CreateRun(u) ==
    /\ pc[u] = "reading" /\ next[u] > Len(Sizes[u])
    /\ run' = [run EXCEPT ![u] = TRUE]
    /\ pc' = [pc EXCEPT ![u] = "accepted"]
    /\ UNCHANGED <<clock, log, charged, next, tmpdir>>

(* Any exception that is not an HTTPException (the client goes away, the   *)
(* disk or the database fails): the directory stays.                       *)
Break(u) ==
    /\ pc[u] = "reading"
    /\ pc' = [pc EXCEPT ![u] = "broken"]
    /\ UNCHANGED <<clock, log, charged, next, tmpdir, run>>

(* The process restarts: the limiter's memory and the requests are gone.   *)
Restart ==
    /\ log' = {} /\ charged' = {}
    /\ pc' = [u \in Uploads |-> IF pc[u] = "reading" THEN "broken" ELSE pc[u]]
    /\ UNCHANGED <<clock, next, tmpdir, run>>

Tick == clock < MaxClock /\ clock' = clock + 1 /\ UNCHANGED <<log, charged, pc, next, tmpdir, run>>

Handle(u) ==
    Receive(u) \/ RefuseLarge(u) \/ RefuseRate(u) \/ StoreFile(u) \/ CreateRun(u)

Next == (\E u \in Uploads : Handle(u) \/ Break(u)) \/ Restart \/ Tick

Spec == Init /\ [][Next]_vars
-----------------------------------------------------------------------------
ChargeType == [upload: Uploads, file: Nat \ {0}, at: Nat, size: Nat]

TypeOK ==
    /\ clock \in Nat
    /\ charged \subseteq ChargeType /\ log \subseteq ChargeType
    /\ pc \in [Uploads -> {"new", "reading", "accepted", "refused", "broken"}]
    /\ next \in [Uploads -> Nat \ {0}]
    /\ tmpdir \in [Uploads -> BOOLEAN] /\ run \in [Uploads -> BOOLEAN]

InWindow(t) == {c \in charged : t - Window < c.at /\ c.at <= t}

(* In every window of time, not only those that end now, at most           *)
(* MAX_UPLOADS_PER_WINDOW files of the user are let through, although the  *)
(* limiter forgets old charges whenever it is asked (rate_limit.py:26-48). *)
WindowCount == \A t \in 0..clock : Cardinality(InWindow(t)) <= MaxUploads

(* The same for the volume: never more than                                *)
(* MAX_CUMULATIVE_BYTES_PER_WINDOW in any window (rate_limit.py:40-46).    *)
WindowBytes == \A t \in 0..clock : Bytes(InWindow(t)) <= MaxBytes

(* An upload with a run had every one of its files let through: a batch    *)
(* that is refused half-way never becomes a smaller import                 *)
(* (ingestion_api.py:117-133).                                             *)
RunHasEveryFile ==
    [][\A u \in Uploads : (run'[u] /\ ~run[u]) =>
          \A n \in DOMAIN Sizes[u] : \E c \in charged : c.upload = u /\ c.file = n]_vars

(* A refused upload leaves no statement on the disk, a committed run       *)
(* always finds its files (ingestion_api.py:126-133).                      *)
FilesKeptExactlyForRuns ==
    \A u \in Uploads : /\ pc[u] = "refused" => ~tmpdir[u]
                       /\ run[u] => tmpdir[u]

(* The limiter never forgets a charge that still counts                    *)
(* (rate_limit.py:28-29).                                                  *)
NothingForgottenEarly == {c \in charged : c.at > clock - Window} \subseteq log
=============================================================================
