-------------------------- MODULE StatementImport --------------------------
(***************************************************************************)
(* The statement import page (StatementImportFlow.tsx) and the run it      *)
(* watches: files are picked and checked for passwords, listed, added to,  *)
(* uploaded, and the run is polled every two seconds until it ends.  The   *)
(* page's requests answer in any order, while its visitor goes on using    *)
(* what is not disabled.  A file is its name; answers carry what the       *)
(* server knew at some moment between the request and the answer.          *)
(***************************************************************************)
EXTENDS Integers, Sequences, SequencesExt, Functions

CONSTANTS
    Picks,          \* the sequences of files a file dialog may return
    Locked,         \* files that do not open without a password
    Null,
    MaxRuns,        \* bound on the runs of one behaviour
    MaxPolls,       \* bound on the polls under way
    MaxPicks        \* bound on the uses of a file dialog

Files == UNION {ToSet(pick) : pick \in Picks}

ASSUME ImportAssumption ==
    /\ Picks \subseteq Seq(Files) /\ Null \notin Seq(Files)
    /\ MaxRuns \in Nat /\ MaxPolls \in Nat /\ MaxPicks \in Nat

VARIABLES
    files,          \* the page's state: the files to upload
    checkResults,   \*   the rows listed, or Null before a check
    passwords,      \*   files a password was typed for
    check,          \*   the check under way [names, more], or Null
    submitting,     \*   the upload under way, or Null
    run,            \*   the run displayed [id, status], or Null
    interval,       \*   the run the current interval polls, or Null
    polls,          \*   polls sent and not answered, oldest first
    server,         \* status of every run of the server, in order
    uploads,        \* what each upload carried and what its page listed
    stopped,        \* runs whose background task a restart has lost
    meddled,        \* the picker was used during a check, since the last reset
    mishap,         \* a poll failed, older news replaced newer, or a task was lost
    picks           \* uses of a file dialog so far

listVars == <<files, checkResults, passwords, check, meddled, picks>>
runVars == <<run, interval, polls, mishap>>
serverVars == <<server, uploads, stopped>>
vars == <<listVars, submitting, runVars, serverVars>>

Terminal == {"succeeded", "failed"}

\* The names in seq that are in kept, in their order.
Only(seq, kept) ==
    LET first[n \in 0..Len(seq)] ==
            IF n = 0 THEN <<>>
            ELSE IF seq[n] \in kept THEN Append(first[n - 1], seq[n])
            ELSE first[n - 1]
    IN  first[Len(seq)]

Without(seq, name) == Only(seq, Files \ {name})

\* The three screens.
Picking == checkResults = Null /\ run = Null
Listing == checkResults # Null /\ run = Null
Processing == run # Null /\ run.status \notin Terminal

Init ==
    /\ files = <<>> /\ checkResults = Null /\ passwords = {} /\ check = Null
    /\ submitting = Null /\ run = Null /\ interval = Null /\ polls = <<>>
    /\ server = <<>> /\ uploads = <<>> /\ stopped = {}
    /\ meddled = FALSE /\ mishap = FALSE /\ picks = 0

----------------------------------------------------------------------------
(* Choosing files *)

UseDialog == picks < MaxPicks /\ picks' = picks + 1

\* The first file input stays enabled while files are checked.
PickFiles ==
    /\ Picking
    /\ UseDialog
    /\ files' \in Picks
    /\ meddled' = (meddled \/ check # Null)
    /\ UNCHANGED <<checkResults, passwords, check, submitting, runVars, serverVars>>

CheckFiles ==
    /\ Picking /\ check = Null /\ files # <<>>
    /\ check' = [names |-> files, more |-> FALSE]
    /\ UNCHANGED <<files, checkResults, passwords, meddled, picks, submitting, runVars, serverVars>>

AddMoreFiles_AsksAlways ==
    /\ Listing /\ check = Null /\ submitting = Null
    /\ UseDialog
    /\ \E pick \in Picks :
         check' = [names |-> Only(pick, Files \ ToSet(files)), more |-> TRUE]
    /\ UNCHANGED <<files, checkResults, passwords, meddled, submitting, runVars, serverVars>>
\* Files already listed are skipped; nothing new, nothing is asked.
AddMoreFiles ==
    /\ Listing /\ check = Null /\ submitting = Null
    /\ UseDialog
    /\ \E pick \in Picks :
         LET new == Only(pick, Files \ ToSet(files))
         IN  check' = IF new = <<>> THEN Null ELSE [names |-> new, more |-> TRUE]
    /\ UNCHANGED <<files, checkResults, passwords, meddled, submitting, runVars, serverVars>>

\* The answer is added to whatever is listed by now, or starts a list.
CheckAnswers ==
    /\ check # Null
    /\ \/ /\ checkResults' = IF check.more /\ checkResults # Null
                             THEN checkResults \o check.names ELSE check.names
          /\ files' = IF check.more THEN files \o check.names ELSE files
       \/ UNCHANGED <<checkResults, files>>
    /\ check' = Null
    /\ UNCHANGED <<passwords, meddled, picks, submitting, runVars, serverVars>>

RemoveFile_RowOnly ==
    /\ Listing /\ submitting = Null
    /\ \E i \in DOMAIN checkResults :
         /\ checkResults' = Without(checkResults, checkResults[i])
         /\ passwords' = passwords \ {checkResults[i]}
    /\ UNCHANGED <<files, check, meddled, picks, submitting, runVars, serverVars>>
RemoveFile ==
    /\ Listing /\ submitting = Null
    /\ \E i \in DOMAIN checkResults :
         /\ files' = Without(files, checkResults[i])
         /\ checkResults' = Without(checkResults, checkResults[i])
         /\ passwords' = passwords \ {checkResults[i]}
    /\ UNCHANGED <<check, meddled, picks, submitting, runVars, serverVars>>

\* Every file the check found locked has a field of its own.
TypePassword ==
    /\ Listing
    /\ \E i \in DOMAIN checkResults :
         /\ checkResults[i] \in Locked
         /\ \/ passwords' = passwords \cup {checkResults[i]}
            \/ passwords' = passwords \ {checkResults[i]}
    /\ UNCHANGED <<files, checkResults, check, meddled, picks, submitting, runVars, serverVars>>

\* resetToFilePicker, as "Change files" and as "Try again"; a check under way goes on.
Reset ==
    /\ (Listing /\ submitting = Null) \/ (run # Null /\ run.status = "failed")
    /\ files' = <<>> /\ checkResults' = Null /\ passwords' = {} /\ run' = Null
    /\ meddled' = (check # Null)
    /\ mishap' = (mishap /\ polls # <<>>)
    /\ UNCHANGED <<check, picks, submitting, interval, polls, serverVars>>

----------------------------------------------------------------------------
(* Uploading and polling *)

Submit ==
    /\ Listing /\ submitting = Null /\ check = Null
    /\ checkResults # <<>>
    /\ \A i \in DOMAIN checkResults : checkResults[i] \in Locked => checkResults[i] \in passwords
    /\ submitting' = [files |-> files, listed |-> checkResults, passwords |-> passwords, meddled |-> meddled]
    /\ UNCHANGED <<listVars, runVars, serverVars>>

\* The server refuses two files of one name; an accepted upload is a run.
ServerAccepts(upload) ==
    /\ IsInjective(upload.files)
    /\ Len(server) < MaxRuns
    /\ server' = Append(server, "pending")
    /\ uploads' = Append(uploads, upload)

\* The page starts to poll the run it made, unless the answer is lost.
SubmitAnswers ==
    /\ submitting # Null
    /\ \/ /\ ServerAccepts(submitting)
          /\ \/ /\ run' = [id |-> Len(server'), status |-> "pending"]
                /\ interval' = Len(server')
             \/ UNCHANGED <<run, interval>>
       \/ UNCHANGED <<server, uploads, run, interval>>
    /\ submitting' = Null
    /\ UNCHANGED <<listVars, polls, mishap, stopped>>

\* The interval does not wait for the answer of the poll before.
Poll ==
    /\ interval # Null /\ Len(polls) < MaxPolls
    /\ polls' = Append(polls, [run |-> interval, status |-> server[interval]])
    /\ UNCHANGED <<listVars, submitting, run, interval, mishap, serverVars>>

\* Bookkeeping: an answer is older news than what is displayed.
Outdated(id, status) ==
    run = Null \/ run.id # id \/ (run.status \in Terminal /\ status \notin Terminal)

PollAnswers_StopsWhenProcessing ==
    \E i \in DOMAIN polls : \E status \in {polls[i].status, server[polls[i].run]} :
        /\ run' = [id |-> polls[i].run, status |-> status]
        /\ interval' = IF status # "pending" THEN Null ELSE interval
        /\ polls' = RemoveAt(polls, i)
        /\ mishap' = (mishap \/ Outdated(polls[i].run, status))
        /\ UNCHANGED <<listVars, submitting, serverVars>>
\* The run displayed is the one answered about; its end stops the interval.
PollAnswers ==
    \E i \in DOMAIN polls : \E status \in {polls[i].status, server[polls[i].run]} :
        /\ run' = [id |-> polls[i].run, status |-> status]
        /\ interval' = IF status \in Terminal THEN Null ELSE interval
        /\ polls' = RemoveAt(polls, i)
        /\ mishap' = (mishap \/ Outdated(polls[i].run, status))
        /\ UNCHANGED <<listVars, submitting, serverVars>>

\* One failed poll ends the polling.
PollFails ==
    \E i \in DOMAIN polls :
        /\ interval' = Null
        /\ polls' = RemoveAt(polls, i)
        /\ mishap' = TRUE
        /\ UNCHANGED <<listVars, submitting, run, serverVars>>

\* The page is left, or the dialog that holds it closed, and opened anew; an
\* upload under way may still reach the server.
Leave ==
    /\ \/ UNCHANGED <<server, uploads>>
       \/ submitting # Null /\ ServerAccepts(submitting)
    /\ files' = <<>> /\ checkResults' = Null /\ passwords' = {} /\ check' = Null
    /\ submitting' = Null /\ run' = Null /\ interval' = Null /\ polls' = <<>>
    /\ meddled' = FALSE /\ mishap' = FALSE
    /\ UNCHANGED <<picks, stopped>>

----------------------------------------------------------------------------
(* The server's background task *)

Advance(r) ==
    /\ r \in DOMAIN server /\ r \notin stopped
    /\ \/ server[r] = "pending" /\ server' = [server EXCEPT ![r] = "processing"]
       \/ server[r] \notin Terminal /\ server' = [server EXCEPT ![r] = "failed"]
       \/ server[r] = "processing" /\ server' = [server EXCEPT ![r] = "succeeded"]
    /\ UNCHANGED <<listVars, submitting, runVars, uploads, stopped>>

\* A restart loses the tasks under way, and nothing takes them up again.
Restart ==
    /\ stopped # {r \in DOMAIN server : server[r] \notin Terminal}
    /\ stopped' = {r \in DOMAIN server : server[r] \notin Terminal}
    /\ mishap' = (mishap \/ run # Null)
    /\ UNCHANGED <<listVars, submitting, run, interval, polls, server, uploads>>

Next ==
    \/ PickFiles \/ CheckFiles \/ AddMoreFiles \/ CheckAnswers \/ RemoveFile \/ TypePassword \/ Reset
    \/ Submit \/ SubmitAnswers \/ Poll \/ PollAnswers \/ PollFails \/ Leave
    \/ \E r \in 1..MaxRuns : Advance(r)
    \/ Restart

\* Intervals fire, every request is answered and every task ends.
Fairness ==
    /\ WF_vars(CheckAnswers) /\ WF_vars(SubmitAnswers) /\ WF_vars(Poll) /\ WF_vars(PollAnswers)
    /\ \A r \in 1..MaxRuns : WF_vars(Advance(r))

Spec == Init /\ [][Next]_vars /\ Fairness
============================================================================
