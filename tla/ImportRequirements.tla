------------------------ MODULE ImportRequirements -------------------------
(***************************************************************************)
(* What the visitors of the statement import page may rely on.             *)
(***************************************************************************)
EXTENDS StatementImport

Statuses == {"pending", "processing"} \cup Terminal

Checks == [names : Seq(Files) \ {<<>>}, more : BOOLEAN]
Uploads == [files : Seq(Files), listed : Seq(Files), passwords : SUBSET Files, meddled : BOOLEAN]

\* The types of the page, of the requests under way and of the runs.
TypeOK ==
    /\ files \in Seq(Files) /\ checkResults \in Seq(Files) \cup {Null} /\ passwords \subseteq Files
    /\ check \in Checks \cup {Null} /\ submitting \in Uploads \cup {Null}
    /\ server \in Seq(Statuses) /\ Len(server) <= MaxRuns
    /\ uploads \in Seq(Uploads) /\ Len(uploads) = Len(server)
    /\ stopped \subseteq DOMAIN server
    /\ run \in [id : DOMAIN server, status : Statuses] \cup {Null}
    /\ interval \in DOMAIN server \cup {Null}
    /\ polls \in Seq([run : DOMAIN server, status : Statuses]) /\ Len(polls) <= MaxPolls
    /\ meddled \in BOOLEAN /\ mishap \in BOOLEAN /\ picks \in 0..MaxPicks

\* What a page uploads is what it lists, each file once and with a password
\* wherever one is needed, whatever was removed, added and refused before and
\* whichever answers were late.  The exception is the code's own: the first
\* file input and "Change files" stay usable while a check is under way, and
\* its late answer then lists other files than will be sent (handleCheckFiles,
\* handleAddMoreFiles, handleRemoveFile, handleSubmit).
UploadIsWhatWasListed ==
    \A r \in DOMAIN uploads :
        LET upload == uploads[r]
        IN  ~upload.meddled =>
              /\ upload.files = upload.listed /\ IsInjective(upload.files)
              /\ upload.passwords \subseteq ToSet(upload.files)
              /\ ToSet(upload.files) \cap Locked \subseteq upload.passwords

\* "This page will update automatically": a run displayed as being processed
\* is in time displayed as the server ended it, unless a poll failed, an
\* older answer overtook a newer one, or a restart lost the task: the code
\* stops polling after the first failure and takes every answer for news
\* (pollRun).
UpdatesAutomatically ==
    \A r \in 1..MaxRuns :
        Processing /\ run.id = r
          ~> \/ run = Null
             \/ run.id # r
             \/ run.status \in Terminal /\ run.status = server[r]
             \/ mishap
============================================================================
