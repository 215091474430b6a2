---------------------------- MODULE ImportProofs ----------------------------
(***************************************************************************)
(* Proofs that, for any files, picks, runs and polls, the import page and  *)
(* the runs keep their types, and that a page which nobody meddled with    *)
(* during a check uploads exactly what it lists.                           *)
(***************************************************************************)
EXTENDS ImportRequirements, WellFoundedInduction, TLAPS

(* What is sent with passwords for some of the files and all locked ones.  *)
Honest(upload) ==
    ~upload.meddled =>
      /\ upload.files = upload.listed
      /\ upload.passwords \subseteq ToSet(upload.files)
      /\ ToSet(upload.files) \cap Locked \subseteq upload.passwords

(* As long as nobody picked files during a check, the files to upload are  *)
(* the rows listed, and the check under way is of the files picked first   *)
(* or adds to a list that is still there.                                  *)
ListInv ==
    ~meddled =>
      /\ checkResults = Null => passwords = {}
      /\ checkResults # Null => files = checkResults /\ passwords \subseteq ToSet(checkResults)
      /\ check # Null => /\ check.more <=> checkResults # Null
                         /\ ~check.more => files = check.names

SentInv ==
    /\ submitting # Null => Honest(submitting)
    /\ \A r \in DOMAIN uploads : Honest(uploads[r]) /\ IsInjective(uploads[r].files)

IInv == TypeOK /\ ListInv /\ SentInv
-----------------------------------------------------------------------------
USE ImportAssumption

(* What holds of 0 and with n of n + 1 holds of every natural number: there *)
(* would be a least counterexample.                                        *)
LEMMA Induction ==
    ASSUME NEW S, 0 \in S, \A n \in Nat : n \in S => n + 1 \in S
    PROVE  Nat \subseteq S
<1> DEFINE T == Nat \ S
           R == OpToRel(<, Nat)
<1>1. \A m, n \in Nat : m < n => <<m, n>> \in R
  BY DEF OpToRel
<1>2. SUFFICES ASSUME T # {} PROVE FALSE
  OBVIOUS
<1> HIDE DEF R
<1>3. IsWellFoundedOn(R, Nat)
  BY NatLessThanWellFounded, Zenon DEF R
<1>4. PICK x \in T : \A y \in T : ~(<<y, x>> \in R)
  <2> T \subseteq Nat OBVIOUS
  <2> HIDE DEF T
  <2> QED BY <1>2, <1>3, WFMin
<1>5. x # 0 /\ x \in Nat
  BY <1>4
<1>6. x - 1 \in T /\ x - 1 \in Nat /\ x - 1 < x
  BY <1>5, <1>4
<1>7. <<x - 1, x>> \in R
  BY <1>1, <1>5, <1>6
<1> QED BY <1>4, <1>6, <1>7

(* Only keeps the elements of a sequence that it is to keep.               *)
LEMMA OnlyKeeps ==
    ASSUME NEW T, NEW seq \in Seq(T), NEW kept
    PROVE  Only(seq, kept) \in Seq(T) /\ ToSet(Only(seq, kept)) = ToSet(seq) \cap kept
<1> DEFINE N == 0..Len(seq)
           Step(f, n) == IF n = 0 THEN <<>>
                         ELSE IF seq[n] \in kept THEN Append(f[n - 1], seq[n])
                         ELSE f[n - 1]
           first == CHOOSE f : f = [n \in N |-> Step(f, n)]
           Solved(f, n) == \A k \in N : k <= n => f[k] = Step(f, k)
           Good == {n \in Nat : \E f \in [N -> Seq(T)] : Solved(f, n)}
<1>1. \A f \in [N -> Seq(T)] : \A n \in N : Step(f, n) \in Seq(T)
  <2> SUFFICES ASSUME NEW f \in [N -> Seq(T)], NEW n \in N PROVE Step(f, n) \in Seq(T)
    OBVIOUS
  <2>1. CASE n = 0 BY <2>1
  <2>2. CASE n # 0
    <3>1. n - 1 \in N /\ seq[n] \in T
      BY <2>2
    <3>2. f[n - 1] \in Seq(T)
      BY <3>1
    <3> QED BY <2>2, <3>1, <3>2
  <2> QED BY <2>1, <2>2
<1>2. 0 \in Good
  <2>1. [n \in N |-> <<>>] \in [N -> Seq(T)] /\ Solved([n \in N |-> <<>>], 0)
    OBVIOUS
  <2> HIDE DEF Solved
  <2> QED BY <2>1
<1>3. ASSUME NEW n \in Nat, n \in Good PROVE n + 1 \in Good
  <2>1. PICK f \in [N -> Seq(T)] : Solved(f, n)
    BY <1>3
  <2> DEFINE h == [k \in N |-> IF k <= n THEN f[k] ELSE Step(f, k)]
  <2>2. h \in [N -> Seq(T)]
    <3> HIDE DEF Step
    <3> QED BY <1>1
  <2>3. ASSUME NEW k \in N, k <= n + 1 PROVE h[k] = Step(h, k)
    <3>1. k # 0 => k - 1 \in N /\ k - 1 <= n
      BY <2>3
    <3>2. k # 0 => h[k - 1] = f[k - 1]
      BY <3>1
    <3>3. Step(h, k) = Step(f, k)
      BY <3>2
    <3>4. h[k] = Step(f, k)
      <4> HIDE DEF Step
      <4> QED BY <2>1
    <3> QED BY <3>3, <3>4
  <2>4. Solved(h, n + 1)
    BY <2>3
  <2> HIDE DEF h, Solved
  <2> QED BY <2>2, <2>4
<1>4. PICK e \in [N -> Seq(T)] : \A n \in N : e[n] = Step(e, n)
  <2>1. Len(seq) \in Good
    <3> HIDE DEF Good
    <3> QED BY <1>2, <1>3, Induction
  <2>2. PICK f \in [N -> Seq(T)] : Solved(f, Len(seq))
    BY <2>1
  <2>3. \A n \in N : f[n] = Step(f, n)
    <3> HIDE DEF Step
    <3> QED BY <2>2
  <2> QED BY <2>3
<1>5. first = [n \in N |-> Step(first, n)]
  <2> HIDE DEF Step
  <2>1. e = [n \in N |-> Step(e, n)]
    BY <1>4
  <2> QED BY <2>1
<1>6. Only(seq, kept) = first[Len(seq)]
  BY DEF Only
<1> HIDE DEF first
<1> DEFINE Right(n) == first[n] \in Seq(T) /\ ToSet(first[n]) = {seq[i] : i \in 1..n} \cap kept
           Fine == {n \in Nat : n \in N => Right(n)}
<1>7. 0 \in Fine
  <2>1. first[0] = <<>>
    BY <1>5
  <2>2. ToSet(<<>>) = {} /\ {seq[i] : i \in 1..0} = {}
    BY DEF ToSet
  <2>3. Right(0)
    BY <2>1, <2>2
  <2> HIDE DEF Right
  <2> QED BY <2>3
<1>8. ASSUME NEW n \in Nat, n \in Fine, n + 1 \in N PROVE Right(n + 1)
  <2>1. Right(n) /\ n + 1 \in 1..Len(seq) /\ seq[n + 1] \in T
    <3>1. n \in N /\ n + 1 \in 1..Len(seq)
      BY <1>8
    <3>2. Right(n)
      <4> HIDE DEF Right
      <4> QED BY <1>8, <3>1
    <3> QED BY <3>1, <3>2
  <2>2. first[n + 1] = IF seq[n + 1] \in kept THEN Append(first[n], seq[n + 1]) ELSE first[n]
    <3>1. n + 1 \in N /\ n + 1 # 0 /\ (n + 1) - 1 = n
      BY <1>8
    <3>2. first[n + 1] = Step(first, n + 1)
      <4> HIDE DEF Step
      <4> QED BY <1>5, <3>1
    <3> QED BY <3>1, <3>2
  <2>3. {seq[i] : i \in 1..(n + 1)} = {seq[i] : i \in 1..n} \cup {seq[n + 1]}
    OBVIOUS
  <2>4. \A s \in Seq(T), x \in T : Append(s, x) \in Seq(T) /\ ToSet(Append(s, x)) = ToSet(s) \cup {x}
    <3> SUFFICES ASSUME NEW s \in Seq(T), NEW x \in T
                 PROVE  ToSet(Append(s, x)) = ToSet(s) \cup {x}
      OBVIOUS
    <3>1. DOMAIN Append(s, x) = DOMAIN s \cup {Len(s) + 1}
      OBVIOUS
    <3>2. Append(s, x)[Len(s) + 1] = x /\ \A i \in DOMAIN s : Append(s, x)[i] = s[i]
      OBVIOUS
    <3> QED BY <3>1, <3>2 DEF ToSet
  <2>5. CASE seq[n + 1] \in kept
    BY <2>1, <2>2, <2>3, <2>4, <2>5
  <2>6. CASE seq[n + 1] \notin kept
    BY <2>1, <2>2, <2>3, <2>6
  <2> QED BY <2>5, <2>6
<1>9. Nat \subseteq Fine
  <2>1. \A n \in Nat : n \in Fine => n + 1 \in Fine
    <3> HIDE DEF Right
    <3> QED BY <1>8
  <2> HIDE DEF Fine
  <2> QED BY <1>7, <2>1, Induction
<1>10. Right(Len(seq))
  <2>1. Len(seq) \in Fine /\ Len(seq) \in N
    <3> HIDE DEF Fine
    <3> QED BY <1>9
  <2> HIDE DEF Right
  <2> QED BY <2>1
<1>11. {seq[i] : i \in 1..Len(seq)} = ToSet(seq)
  BY DEF ToSet
<1> QED BY <1>6, <1>10, <1>11
-----------------------------------------------------------------------------
LEMMA NameTaken ==
    ASSUME NEW name
    PROVE  /\ \A seq \in Seq(Files) : Without(seq, name) \in Seq(Files)
           /\ \A seq \in Seq(Files) : ToSet(Without(seq, name)) = ToSet(seq) \ {name}
<1> SUFFICES ASSUME NEW seq \in Seq(Files)
             PROVE  Without(seq, name) \in Seq(Files) /\ ToSet(Without(seq, name)) = ToSet(seq) \ {name}
  OBVIOUS
<1>1. ToSet(seq) \subseteq Files
  BY DEF ToSet
<1> QED BY <1>1, OnlyKeeps DEF Without

LEMMA InvInit == Init => IInv
<1> SUFFICES ASSUME Init PROVE IInv
  OBVIOUS
<1> USE DEF Init
<1>1. TypeOK
  <2>1. \A S : <<>> \in Seq(S)
    OBVIOUS
  <2>2. Len(server) = 0 /\ Len(uploads) = 0 /\ Len(polls) = 0 /\ picks \in 0..MaxPicks
    OBVIOUS
  <2>3. 0 <= MaxRuns /\ 0 <= MaxPolls
    OBVIOUS
  <2> QED BY <2>1, <2>2, <2>3, Zenon DEF TypeOK
<1>2. ListInv /\ SentInv
  BY DEF ListInv, SentInv
<1> QED BY <1>1, <1>2 DEF IInv

(* A step of the list that touches neither uploads nor runs.               *)
LEMMA ListStep ==
    ASSUME IInv, UNCHANGED <<submitting, runVars, serverVars>>,
           files' \in Seq(Files), checkResults' \in Seq(Files) \cup {Null}, passwords' \subseteq Files,
           check' \in Checks \cup {Null}, meddled' \in BOOLEAN, picks' \in 0..MaxPicks,
           ListInv'
    PROVE  IInv'
<1>1. TypeOK'
  BY DEF IInv, TypeOK, runVars, serverVars
<1>2. SentInv'
  BY DEF IInv, SentInv, serverVars
<1> QED BY <1>1, <1>2 DEF IInv

LEMMA ListTypes ==
    ASSUME IInv
    PROVE  /\ files \in Seq(Files) /\ checkResults \in Seq(Files) \cup {Null} /\ passwords \subseteq Files
           /\ check \in Checks \cup {Null} /\ meddled \in BOOLEAN /\ picks \in 0..MaxPicks
           /\ Null \notin Seq(Files)
BY DEF IInv, TypeOK

LEMMA PickFilesStep == ASSUME IInv, PickFiles PROVE IInv'
<1> USE ListTypes
<1>1. files' \in Seq(Files) /\ picks' \in 0..MaxPicks /\ meddled' = (meddled \/ check # Null)
  BY DEF PickFiles, UseDialog
<1>2. UNCHANGED <<checkResults, passwords, check, submitting, runVars, serverVars>> /\ checkResults = Null
  BY DEF PickFiles, Picking
<1>3. ListInv'
  BY <1>1, <1>2 DEF IInv, ListInv
<1> QED BY <1>1, <1>2, <1>3, ListStep

LEMMA CheckFilesStep == ASSUME IInv, CheckFiles PROVE IInv'
<1> USE ListTypes
<1>1. UNCHANGED <<files, checkResults, passwords, meddled, picks, submitting, runVars, serverVars>>
      /\ check' = [names |-> files, more |-> FALSE] /\ checkResults = Null
  BY DEF CheckFiles, Picking
<1>2. check' \in Checks
  BY <1>1 DEF CheckFiles, Checks
<1>3. ListInv'
  BY <1>1 DEF IInv, ListInv
<1> QED BY <1>1, <1>2, <1>3, ListStep

LEMMA AddMoreFilesStep == ASSUME IInv, AddMoreFiles PROVE IInv'
<1> USE ListTypes
<1>1. UNCHANGED <<files, checkResults, passwords, meddled, submitting, runVars, serverVars>>
      /\ picks' \in 0..MaxPicks /\ checkResults # Null
  BY DEF AddMoreFiles, UseDialog, Listing
<1>2. PICK pick \in Picks :
        LET new == Only(pick, Files \ ToSet(files))
        IN  check' = IF new = <<>> THEN Null ELSE [names |-> new, more |-> TRUE]
  BY DEF AddMoreFiles
<1>3. Only(pick, Files \ ToSet(files)) \in Seq(Files)
  BY OnlyKeeps
<1>4. check' = Null \/ (check' \in Checks /\ check'.more = TRUE)
  BY <1>2, <1>3 DEF Checks
<1>5. ListInv'
  BY <1>1, <1>4 DEF IInv, ListInv
<1> QED BY <1>1, <1>4, <1>5, ListStep

(* The answer lists what was asked about, next to what is to be uploaded.  *)
LEMMA CheckAnswersStep == ASSUME IInv, CheckAnswers PROVE IInv'
<1> USE ListTypes
<1>1. UNCHANGED <<passwords, meddled, picks, submitting, runVars, serverVars>>
      /\ check' = Null /\ check # Null
  BY DEF CheckAnswers
<1>2. check \in Checks /\ check.names \in Seq(Files)
  BY <1>1 DEF Checks
<1>3. CASE UNCHANGED <<checkResults, files>>
  <2>1. ListInv'
    BY <1>1, <1>3 DEF IInv, ListInv
  <2> QED BY <1>1, <1>3, <2>1, ListStep
<1>4. CASE /\ checkResults' = IF check.more /\ checkResults # Null
                              THEN checkResults \o check.names ELSE check.names
           /\ files' = IF check.more THEN files \o check.names ELSE files
  <2>1. checkResults' \in Seq(Files) /\ files' \in Seq(Files)
    BY <1>2, <1>4
  <2>2. ASSUME ~meddled PROVE files' = checkResults' /\ passwords \subseteq ToSet(checkResults')
    <3>1. CASE check.more
      <4>1. checkResults # Null /\ files = checkResults /\ passwords \subseteq ToSet(checkResults)
        BY <1>1, <2>2, <3>1 DEF IInv, ListInv
      <4>2. files' = files \o check.names /\ checkResults' = checkResults \o check.names
        BY <1>4, <3>1, <4>1
      <4>3. \A s, t \in Seq(Files) : ToSet(s) \subseteq ToSet(s \o t)
        <5> SUFFICES ASSUME NEW s \in Seq(Files), NEW t \in Seq(Files), NEW i \in DOMAIN s
                     PROVE  s[i] \in ToSet(s \o t)
          BY DEF ToSet
        <5>1. i \in DOMAIN (s \o t) /\ (s \o t)[i] = s[i]
          OBVIOUS
        <5> QED BY <5>1 DEF ToSet
      <4> QED BY <1>2, <4>1, <4>2, <4>3
    <3>2. CASE ~check.more
      BY <1>1, <1>2, <1>4, <2>2, <3>2 DEF IInv, ListInv
    <3> QED BY <3>1, <3>2
  <2>3. ListInv'
    BY <1>1, <2>1, <2>2 DEF ListInv
  <2> QED BY <1>1, <2>1, <2>3, ListStep
<1> QED BY <1>3, <1>4 DEF CheckAnswers

(* Removing takes the name off the rows, the files and the passwords alike.*)
LEMMA RemoveFileStep == ASSUME IInv, RemoveFile PROVE IInv'
<1> USE ListTypes
<1>1. UNCHANGED <<check, meddled, picks, submitting, runVars, serverVars>> /\ checkResults # Null
  BY DEF RemoveFile, Listing
<1>2. PICK name :
        /\ files' = Without(files, name) /\ checkResults' = Without(checkResults, name)
        /\ passwords' = passwords \ {name}
  BY DEF RemoveFile
<1>3. files' \in Seq(Files) /\ checkResults' \in Seq(Files) /\ passwords' \subseteq Files
  BY <1>1, <1>2, NameTaken
<1>4. ToSet(checkResults') = ToSet(checkResults) \ {name}
  BY <1>1, <1>2, NameTaken
<1>5. ListInv'
  BY <1>1, <1>2, <1>3, <1>4 DEF IInv, ListInv
<1> QED BY <1>1, <1>3, <1>5, ListStep

LEMMA TypePasswordStep == ASSUME IInv, TypePassword PROVE IInv'
<1> USE ListTypes
<1>1. UNCHANGED <<files, checkResults, check, meddled, picks, submitting, runVars, serverVars>>
      /\ checkResults # Null
  BY DEF TypePassword, Listing
<1>2. PICK i \in DOMAIN checkResults :
        \/ passwords' = passwords \cup {checkResults[i]}
        \/ passwords' = passwords \ {checkResults[i]}
  BY DEF TypePassword
<1>3. checkResults[i] \in ToSet(checkResults) /\ checkResults[i] \in Files
  BY <1>1 DEF ToSet
<1>4. ListInv'
  BY <1>1, <1>2, <1>3 DEF IInv, ListInv
<1> QED BY <1>1, <1>2, <1>3, <1>4, ListStep

LEMMA ResetStep == ASSUME IInv, Reset PROVE IInv'
<1> USE DEF IInv
<1>1. TypeOK'
  BY DEF Reset, TypeOK, serverVars
<1>2. SentInv'
  BY DEF Reset, SentInv, serverVars
<1>3. ListInv'
  BY DEF Reset, ListInv
<1> QED BY <1>1, <1>2, <1>3
-----------------------------------------------------------------------------
(* What is submitted is listed, and every locked file has its password.    *)
LEMMA SubmitStep == ASSUME IInv, Submit PROVE IInv'
<1> USE DEF IInv
<1>1. submitting' = [files |-> files, listed |-> checkResults, passwords |-> passwords, meddled |-> meddled]
      /\ UNCHANGED <<listVars, runVars, serverVars>> /\ checkResults # Null
  BY DEF Submit, Listing
<1>2. submitting' \in Uploads
  BY <1>1 DEF TypeOK, Uploads
<1>3. \A i \in DOMAIN checkResults : checkResults[i] \in Locked => checkResults[i] \in passwords
  BY DEF Submit
<1>4. Honest(submitting')
  BY <1>1, <1>3 DEF ListInv, Honest, ToSet
<1>5. TypeOK'
  BY <1>1, <1>2 DEF TypeOK, listVars, runVars, serverVars
<1>6. SentInv'
  BY <1>1, <1>4 DEF SentInv, serverVars
<1>7. ListInv'
  BY <1>1 DEF ListInv, listVars
<1> QED BY <1>5, <1>6, <1>7

(* The runs of the server once it has accepted an upload.                  *)
Grown ==
    /\ server' \in Seq(Statuses) /\ Len(server') <= MaxRuns
    /\ uploads' \in Seq(Uploads) /\ Len(uploads') = Len(server')
    /\ DOMAIN server \subseteq DOMAIN server'
    /\ \A r \in DOMAIN uploads' : Honest(uploads'[r]) /\ IsInjective(uploads'[r].files)

LEMMA Accepted ==
    ASSUME IInv, submitting # Null, ServerAccepts(submitting)
    PROVE  Grown /\ Len(server') \in DOMAIN server'
<1> USE DEF IInv, ServerAccepts
<1>1. server \in Seq(Statuses) /\ server' = Append(server, "pending") /\ "pending" \in Statuses
  BY DEF TypeOK, Statuses
<1>2. uploads \in Seq(Uploads) /\ uploads' = Append(uploads, submitting) /\ submitting \in Uploads
  BY DEF TypeOK
<1>3. Len(uploads) = Len(server) /\ Len(server) < MaxRuns
  BY DEF TypeOK
<1>4. server' \in Seq(Statuses) /\ Len(server') = Len(server) + 1
      /\ DOMAIN server \subseteq DOMAIN server' /\ Len(server') \in DOMAIN server'
  BY <1>1
<1>5. uploads' \in Seq(Uploads) /\ Len(uploads') = Len(uploads) + 1
  BY <1>2
<1>6. \A r \in DOMAIN uploads' : uploads'[r] = submitting \/ (r \in DOMAIN uploads /\ uploads'[r] = uploads[r])
  BY <1>2
<1>7. \A r \in DOMAIN uploads' : Honest(uploads'[r]) /\ IsInjective(uploads'[r].files)
  BY <1>6 DEF SentInv
<1>8. Len(server') <= MaxRuns
  BY <1>1, <1>3, <1>4
<1> QED BY <1>3, <1>4, <1>5, <1>7, <1>8 DEF Grown

(* What points to runs still does when the server has more of them.        *)
LEMMA RunsRemain ==
    ASSUME IInv, DOMAIN server \subseteq DOMAIN server'
    PROVE  /\ run \in [id : DOMAIN server', status : Statuses] \cup {Null}
           /\ interval \in DOMAIN server' \cup {Null}
           /\ polls \in Seq([run : DOMAIN server', status : Statuses])
           /\ stopped \subseteq DOMAIN server'
<1>1. polls \in Seq([run : DOMAIN server, status : Statuses])
  BY DEF IInv, TypeOK
<1>2. \A S, T : S \subseteq T => Seq(S) \subseteq Seq(T)
  <2> SUFFICES ASSUME NEW S, NEW T, S \subseteq T, NEW s \in Seq(S) PROVE s \in Seq(T)
    OBVIOUS
  <2> QED BY \A i \in 1..Len(s) : s[i] \in T
<1>3. [run : DOMAIN server, status : Statuses] \subseteq [run : DOMAIN server', status : Statuses]
  OBVIOUS
<1>4. polls \in Seq([run : DOMAIN server', status : Statuses])
  <2> DEFINE S == [run : DOMAIN server, status : Statuses]
             T == [run : DOMAIN server', status : Statuses]
  <2>1. S \subseteq T /\ polls \in Seq(S)
    BY <1>1, <1>3
  <2> HIDE DEF S, T
  <2>2. polls \in Seq(T)
    BY <1>2, <2>1
  <2> QED BY <2>2 DEF T
<1> QED BY <1>4 DEF IInv, TypeOK

LEMMA NothingNew == ASSUME IInv, UNCHANGED <<server, uploads>> PROVE Grown
BY DEF IInv, TypeOK, SentInv, Grown

LEMMA SubmitAnswersStep == ASSUME IInv, SubmitAnswers PROVE IInv'
<1>1. UNCHANGED <<listVars, polls, mishap, stopped>> /\ submitting' = Null
  BY DEF SubmitAnswers
<1>2. Grown /\ (UNCHANGED <<run, interval>> \/ (run' = [id |-> Len(server'), status |-> "pending"]
                     /\ interval' = Len(server') /\ Len(server') \in DOMAIN server'))
  BY Accepted, NothingNew DEF SubmitAnswers
<1>3. TypeOK'
  <2>1. "pending" \in Statuses
    BY DEF Statuses
  <2>2. run' \in [id : DOMAIN server', status : Statuses] \cup {Null} /\ interval' \in DOMAIN server' \cup {Null}
    BY <1>2, <2>1, RunsRemain DEF Grown
  <2> QED BY <1>1, <1>2, <2>2, RunsRemain DEF IInv, TypeOK, listVars, Grown
<1>4. SentInv'
  BY <1>1, <1>2 DEF SentInv, Grown
<1>5. ListInv'
  BY <1>1 DEF IInv, ListInv, listVars
<1> QED BY <1>3, <1>4, <1>5 DEF IInv

LEMMA LeaveStep == ASSUME IInv, Leave PROVE IInv'
<1>1. Grown
  BY Accepted, NothingNew DEF Leave
<1>2. /\ files' = <<>> /\ checkResults' = Null /\ passwords' = {} /\ check' = Null
      /\ submitting' = Null /\ run' = Null /\ interval' = Null /\ polls' = <<>>
      /\ meddled' = FALSE /\ mishap' = FALSE /\ UNCHANGED <<picks, stopped>>
  BY DEF Leave
<1>3. TypeOK'
  <2>1. \A S : <<>> \in Seq(S)
    OBVIOUS
  <2>2. Len(polls') = 0 /\ 0 <= MaxPolls
    BY <1>2
  <2>3. picks' \in 0..MaxPicks /\ stopped' \subseteq DOMAIN server'
    BY <1>1, <1>2, RunsRemain DEF IInv, TypeOK, Grown
  <2> QED BY <1>1, <1>2, <2>1, <2>2, <2>3, Zenon DEF TypeOK, Grown
<1>4. SentInv'
  BY <1>1, <1>2 DEF SentInv, Grown
<1>5. ListInv'
  BY <1>2 DEF ListInv
<1> QED BY <1>3, <1>4, <1>5 DEF IInv
-----------------------------------------------------------------------------
(* A step that touches neither the list nor the server.                    *)
LEMMA RunStep ==
    ASSUME IInv, UNCHANGED <<listVars, submitting, server, uploads>>,
           run' \in [id : DOMAIN server, status : Statuses] \cup {Null},
           interval' \in DOMAIN server \cup {Null},
           polls' \in Seq([run : DOMAIN server, status : Statuses]), Len(polls') <= MaxPolls,
           mishap' \in BOOLEAN, stopped' \subseteq DOMAIN server
    PROVE  IInv'
<1>1. TypeOK'
  BY DEF IInv, TypeOK, listVars
<1>2. ListInv' /\ SentInv'
  BY DEF IInv, ListInv, SentInv, listVars
<1> QED BY <1>1, <1>2 DEF IInv

LEMMA RunTypes ==
    ASSUME IInv
    PROVE  /\ server \in Seq(Statuses) /\ stopped \subseteq DOMAIN server
           /\ run \in [id : DOMAIN server, status : Statuses] \cup {Null}
           /\ interval \in DOMAIN server \cup {Null}
           /\ polls \in Seq([run : DOMAIN server, status : Statuses]) /\ Len(polls) <= MaxPolls
           /\ mishap \in BOOLEAN
BY DEF IInv, TypeOK

LEMMA PollStep == ASSUME IInv, Poll PROVE IInv'
<1> DEFINE P == [run : DOMAIN server, status : Statuses]
<1>1. interval \in DOMAIN server /\ server[interval] \in Statuses /\ Len(polls) < MaxPolls
      /\ polls' = Append(polls, [run |-> interval, status |-> server[interval]])
  BY RunTypes DEF Poll
<1>2. [run |-> interval, status |-> server[interval]] \in P
  BY <1>1
<1>3. polls \in Seq(P)
  BY RunTypes
<1>4. polls' \in Seq(P) /\ Len(polls') <= MaxPolls
  <2> HIDE DEF P
  <2> QED BY <1>1, <1>2, <1>3
<1>5. UNCHANGED <<listVars, submitting, server, uploads, run, interval, mishap, stopped>>
  BY DEF Poll, serverVars
<1> QED BY <1>4, <1>5, RunTypes, RunStep

(* The polls that are left when one is answered, and what it may answer.   *)
LEMMA PollAnswered ==
    ASSUME IInv, NEW i \in DOMAIN polls
    PROVE  /\ RemoveAt(polls, i) \in Seq([run : DOMAIN server, status : Statuses])
           /\ Len(RemoveAt(polls, i)) <= MaxPolls
           /\ polls[i].run \in DOMAIN server
           /\ \A status \in {polls[i].status, server[polls[i].run]} : status \in Statuses
<1> DEFINE P == [run : DOMAIN server, status : Statuses]
<1>1. polls \in Seq(P) /\ Len(polls) <= MaxPolls /\ server \in Seq(Statuses)
  BY RunTypes
<1>2. polls[i] \in P
  <2> HIDE DEF P
  <2> QED BY <1>1
<1>3. SubSeq(polls, 1, i - 1) \in Seq(P) /\ Len(SubSeq(polls, 1, i - 1)) = i - 1
      /\ SubSeq(polls, i + 1, Len(polls)) \in Seq(P) /\ Len(SubSeq(polls, i + 1, Len(polls))) = Len(polls) - i
      /\ i \in 1..Len(polls)
  <2> HIDE DEF P
  <2> QED BY <1>1
<1>4. RemoveAt(polls, i) \in Seq(P) /\ Len(RemoveAt(polls, i)) = Len(polls) - 1
  <2> HIDE DEF P
  <2>1. \A s, t \in Seq(P) : s \o t \in Seq(P) /\ Len(s \o t) = Len(s) + Len(t)
    OBVIOUS
  <2>2. (i - 1) + (Len(polls) - i) = Len(polls) - 1
    BY <1>1, <1>3
  <2> QED BY <1>3, <2>1, <2>2 DEF RemoveAt
<1>5. Len(polls) - 1 <= MaxPolls
  BY <1>1
<1>6. polls[i].run \in DOMAIN server /\ polls[i].status \in Statuses
  BY <1>2
<1> QED BY <1>1, <1>4, <1>5, <1>6

LEMMA PollAnswersStep == ASSUME IInv, PollAnswers PROVE IInv'
<1> DEFINE Said(i) == {polls[i].status, server[polls[i].run]}
<1>1. PICK i \in DOMAIN polls : \E status \in Said(i) :
        /\ run' = [id |-> polls[i].run, status |-> status]
        /\ interval' = IF status \in Terminal THEN Null ELSE interval
        /\ polls' = RemoveAt(polls, i)
        /\ mishap' = (mishap \/ Outdated(polls[i].run, status))
        /\ UNCHANGED <<listVars, submitting, serverVars>>
  BY DEF PollAnswers
<1>2. PICK status \in Said(i) :
        /\ run' = [id |-> polls[i].run, status |-> status]
        /\ interval' = IF status \in Terminal THEN Null ELSE interval
        /\ polls' = RemoveAt(polls, i)
        /\ mishap' = (mishap \/ Outdated(polls[i].run, status))
        /\ UNCHANGED <<listVars, submitting, serverVars>>
  BY <1>1
<1>3. run' \in [id : DOMAIN server, status : Statuses]
  BY <1>2, PollAnswered
<1>4. polls' \in Seq([run : DOMAIN server, status : Statuses]) /\ Len(polls') <= MaxPolls
  BY <1>2, PollAnswered
<1>5. interval' \in DOMAIN server \cup {Null} /\ mishap' \in BOOLEAN
  BY <1>2, RunTypes DEF Outdated
<1>6. UNCHANGED <<listVars, submitting, server, uploads>> /\ stopped' \subseteq DOMAIN server
  BY <1>2, RunTypes DEF serverVars
<1> QED BY <1>3, <1>4, <1>5, <1>6, RunStep

LEMMA PollFailsStep == ASSUME IInv, PollFails PROVE IInv'
<1>1. PICK i \in DOMAIN polls :
        /\ interval' = Null /\ polls' = RemoveAt(polls, i) /\ mishap' = TRUE
        /\ UNCHANGED <<listVars, submitting, run, serverVars>>
  BY DEF PollFails
<1>2. polls' \in Seq([run : DOMAIN server, status : Statuses]) /\ Len(polls') <= MaxPolls
  BY <1>1, PollAnswered
<1>3. UNCHANGED <<listVars, submitting, server, uploads, run>> /\ stopped' \subseteq DOMAIN server
  BY <1>1, RunTypes DEF serverVars
<1> QED BY <1>1, <1>2, <1>3, RunTypes, RunStep

LEMMA AdvanceStep == ASSUME IInv, NEW r \in 1..MaxRuns, Advance(r) PROVE IInv'
<1> USE DEF IInv
<1>1. PICK status \in Statuses : server' = [server EXCEPT ![r] = status]
  BY DEF Advance, Statuses, Terminal
<1>2. server \in Seq(Statuses) /\ r \in DOMAIN server
  BY DEF Advance, TypeOK
<1>3. server' \in Seq(Statuses) /\ DOMAIN server' = DOMAIN server /\ Len(server') = Len(server)
  BY <1>1, <1>2
<1>4. UNCHANGED <<listVars, submitting, runVars, uploads, stopped>>
  BY DEF Advance
<1>5. TypeOK'
  BY <1>3, <1>4, Zenon DEF TypeOK, listVars, runVars
<1>6. ListInv' /\ SentInv'
  BY <1>4 DEF ListInv, SentInv, listVars
<1> QED BY <1>5, <1>6

LEMMA RestartStep == ASSUME IInv, Restart PROVE IInv'
<1>1. UNCHANGED <<listVars, submitting, run, interval, polls, server, uploads>>
      /\ stopped' \subseteq DOMAIN server /\ mishap' = (mishap \/ run # Null)
  BY DEF Restart
<1>2. mishap' \in BOOLEAN
  BY <1>1, RunTypes
<1> QED BY <1>1, <1>2, RunTypes, RunStep
-----------------------------------------------------------------------------
LEMMA InvStep == IInv /\ [Next]_vars => IInv'
<1> SUFFICES ASSUME IInv, [Next]_vars PROVE IInv'
  OBVIOUS
<1>1. CASE UNCHANGED vars
  <2>1. UNCHANGED <<listVars, submitting, server, uploads, run, interval, polls, mishap, stopped>>
    BY <1>1 DEF vars, runVars, serverVars
  <2> QED BY <2>1, RunTypes, RunStep
<1>2. CASE Next
  BY <1>2, PickFilesStep, CheckFilesStep, AddMoreFilesStep, CheckAnswersStep, RemoveFileStep,
     TypePasswordStep, ResetStep, SubmitStep, SubmitAnswersStep, PollStep, PollAnswersStep,
     PollFailsStep, LeaveStep, AdvanceStep, RestartStep DEF Next
<1> QED BY <1>1, <1>2

(* The invariant above holds in every behaviour.                           *)
THEOREM Invariance == Spec => []IInv
<1> QED BY InvInit, InvStep, PTL DEF Spec

(* The page, its requests and the runs of the server keep their types: no  *)
(* poll, interval or display ever names a run the server does not have.    *)
THEOREM TypeCorrect == Spec => []TypeOK
<1>1. IInv => TypeOK
  BY DEF IInv
<1> QED BY <1>1, Invariance, PTL

(* A page nobody meddled with during a check uploads the rows it lists, in *)
(* their order, each once and every locked one with a password.            *)
THEOREM UploadIsList == Spec => []UploadIsWhatWasListed
<1>1. IInv => UploadIsWhatWasListed
  BY DEF IInv, SentInv, Honest, UploadIsWhatWasListed
<1> QED BY <1>1, Invariance, PTL
=============================================================================
