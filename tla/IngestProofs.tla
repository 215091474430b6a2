---------------------------- MODULE IngestProofs ----------------------------
(***************************************************************************)
(* Proofs about one call of ingest() for any documents, any seed and any   *)
(* number of files.  What each position is comes from an invariant over    *)
(* what has been taken so far: a step adds at most the evidence of one     *)
(* holding, or hears one file's silence.  What a call returns is the fold  *)
(* of its batch, which is unfolded into the chain of its intermediate      *)
(* ledgers (Folds of the batch); properties of the whole batch are then    *)
(* carried along two chains at a time (The same files twice, The same      *)
(* files in another order).                                                *)
(***************************************************************************)
EXTENDS IngestRequirements, FiniteSetTheorems, WellFoundedInduction, TLAPS

(* CurrentUnlessRedeemed, with evidence instead of the set of candidates.  *)
EvidenceIsPosition == \A k, p : Evidence(k, p) => p \in Position
Settled(k, p) ==
    \/ k \in DOMAIN positions /\ AtLeast(positions[k], p)
    \/ \E q : Evidence(k, q) /\ AtLeast(q, p) /\ Redeemed(k, q)
EvidenceIsSettled == \A k, p : Evidence(k, p) => Settled(k, p)

-----------------------------------------------------------------------------
(* The supersession order is a total preorder on positions.                *)
LEMMA AtLeastOrder ==
    ASSUME NEW p \in Position, NEW q \in Position, NEW r \in Position
    PROVE  /\ AtLeast(p, p)
           /\ AtLeast(p, q) \/ AtLeast(q, p)
           /\ Newer(p, q) => AtLeast(p, q)
           /\ AtLeast(p, q) /\ AtLeast(q, r) => AtLeast(p, r)
BY NoneAssumption DEF Position, AtLeast, Newer, IssuedLater

(* What a holding states is a position when it does not raise.             *)
LEMMA StatedIsPosition ==
    ASSUME NEW d \in Document, NEW j \in DOMAIN d.holdings, ~Raises(d, d.holdings[j]),
           NEW k \in DOMAIN Stated(d, d.holdings[j])
    PROVE  Stated(d, d.holdings[j])[k] \in Position
<1> DEFINE h == d.holdings[j]
<1>1. h \in Holding
  BY DEF Document
<1>2. /\ h.value \in Int /\ h.currency \in Currencies /\ h.asOf \in Int
      /\ d.issued \in Int \cup {None} /\ d.source \in Sources \cup {None}
      /\ d.type = "epf_passbook" => h.employer \in Int /\ h.pension \in Int
  BY <1>1 DEF Raises, Document, Holding
<1> HIDE DEF h
<1>3. CASE d.type = "epf_passbook"
  BY <1>2, <1>3 DEF Stated, Position, h
<1>4. CASE d.type # "epf_passbook"
  BY <1>2, <1>4 DEF Stated, Position, h
<1> QED BY <1>3, <1>4

(* Merging keeps every key, and gives each one whole of what was there or  *)
(* what is new.                                                            *)
LEMMA MergeTakesOne ==
    ASSUME NEW ps, NEW new
    PROVE  /\ DOMAIN Merge(ps, new) = DOMAIN ps \cup DOMAIN new
           /\ \A k \in DOMAIN Merge(ps, new) :
                \/ /\ k \in DOMAIN new /\ ShouldReplace(ps, k, new[k])
                   /\ Merge(ps, new)[k] = new[k]
                \/ /\ k \in DOMAIN ps
                   /\ k \in DOMAIN new => ~ShouldReplace(ps, k, new[k])
                   /\ Merge(ps, new)[k] = ps[k]
<1>1. DOMAIN Merge(ps, new) = DOMAIN ps \cup DOMAIN new
  BY DEF Merge
<1>2. ASSUME NEW k \in DOMAIN Merge(ps, new), k \in DOMAIN new, ShouldReplace(ps, k, new[k])
      PROVE  Merge(ps, new)[k] = new[k]
  BY <1>1, <1>2 DEF Merge
<1>3. ASSUME NEW k \in DOMAIN Merge(ps, new),
             ~(k \in DOMAIN new /\ ShouldReplace(ps, k, new[k]))
      PROVE  k \in DOMAIN ps /\ Merge(ps, new)[k] = ps[k]
  BY <1>1, <1>3 DEF Merge, ShouldReplace
<1> QED BY <1>1, <1>2, <1>3

LEMMA MergeIsFunction ==
    ASSUME NEW ps, NEW new
    PROVE  Merge(ps, new) = [k \in DOMAIN Merge(ps, new) |-> Merge(ps, new)[k]]
BY DEF Merge

LEMMA MergeKeeps ==
    ASSUME NEW ps, NEW new, NEW k \in DOMAIN ps, k \notin DOMAIN new
    PROVE  k \in DOMAIN Merge(ps, new) /\ Merge(ps, new)[k] = ps[k]
BY DEF Merge

(* A typed state is at a document of the batch, with its holdings.         *)
LEMMA FileIsDocument ==
    ASSUME TypeOK, fileNo <= Len(batch)
    PROVE  /\ File \in Document /\ fileNo \in DOMAIN batch /\ fileNo \in Nat
           /\ File.holdings \in Seq(Holding)
BY DocumentsAssumption DEF TypeOK, File, Document
-----------------------------------------------------------------------------
LEMMA TypeInit == Init => TypeOK
<1> SUFFICES ASSUME Init PROVE TypeOK
    OBVIOUS
<1>1. PICK n \in 1..MaxFiles : batch \in [1..n -> Documents]
  BY DEF Init
<1>2. batch \in Seq(Documents) /\ Len(batch) = n /\ n \in Nat
  BY <1>1, BatchAssumption
<1> QED BY <1>2, SeedsAssumption DEF Init, TypeOK

LEMMA TypeStep == TypeOK /\ [Next]_vars => TypeOK'
<1> SUFFICES ASSUME TypeOK, [Next]_vars PROVE TypeOK'
    OBVIOUS
<1>0. /\ batch \in Seq(Documents) /\ Len(batch) \in Nat
      /\ fileNo \in 1..Len(batch) + 1 /\ holdingNo \in Nat \ {0}
  BY DEF TypeOK
<1>1. CASE SetAside BY <1>0, <1>1 DEF SetAside, TypeOK
<1>2. CASE Accept BY <1>0, <1>2 DEF Accept, TypeOK, File
<1>3. CASE TakeHolding
  <2> DEFINE new == Stated(File, File.holdings[holdingNo])
  <2>1. File \in Document /\ holdingNo \in DOMAIN File.holdings
    BY <1>0, <1>3, FileIsDocument DEF TakeHolding, TypeOK
  <2>2. \A k \in DOMAIN new : new[k] \in Position
    BY <1>3, <2>1, StatedIsPosition DEF TakeHolding
  <2>3. ASSUME NEW k \in DOMAIN positions' PROVE positions'[k] \in Position
    <3> HIDE DEF new
    <3>1. positions' = Merge(positions, new)
      BY <1>3 DEF TakeHolding, new
    <3>2. \/ k \in DOMAIN new /\ Merge(positions, new)[k] = new[k]
          \/ k \in DOMAIN positions /\ Merge(positions, new)[k] = positions[k]
      <4>1. k \in DOMAIN Merge(positions, new)
        BY <3>1
      <4> QED BY <4>1, MergeTakesOne, Zenon
    <3> QED BY <2>2, <3>1, <3>2 DEF TypeOK
  <2>4. positions' \in [DOMAIN positions' -> Position]
    <3>1. positions' = [k \in DOMAIN positions' |-> positions'[k]]
      BY <1>3, MergeIsFunction DEF TakeHolding
    <3> QED BY <2>3, <3>1
  <2> QED BY <1>0, <1>3, <2>4 DEF TakeHolding, TypeOK, File
<1>4. CASE EndFile
  <2>1. \A k \in DOMAIN positions' : positions'[k] \in Position
    BY <1>4 DEF EndFile, TypeOK
  <2>2. fileNo' \in 1..Len(batch) + 1
    BY <1>0, <1>4 DEF EndFile, TypeOK
  <2> QED BY <1>0, <1>4, <2>1, <2>2 DEF EndFile, TypeOK
<1>5. CASE Raise BY <1>0, <1>5 DEF Raise, TypeOK
<1>6. CASE Return BY <1>0, <1>6 DEF Return, TypeOK
<1>7. CASE UNCHANGED vars BY <1>7 DEF vars, TypeOK
<1> QED BY <1>1, <1>2, <1>3, <1>4, <1>5, <1>6, <1>7 DEF Next
-----------------------------------------------------------------------------
(* Evidence is never lost, and a file that has been heard stays heard.     *)
LEMMA EvidenceStays ==
    ASSUME TypeOK, [Next]_vars
    PROVE  /\ batch' = batch /\ seed' = seed
           /\ \A i, j : Taken(i, j) => Taken(i, j)'
           /\ \A i, j, k, p : StatedAt(i, j, k, p) => StatedAt(i, j, k, p)'
           /\ \A k, p : Evidence(k, p) => Evidence(k, p)'
           /\ \A i : Heard(i) => Heard(i)'
<1>0. fileNo \in Nat /\ holdingNo \in Nat /\ fileNo \in 1..Len(batch) + 1
  BY DEF TypeOK
<1>1. batch' = batch /\ seed' = seed
  BY DEF Next, SetAside, Accept, TakeHolding, EndFile, Raise, Return, vars
<1>2. \/ fileNo' = fileNo + 1 /\ pc' = "file"
      \/ fileNo' = fileNo /\ (pc = "file" \/ (pc' # "file" /\ holdingNo' \in {holdingNo, holdingNo + 1}))
      \/ UNCHANGED <<fileNo, holdingNo, pc>>
  BY DEF Next, SetAside, Accept, TakeHolding, EndFile, Raise, Return, vars
<1>3. ASSUME NEW i, NEW j, Taken(i, j) PROVE Taken(i, j)'
  <2>1. i \in DOMAIN batch /\ j \in DOMAIN batch[i].holdings /\ Accepted(batch[i])
        /\ (i < fileNo \/ (i = fileNo /\ pc # "file" /\ j < holdingNo))
    BY <1>3 DEF Taken
  <2>2. i \in Nat
    BY <2>1 DEF TypeOK
  <2>3. j \in Nat
    BY <2>1, DocumentsAssumption DEF TypeOK, Document
  <2> QED BY <1>0, <1>1, <1>2, <2>1, <2>2, <2>3 DEF Taken
<1>4. ASSUME NEW i, Heard(i) PROVE Heard(i)'
  <2>1. i \in Nat
    BY <1>4 DEF Heard, TypeOK
  <2> QED BY <1>0, <1>1, <1>2, <1>4, <2>1 DEF Heard
<1>5. ASSUME NEW i, NEW j, NEW k, NEW p, StatedAt(i, j, k, p) PROVE StatedAt(i, j, k, p)'
  BY <1>1, <1>3, <1>5 DEF StatedAt
<1>6. ASSUME NEW k, NEW p, Evidence(k, p) PROVE Evidence(k, p)'
  BY <1>1, <1>5, <1>6 DEF Evidence, InSeed
<1> QED BY <1>1, <1>3, <1>4, <1>5, <1>6

(* Taking a holding makes evidence of what it states, and of nothing else. *)
LEMMA TakingAddsOne ==
    ASSUME TypeOK, TakeHolding, NEW i, i = fileNo, NEW j, j = holdingNo,
           NEW new, new = Stated(batch[i], batch[i].holdings[j])
    PROVE  /\ positions' = Merge(positions, new)
           /\ \A k \in DOMAIN new : \A p : p = new[k] =>
                 StatedAt(i, j, k, p)' /\ Evidence(k, p)' /\ p \in Position
           /\ \A k, p : Evidence(k, p)' =>
                 Evidence(k, p) \/ (k \in DOMAIN new /\ p = new[k])
<1>0. /\ i \in Nat /\ j \in Nat /\ batch[i] \in Document
      /\ i \in DOMAIN batch /\ j \in DOMAIN batch[i].holdings
      /\ Accepted(batch[i]) /\ pc = "holdings"
      /\ ~Raises(batch[i], batch[i].holdings[j])
  BY FileIsDocument DEF TakeHolding, TypeOK, File
<1>1. UNCHANGED <<batch, seed, pc, fileNo>> /\ holdingNo' = j + 1
      /\ positions' = Merge(positions, new)
  BY DEF TakeHolding, File
<1>2. ASSUME NEW k \in DOMAIN new, NEW p, p = new[k]
      PROVE  StatedAt(i, j, k, p)' /\ Evidence(k, p)' /\ p \in Position
  <2>1. Taken(i, j)'
    BY <1>0, <1>1 DEF Taken
  <2>2. StatedAt(i, j, k, p)'
    BY <1>0, <1>1, <1>2, <2>1 DEF StatedAt
  <2>3. p \in Position
    BY <1>0, <1>2, StatedIsPosition
  <2> QED BY <1>0, <1>1, <2>2, <2>3 DEF Evidence
<1>3. ASSUME NEW m, NEW n, Taken(m, n)', ~Taken(m, n) PROVE m = i /\ n = j
  <2>1. m \in DOMAIN batch /\ n \in DOMAIN batch[m].holdings
    BY <1>1, <1>3 DEF Taken
  <2>2. m \in Nat /\ n \in Nat
    BY <2>1, DocumentsAssumption DEF TypeOK, Document
  <2> QED BY <1>0, <1>1, <1>3, <2>2 DEF Taken
<1>4. ASSUME NEW k, NEW p, Evidence(k, p)', ~Evidence(k, p)
      PROVE  k \in DOMAIN new /\ p = new[k]
  <2>1. PICK m \in DOMAIN batch : \E n \in DOMAIN batch[m].holdings : StatedAt(m, n, k, p)'
    BY <1>1, <1>4 DEF Evidence, InSeed
  <2>2. PICK n \in DOMAIN batch[m].holdings : StatedAt(m, n, k, p)'
    BY <2>1
  <2>3. ~StatedAt(m, n, k, p)
    BY <1>4 DEF Evidence
  <2>4. m = i /\ n = j
    BY <1>1, <1>3, <2>2, <2>3 DEF StatedAt
  <2> QED BY <1>0, <1>1, <2>2, <2>4 DEF StatedAt
<1> QED BY <1>1, <1>2, <1>4

(* No other step makes evidence: a file is accepted before its first       *)
(* holding is taken and ended after its last, a file set aside has none.   *)
LEMMA OthersAddNothing ==
    ASSUME TypeOK, [Next]_vars, ~TakeHolding
    PROVE  \A k, p : Evidence(k, p)' => Evidence(k, p)
<1>0. fileNo \in Nat /\ holdingNo \in Nat /\ fileNo \in 1..Len(batch) + 1 /\ batch \in Seq(Documents)
  BY DEF TypeOK
<1>1. batch' = batch /\ seed' = seed
  BY EvidenceStays
<1>2. ASSUME NEW i, NEW j, Taken(i, j)' PROVE Taken(i, j)
  <2>1. i \in DOMAIN batch /\ j \in DOMAIN batch[i].holdings /\ Accepted(batch[i])
        /\ (i < fileNo' \/ (i = fileNo' /\ pc' # "file" /\ j < holdingNo'))
    BY <1>1, <1>2 DEF Taken
  <2>2. i \in 1..Len(batch) /\ i \in Nat /\ j \in Nat /\ j >= 1
        /\ j <= Len(batch[i].holdings) /\ Len(batch[i].holdings) \in Nat
    BY <1>0, <2>1, DocumentsAssumption DEF Document
  <2>3. CASE SetAside
    BY <1>0, <2>1, <2>2, <2>3 DEF SetAside, Taken, Accepted, File
  <2>4. CASE Accept
    BY <1>0, <2>1, <2>2, <2>4 DEF Accept, Taken
  <2>5. CASE EndFile
    BY <1>0, <2>1, <2>2, <2>5 DEF EndFile, Taken, File
  <2>6. CASE Raise
    BY <1>0, <2>1, <2>2, <2>6 DEF Raise, Taken, Accepted, File
  <2>7. CASE Return
    BY <1>0, <2>1, <2>2, <2>7 DEF Return, Taken
  <2>8. CASE UNCHANGED vars
    BY <2>1, <2>8 DEF vars, Taken
  <2> QED BY <2>3, <2>4, <2>5, <2>6, <2>7, <2>8 DEF Next
<1> QED BY <1>1, <1>2 DEF Evidence, InSeed, StatedAt

(* What is no longer there was redeemed by the file that ends; what is     *)
(* there is as before.                                                     *)
LEMMA OthersKeepPositions ==
    ASSUME [Next]_vars, ~TakeHolding, ~EndFile
    PROVE  positions' = positions
BY DEF Next, SetAside, Accept, Raise, Return, vars
-----------------------------------------------------------------------------
(* What is in the ledger is what was there, or what the holding at hand    *)
(* stated and the old position did not outdate.                            *)
LEMMA WherePositionsComeFrom ==
    ASSUME TypeOK, [Next]_vars, NEW k \in DOMAIN positions', NEW p, p = positions'[k]
    PROVE  \/ k \in DOMAIN positions /\ p = positions[k]
           \/ /\ TakeHolding
              /\ \E i, j : i = fileNo /\ StatedAt(i, j, k, p)' /\ Evidence(k, p)'
<1>1. CASE TakeHolding
  <2> DEFINE new == Stated(batch[fileNo], batch[fileNo].holdings[holdingNo])
  <2> HIDE DEF new
  <2>1. positions' = Merge(positions, new)
    BY <1>1, TakingAddsOne DEF new
  <2>2. CASE k \in DOMAIN new /\ p = new[k]
    <3> DEFINE i == fileNo
               j == holdingNo
    <3>1. \E m, n : m = fileNo /\ n = holdingNo
      OBVIOUS
    <3>2. PICK m, n : m = fileNo /\ n = holdingNo
      BY <3>1
    <3>3. StatedAt(m, n, k, p)' /\ Evidence(k, p)'
      BY <1>1, <2>2, <3>2, TakingAddsOne DEF new
    <3> QED BY <1>1, <3>2, <3>3
  <2>3. CASE k \in DOMAIN positions /\ p = positions[k]
    BY <2>3
  <2>4. \/ k \in DOMAIN new /\ Merge(positions, new)[k] = new[k]
        \/ k \in DOMAIN positions /\ Merge(positions, new)[k] = positions[k]
    <3>1. k \in DOMAIN Merge(positions, new)
      BY <2>1
    <3> QED BY <3>1, MergeTakesOne, Zenon
  <2> QED BY <2>1, <2>2, <2>3, <2>4
<1>2. CASE ~TakeHolding
  BY <1>2, OthersKeepPositions DEF EndFile
<1> QED BY <1>1, <1>2

LEMMA EvidenceStep == TypeOK /\ EveryPositionIsEvidence /\ [Next]_vars => EveryPositionIsEvidence'
<1> SUFFICES ASSUME TypeOK, EveryPositionIsEvidence, [Next]_vars,
                    NEW k \in DOMAIN positions', NEW p, p = positions'[k]
             PROVE  Evidence(k, p)'
    BY DEF EveryPositionIsEvidence
<1>1. Evidence(k, p) => Evidence(k, p)'
  BY EvidenceStays
<1> QED BY <1>1, WherePositionsComeFrom DEF EveryPositionIsEvidence

(* The silence of a file that has been heard removed what it redeems; what *)
(* is stated later comes from a later file.                                *)
LEMMA RedemptionStep == TypeOK /\ RedemptionLeavesNothing /\ [Next]_vars => RedemptionLeavesNothing'
<1> SUFFICES ASSUME TypeOK, RedemptionLeavesNothing, [Next]_vars,
                    NEW k \in DOMAIN positions', NEW p, p = positions'[k],
                    NEW i \in DOMAIN batch, Heard(i)', Redeems(batch[i]),
                    RedeemedBy(batch[i], k, p)
             PROVE  \E n \in DOMAIN batch : \E j \in DOMAIN batch[n].holdings :
                        n > i /\ StatedAt(n, j, k, p)'
    BY EvidenceStays DEF RedemptionLeavesNothing
<1>0. /\ batch' = batch /\ i \in Nat /\ fileNo \in Nat
      /\ \A n, j : StatedAt(n, j, k, p) => StatedAt(n, j, k, p)'
  BY EvidenceStays DEF TypeOK
<1>1. CASE k \in DOMAIN positions /\ p = positions[k] /\ Heard(i)
  BY <1>0, <1>1 DEF RedemptionLeavesNothing
<1>2. CASE k \in DOMAIN positions /\ p = positions[k] /\ ~Heard(i)
  <2>1. i = fileNo /\ EndFile
    <3>1. i < fileNo' /\ ~(i < fileNo) /\ Accepted(batch[i])
      BY <1>0, <1>2 DEF Heard
    <3>2. fileNo' = fileNo + 1 /\ i = fileNo
      BY <1>0, <3>1 DEF Next, SetAside, Accept, TakeHolding, EndFile, Raise, Return, vars
    <3> QED BY <1>0, <3>1, <3>2
            DEF Next, SetAside, Accept, TakeHolding, EndFile, Raise, Return, vars, Accepted, File
  <2>2. k \in DOMAIN positions' => ~(Redeems(File) /\ RedeemedBy(File, k, positions[k]))
    BY <2>1 DEF EndFile
  <2> QED BY <1>2, <2>1, <2>2 DEF File
<1>3. ASSUME TakeHolding, NEW n, NEW j, n = fileNo, StatedAt(n, j, k, p)'
      PROVE  \E m \in DOMAIN batch : \E l \in DOMAIN batch[m].holdings :
                 m > i /\ StatedAt(m, l, k, p)'
  <2>1. n \in DOMAIN batch /\ j \in DOMAIN batch[n].holdings
    BY <1>0, <1>3 DEF StatedAt, Taken
  <2>2. i < n
    BY <1>0, <1>3 DEF TakeHolding, Heard
  <2> QED BY <1>0, <1>3, <2>1, <2>2
<1> QED BY <1>1, <1>2, <1>3, WherePositionsComeFrom
-----------------------------------------------------------------------------
LEMMA PositionStep == TypeOK /\ EvidenceIsPosition /\ [Next]_vars => EvidenceIsPosition'
<1> SUFFICES ASSUME TypeOK, EvidenceIsPosition, [Next]_vars, NEW k, NEW p, Evidence(k, p)'
             PROVE  p \in Position
    BY DEF EvidenceIsPosition
<1>1. CASE TakeHolding
  <2> DEFINE new == Stated(batch[fileNo], batch[fileNo].holdings[holdingNo])
  <2> HIDE DEF new
  <2>1. Evidence(k, p) \/ (k \in DOMAIN new /\ p = new[k])
    BY <1>1, TakingAddsOne DEF new
  <2>2. k \in DOMAIN new /\ p = new[k] => p \in Position
    BY <1>1, TakingAddsOne DEF new
  <2> QED BY <2>1, <2>2 DEF EvidenceIsPosition
<1>2. CASE ~TakeHolding
  BY <1>2, OthersAddNothing DEF EvidenceIsPosition
<1> QED BY <1>1, <1>2

LEMMA RedeemedStays ==
    ASSUME TypeOK, [Next]_vars, NEW k, NEW p, Redeemed(k, p)
    PROVE  Redeemed(k, p)'
BY EvidenceStays DEF Redeemed

(* A holding that is taken is itself what its key holds, or is outdated by *)
(* it; what the key held before is outdated by what replaces it.           *)
LEMMA SettledByTaking ==
    ASSUME TypeOK, EvidenceIsPosition, EvidenceIsSettled, TakeHolding, NEW k, NEW p,
           Evidence(k, p)'
    PROVE  Settled(k, p)'
<1> DEFINE new == Stated(batch[fileNo], batch[fileNo].holdings[holdingNo])
<1> HIDE DEF new
<1>0. [Next]_vars
  BY DEF Next
<1>1. positions' = Merge(positions, new)
  BY TakingAddsOne DEF new
<1>2. p \in Position
  BY <1>0, PositionStep DEF EvidenceIsPosition
<1>3. \A x \in DOMAIN new : new[x] \in Position
  BY TakingAddsOne DEF new
<1>4. DOMAIN positions' = DOMAIN positions \cup DOMAIN new
  BY <1>1, MergeTakesOne
<1>5. CASE k \in DOMAIN new /\ p = new[k]
  <2>1. k \in DOMAIN Merge(positions, new)
    BY <1>1, <1>4, <1>5
  <2>2. \/ Merge(positions, new)[k] = new[k]
        \/ k \in DOMAIN positions /\ ~ShouldReplace(positions, k, new[k])
           /\ Merge(positions, new)[k] = positions[k]
    BY <2>1, <1>5, MergeTakesOne, Zenon
  <2>3. AtLeast(p, p)
    BY <1>2, AtLeastOrder
  <2>4. AtLeast(Merge(positions, new)[k], p)
    BY <1>5, <2>2, <2>3 DEF ShouldReplace, AtLeast
  <2> QED BY <1>1, <2>1, <2>4 DEF Settled, AtLeast
<1>6. CASE Evidence(k, p) /\ k \in DOMAIN positions /\ AtLeast(positions[k], p)
  <2>1. k \in DOMAIN Merge(positions, new)
    BY <1>1, <1>4, <1>6
  <2>2. \/ Merge(positions, new)[k] = positions[k]
        \/ k \in DOMAIN new /\ ShouldReplace(positions, k, new[k])
           /\ Merge(positions, new)[k] = new[k]
    BY <2>1, MergeTakesOne, Zenon
  <2>3. CASE Merge(positions, new)[k] = positions[k]
    BY <1>1, <1>6, <2>1, <2>3 DEF Settled, AtLeast
  <2>4. CASE k \in DOMAIN new /\ Newer(new[k], positions[k])
             /\ Merge(positions, new)[k] = new[k]
    <3>1. new[k] \in Position /\ positions[k] \in Position
      BY <1>3, <1>6, <2>4 DEF TypeOK
    <3>2. AtLeast(new[k], positions[k])
      BY <3>1, <2>4, AtLeastOrder
    <3>3. AtLeast(new[k], p)
      BY <1>2, <1>6, <3>1, <3>2, AtLeastOrder
    <3> QED BY <1>1, <2>1, <2>4, <3>3 DEF Settled, AtLeast
  <2> QED BY <1>6, <2>2, <2>3, <2>4 DEF ShouldReplace
<1>7. ASSUME Evidence(k, p), NEW q, Evidence(k, q), AtLeast(q, p), Redeemed(k, q)
      PROVE  Settled(k, p)'
  <2>1. Evidence(k, q)' /\ Redeemed(k, q)'
    BY <1>0, <1>7, EvidenceStays, RedeemedStays
  <2> QED BY <1>7, <2>1 DEF Settled, AtLeast
<1>8. Evidence(k, p) \/ (k \in DOMAIN new /\ p = new[k])
  BY TakingAddsOne DEF new
<1> QED BY <1>5, <1>6, <1>7, <1>8 DEF EvidenceIsSettled, Settled

LEMMA SettledStep ==
    TypeOK /\ EvidenceIsPosition /\ EveryPositionIsEvidence /\ EvidenceIsSettled /\ [Next]_vars
        => EvidenceIsSettled'
<1> SUFFICES ASSUME TypeOK, EvidenceIsPosition, EveryPositionIsEvidence, EvidenceIsSettled,
                    [Next]_vars, NEW k, NEW p, Evidence(k, p)'
             PROVE  Settled(k, p)'
    BY DEF EvidenceIsSettled
<1>1. CASE TakeHolding
  BY <1>1, SettledByTaking
<1>2. CASE ~TakeHolding
  <2>1. Settled(k, p)
    BY <1>2, OthersAddNothing DEF EvidenceIsSettled
  <2>2. ASSUME NEW q, Evidence(k, q), AtLeast(q, p), Redeemed(k, q)
        PROVE  Settled(k, p)'
    <3>1. Evidence(k, q)' /\ Redeemed(k, q)'
      BY <2>2, EvidenceStays, RedeemedStays
    <3> QED BY <2>2, <3>1 DEF Settled, AtLeast
  <2>3. CASE k \in DOMAIN positions /\ AtLeast(positions[k], p)
    <3>1. CASE k \in DOMAIN positions' /\ positions'[k] = positions[k]
      BY <2>3, <3>1 DEF Settled, AtLeast
    <3>2. CASE ~(k \in DOMAIN positions' /\ positions'[k] = positions[k])
      <4>1. EndFile /\ Redeems(File) /\ RedeemedBy(File, k, positions[k])
        <5>1. EndFile
          BY <1>2, <2>3, <3>2, OthersKeepPositions
        <5> QED BY <2>3, <3>2, <5>1 DEF EndFile
      <4>2. Evidence(k, positions[k])
        BY <2>3 DEF EveryPositionIsEvidence
      <4>3. PICK q : q = positions[k]
        OBVIOUS
      <4>4. PICK i : i = fileNo
        OBVIOUS
      <4>5. i \in DOMAIN batch /\ Accepted(batch[i]) /\ i \in Nat /\ batch' = batch
            /\ fileNo' = i + 1 /\ Redeems(batch[i]) /\ RedeemedBy(batch[i], k, q)
        BY <4>1, <4>3, <4>4, FileIsDocument, EvidenceStays DEF EndFile, TypeOK, File
      <4>6. Redeemed(k, q)'
        <5>1. Heard(i)'
          BY <4>5 DEF Heard
        <5> QED BY <4>5, <5>1 DEF Redeemed
      <4>7. Evidence(k, q)'
        BY <4>2, <4>3, EvidenceStays
      <4> QED BY <2>3, <4>3, <4>6, <4>7 DEF Settled, AtLeast
    <3> QED BY <3>1, <3>2
  <2> QED BY <2>1, <2>2, <2>3 DEF Settled
<1> QED BY <1>1, <1>2
(* A seeded position that no file mentions is only touched by the silence  *)
(* of a document of its own source.                                        *)
LEMMA SurvivalStep == TypeOK /\ OtherSourcesSurvive /\ [Next]_vars => OtherSourcesSurvive'
<1> SUFFICES ASSUME TypeOK, OtherSourcesSurvive, [Next]_vars, NEW k \in DOMAIN seed,
                    \A i \in DOMAIN batch : Accepted(batch[i]) =>
                        k \notin Mentioned(batch[i]) /\
                        (Redeems(batch[i]) => batch[i].source # seed[k].source)
             PROVE  k \in DOMAIN positions' /\ positions'[k] = seed[k]
    BY EvidenceStays DEF OtherSourcesSurvive
<1>1. k \in DOMAIN positions /\ positions[k] = seed[k]
  BY DEF OtherSourcesSurvive
<1>2. CASE TakeHolding
  <2> DEFINE new == Stated(batch[fileNo], batch[fileNo].holdings[holdingNo])
  <2>1. k \notin DOMAIN new
    <3>1. fileNo \in DOMAIN batch /\ Accepted(batch[fileNo])
          /\ holdingNo \in DOMAIN batch[fileNo].holdings
      BY <1>2, FileIsDocument DEF TakeHolding, TypeOK, File
    <3> QED BY <3>1 DEF Mentioned
  <2> HIDE DEF new
  <2>2. positions' = Merge(positions, new)
    BY <1>2, TakingAddsOne DEF new
  <2>3. k \in DOMAIN Merge(positions, new) /\ Merge(positions, new)[k] = positions[k]
    BY <1>1, <2>1, MergeKeeps
  <2> QED BY <1>1, <2>2, <2>3
<1>3. CASE EndFile
  <2>1. fileNo \in DOMAIN batch /\ Accepted(batch[fileNo]) /\ File = batch[fileNo]
    BY <1>3, FileIsDocument DEF EndFile, TypeOK, File
  <2>2. ~(Redeems(File) /\ RedeemedBy(File, k, positions[k]))
    BY <1>1, <2>1 DEF RedeemedBy
  <2> QED BY <1>1, <1>3, <2>2 DEF EndFile
<1>4. CASE ~TakeHolding /\ ~EndFile
  BY <1>1, <1>4, OthersKeepPositions
<1> QED BY <1>2, <1>3, <1>4
-----------------------------------------------------------------------------
(* The candidates are the evidence.                                        *)
LEMMA CandidatesAreEvidence ==
    /\ \A c \in Candidates : c = <<c[1], c[2]>> /\ Evidence(c[1], c[2])
    /\ \A k, p : Evidence(k, p) => <<k, p>> \in Candidates
<1>1. ASSUME NEW c \in Candidates PROVE c = <<c[1], c[2]>> /\ Evidence(c[1], c[2])
  BY <1>1 DEF Candidates, Evidence, InSeed, StatedAt
<1>2. ASSUME NEW k, NEW p, Evidence(k, p) PROVE <<k, p>> \in Candidates
  <2>1. CASE InSeed(k, p)
    BY <2>1 DEF Candidates, InSeed
  <2>2. ASSUME NEW i \in DOMAIN batch, NEW j \in DOMAIN batch[i].holdings, StatedAt(i, j, k, p)
        PROVE  <<k, p>> \in Candidates
    BY <2>2 DEF Candidates, StatedAt
  <2> QED BY <1>2, <2>1, <2>2 DEF Evidence
<1> QED BY <1>1, <1>2

LEMMA SettledIsCurrent == EvidenceIsSettled => CurrentUnlessRedeemed
<1> SUFFICES ASSUME EvidenceIsSettled, NEW c \in Candidates
             PROVE  \/ c[1] \in DOMAIN positions /\ AtLeast(positions[c[1]], c[2])
                    \/ \E q \in Candidates : /\ q[1] = c[1] /\ AtLeast(q[2], c[2])
                                             /\ Redeemed(q[1], q[2])
    BY DEF CurrentUnlessRedeemed
<1>1. Settled(c[1], c[2])
  BY CandidatesAreEvidence DEF EvidenceIsSettled
<1>2. ASSUME NEW q, Evidence(c[1], q), AtLeast(q, c[2]), Redeemed(c[1], q)
      PROVE  \E r \in Candidates : /\ r[1] = c[1] /\ AtLeast(r[2], c[2])
                                  /\ Redeemed(r[1], r[2])
  <2>1. <<c[1], q>> \in Candidates
    BY <1>2, CandidatesAreEvidence
  <2> QED BY <1>2, <2>1
<1> QED BY <1>1, <1>2 DEF Settled

-----------------------------------------------------------------------------
(* Folds of the batch                                                      *)

(* What holds of 0 and with n of n + 1 holds of every natural number, or   *)
(* there would be a least counterexample.                                  *)
LEMMA Induction ==
    ASSUME NEW S, 0 \in S, \A n \in Nat : n \in S => n + 1 \in S
    PROVE  Nat \subseteq S
<1> DEFINE T == Nat \ S
           R == OpToRel(<, Nat)
<1>1. \A m, n \in Nat : m < n => <<m, n>> \in R
  BY DEF OpToRel
<1>2. SUFFICES ASSUME T # {} PROVE FALSE
  OBVIOUS
<1> HIDE DEF R
<1>3. IsWellFoundedOn(R, Nat)
  BY NatLessThanWellFounded, Zenon DEF R
<1>4. PICK x \in T : \A y \in T : ~(<<y, x>> \in R)
  <2> T \subseteq Nat OBVIOUS
  <2> HIDE DEF T
  <2> QED BY <1>2, <1>3, WFMin
<1>5. x # 0 /\ x \in Nat
  BY <1>4
<1>6. x - 1 \in T /\ x - 1 \in Nat /\ x - 1 < x
  BY <1>5, <1>4
<1>7. <<x - 1, x>> \in R
  BY <1>1, <1>5, <1>6
<1> QED BY <1>4, <1>6, <1>7

(* A step of the two folds of a call: the next holding of the document d,  *)
(* or the next file.                                                       *)
Advance(kind, d, ps, x) ==
    IF kind = "files" THEN Ingested(ps, x) ELSE Merge(ps, Stated(d, x))

(* e lists what such a fold of seq into base has after each step.          *)
IsChain(kind, d, e, base, seq) ==
    /\ e[0] = base
    /\ \A n \in 1..Len(seq) : e[n] = Advance(kind, d, e[n - 1], seq[n])

(* f does so for every set of indices, the greatest one last.              *)
Solves(kind, d, base, seq, f) ==
    f = [s \in SUBSET DOMAIN seq |->
            IF s = {} THEN base ELSE Advance(kind, d, f[s \ {Max(s)}], seq[Max(s)])]

IsSequence(seq) == Len(seq) \in Nat /\ DOMAIN seq = 1..Len(seq)

(* The greatest of the first n numbers is n.                               *)
LEMMA LastOfInterval ==
    ASSUME NEW n \in Nat \ {0}
    PROVE  Max(1..n) = n /\ (1..n) \ {n} = 1..(n - 1)
BY DEF Max

LEMMA MaxIsMember ==
    ASSUME NEW n \in Nat, NEW s \in SUBSET (1..n), s # {}
    PROVE  Max(s) \in s
<1> DEFINE Good == {m \in Nat : \A t \in SUBSET (1..m) : t # {} => \E x \in t : \A y \in t : x >= y}
<1>1. 0 \in Good
  <2>1. \A t \in SUBSET (1..0) : t = {}
    OBVIOUS
  <2> QED BY <2>1
<1>2. ASSUME NEW m \in Nat, m \in Good PROVE m + 1 \in Good
  <2> SUFFICES ASSUME NEW t \in SUBSET (1..(m + 1)), t # {} PROVE \E x \in t : \A y \in t : x >= y
    OBVIOUS
  <2>1. CASE m + 1 \in t BY <2>1
  <2>2. CASE m + 1 \notin t
    <3>1. t \in SUBSET (1..m)
      BY <2>2
    <3> QED BY <1>2, <3>1
  <2> QED BY <2>1, <2>2
<1>3. n \in Good
  <2> HIDE DEF Good
  <2> QED BY <1>1, <1>2, Induction
<1> QED BY <1>3 DEF Max

(* The folds are solutions of their recursion, which has one.              *)
LEMMA FoldSolvable ==
    ASSUME NEW kind, NEW d, NEW base, NEW seq, IsSequence(seq)
    PROVE  \E f : Solves(kind, d, base, seq, f)
<1> DEFINE S == DOMAIN seq
           Step(f, s) == IF s = {} THEN base
                         ELSE Advance(kind, d, f[s \ {Max(s)}], seq[Max(s)])
           Solved(f, n) == \A s \in SUBSET S : Cardinality(s) <= n => f[s] = Step(f, s)
           Good == {n \in Nat : \E f : Solved(f, n)}
<1>1. \A s \in SUBSET S : IsFiniteSet(s) /\ Cardinality(s) \in Nat /\ Cardinality(s) <= Cardinality(S)
                          /\ (Cardinality(s) = 0 <=> s = {})
  <2>1. IsFiniteSet(S)
    BY FS_Interval DEF IsSequence
  <2> QED BY <2>1, FS_Subset, FS_CardinalityType, FS_EmptySet
<1>2. \A s \in SUBSET S : s # {} => /\ s \ {Max(s)} \in SUBSET S
                                     /\ Cardinality(s \ {Max(s)}) = Cardinality(s) - 1
  BY <1>1, FS_RemoveElement, MaxIsMember DEF IsSequence
<1>3. 0 \in Good
  <2>1. Solved([s \in SUBSET S |-> base], 0)
    BY <1>1
  <2> HIDE DEF Solved
  <2> QED BY <2>1
<1>4. ASSUME NEW n \in Nat, n \in Good PROVE n + 1 \in Good
  <2>1. PICK f : Solved(f, n)
    BY <1>4
  <2> DEFINE h == [s \in SUBSET S |-> IF Cardinality(s) <= n THEN f[s] ELSE Step(f, s)]
  <2>2. ASSUME NEW s \in SUBSET S, Cardinality(s) <= n + 1 PROVE h[s] = Step(h, s)
    <3>1. s # {} => s \ {Max(s)} \in SUBSET S /\ Cardinality(s \ {Max(s)}) <= n
      BY <1>1, <1>2, <2>2
    <3>2. s # {} => h[s \ {Max(s)}] = f[s \ {Max(s)}]
      <4> HIDE DEF Step
      <4> QED BY <3>1
    <3>3. Step(h, s) = Step(f, s)
      <4> HIDE DEF h
      <4> QED BY <3>2
    <3>4. h[s] = Step(f, s)
      <4> HIDE DEF Step
      <4> QED BY <2>1
    <3> QED BY <3>3, <3>4
  <2>3. Solved(h, n + 1)
    <3> HIDE DEF h, Step
    <3> QED BY <2>2
  <2> HIDE DEF h, Solved
  <2> QED BY <2>3
<1>5. Cardinality(S) \in Good
  <2> HIDE DEF Good
  <2> QED BY <1>1, <1>3, <1>4, Induction
<1>6. PICK f : Solved(f, Cardinality(S))
  BY <1>5
<1>7. \A s \in SUBSET S : f[s] = Step(f, s)
  <2> HIDE DEF Step
  <2> QED BY <1>1, <1>6
<1> DEFINE g == [s \in SUBSET S |-> f[s]]
<1>8. ASSUME NEW s \in SUBSET S PROVE g[s] = Step(g, s)
  <2>1. s # {} => g[s \ {Max(s)}] = f[s \ {Max(s)}]
    BY <1>2
  <2>2. Step(g, s) = Step(f, s)
    <3> HIDE DEF g
    <3> QED BY <2>1
  <2> HIDE DEF Step
  <2> QED BY <1>7, <2>2
<1>9. g = [s \in SUBSET S |-> Step(g, s)]
  <2> HIDE DEF Step
  <2> QED BY <1>8
<1> HIDE DEF g
<1>10. Solves(kind, d, base, seq, g)
  BY <1>9 DEF Solves
<1> QED BY <1>10

(* Such a solution runs through its sequence step by step.                 *)
LEMMA SolutionIsChain ==
    ASSUME NEW kind, NEW d, NEW base, NEW seq, IsSequence(seq), NEW iter,
           Solves(kind, d, base, seq, iter)
    PROVE  \E e : IsChain(kind, d, e, base, seq) /\ e[Len(seq)] = iter[DOMAIN seq]
<1> DEFINE e == [n \in 0..Len(seq) |-> iter[1..n]]
<1>1. e[0] = base
  <2>1. 1..0 = {} /\ iter[{}] = base
    BY DEF Solves
  <2> QED BY <2>1 DEF IsSequence
<1>2. ASSUME NEW n \in 1..Len(seq) PROVE e[n] = Advance(kind, d, e[n - 1], seq[n])
  <2>1. n \in Nat \ {0} /\ n - 1 \in 0..Len(seq) /\ n \in 0..Len(seq)
    BY DEF IsSequence
  <2>2. 1..n \in SUBSET DOMAIN seq /\ 1..n # {}
    <3>1. n \in 1..n /\ 1..n \subseteq 1..Len(seq) /\ DOMAIN seq = 1..Len(seq)
      BY <2>1 DEF IsSequence
    <3> QED BY <3>1
  <2>3. e[n] = iter[1..n] /\ e[n - 1] = iter[1..(n - 1)]
    BY <2>1
  <2>4. iter[1..n] = Advance(kind, d, iter[(1..n) \ {Max(1..n)}], seq[Max(1..n)])
    BY <2>2 DEF Solves
  <2> QED BY <2>1, <2>3, <2>4, LastOfInterval
<1>3. e[Len(seq)] = iter[DOMAIN seq]
  BY DEF IsSequence
<1> HIDE DEF e
<1> QED BY <1>1, <1>2, <1>3 DEF IsChain

(* Merging a statement is going through its holdings.                      *)
LEMMA MergedUnfolds ==
    ASSUME NEW d, NEW ps, IsSequence(d.holdings)
    PROVE  \E c : IsChain("holdings", d, c, ps, d.holdings) /\ Merged(ps, d) = c[Len(d.holdings)]
<1> DEFINE Step(f, s) == IF s = {} THEN ps
                         ELSE Merge(f[s \ {Max(s)}], Stated(d, d.holdings[Max(s)]))
           iter == CHOOSE f : f = [s \in SUBSET DOMAIN d.holdings |-> Step(f, s)]
<1>1. \E f : f = [s \in SUBSET DOMAIN d.holdings |-> Step(f, s)]
  <2>1. PICK f : Solves("holdings", d, ps, d.holdings, f)
    BY FoldSolvable
  <2>2. f = [s \in SUBSET DOMAIN d.holdings |-> Step(f, s)]
    BY <2>1 DEF Solves, Advance
  <2> HIDE DEF Step
  <2> QED BY <2>2
<1>2. iter = [s \in SUBSET DOMAIN d.holdings |-> Step(iter, s)]
  <2> HIDE DEF Step
  <2> QED BY <1>1
<1>3. Merged(ps, d) = iter[DOMAIN d.holdings]
  BY DEF Merged, FoldLeft, MapThenFoldSet
<1> HIDE DEF iter
<1>4. Solves("holdings", d, ps, d.holdings, iter)
  BY <1>2 DEF Solves, Advance
<1>5. \E e : IsChain("holdings", d, e, ps, d.holdings) /\ e[Len(d.holdings)] = iter[DOMAIN d.holdings]
  BY <1>4, SolutionIsChain
<1> QED BY <1>3, <1>5

(* Ingesting a batch is going through its files.                           *)
LEMMA BatchUnfolds ==
    ASSUME NEW files, NEW base, IsSequence(files)
    PROVE  \E e : IsChain("files", None, e, base, files)
                  /\ FoldLeft(Ingested, base, files) = e[Len(files)]
<1> DEFINE Step(f, s) == IF s = {} THEN base ELSE Ingested(f[s \ {Max(s)}], files[Max(s)])
           iter == CHOOSE f : f = [s \in SUBSET DOMAIN files |-> Step(f, s)]
<1>1. \E f : f = [s \in SUBSET DOMAIN files |-> Step(f, s)]
  <2>1. PICK f : Solves("files", None, base, files, f)
    BY FoldSolvable
  <2>2. f = [s \in SUBSET DOMAIN files |-> Step(f, s)]
    BY <2>1 DEF Solves, Advance
  <2> HIDE DEF Step
  <2> QED BY <2>2
<1>2. iter = [s \in SUBSET DOMAIN files |-> Step(iter, s)]
  <2> HIDE DEF Step
  <2> QED BY <1>1
<1>3. FoldLeft(Ingested, base, files) = iter[DOMAIN files]
  BY DEF FoldLeft, MapThenFoldSet
<1> HIDE DEF iter
<1>4. Solves("files", None, base, files, iter)
  BY <1>2 DEF Solves, Advance
<1>5. \E e : IsChain("files", None, e, base, files) /\ e[Len(files)] = iter[DOMAIN files]
  BY <1>4, SolutionIsChain
<1> QED BY <1>3, <1>5

(* Where a call is on the chains of its batch and of the file at hand.     *)
IsBatchRun(e) == IsChain("files", None, e, seed, batch)
IsFileRun(e, c) == IsChain("holdings", File, c, e[fileNo - 1], File.holdings)
FoldInv ==
    \A e : IsBatchRun(e) =>
        /\ pc = "file" => positions = e[fileNo - 1]
        /\ pc = "holdings" => /\ holdingNo <= Len(File.holdings) + 1
                              /\ \A c : IsFileRun(e, c) => positions = c[holdingNo - 1]
        /\ pc = "done" => fileNo = Len(batch) + 1 /\ result.positions = positions
                          /\ positions = e[Len(batch)]

(* Every step of the call is a step along the chains.                      *)
LEMMA FoldStep == TypeOK /\ FoldInv /\ [Next]_vars => FoldInv'
<1> SUFFICES ASSUME TypeOK, FoldInv, [Next]_vars PROVE FoldInv'
    OBVIOUS
<1>0. /\ batch \in Seq(Documents) /\ Len(batch) \in Nat /\ DOMAIN batch = 1..Len(batch)
      /\ fileNo \in 1..Len(batch) + 1 /\ holdingNo \in Nat \ {0} /\ fileNo \in Nat \ {0}
  BY DEF TypeOK
<1>b. batch' = batch /\ seed' = seed
  BY EvidenceStays
<1> SUFFICES ASSUME NEW e, IsChain("files", None, e, seed, batch)
             PROVE  /\ pc' = "file" => positions' = e[fileNo' - 1]
                    /\ pc' = "holdings" =>
                         /\ holdingNo' <= Len(File'.holdings) + 1
                         /\ \A c : IsChain("holdings", File', c, e[fileNo' - 1], File'.holdings)
                                     => positions' = c[holdingNo' - 1]
                    /\ pc' = "done" => fileNo' = Len(batch) + 1 /\ result'.positions = positions'
                                       /\ positions' = e[Len(batch)]
    BY <1>b DEF FoldInv, IsBatchRun, IsFileRun
<1>h. /\ pc = "file" => positions = e[fileNo - 1]
      /\ pc = "holdings" =>
           /\ holdingNo <= Len(File.holdings) + 1
           /\ \A c : IsChain("holdings", File, c, e[fileNo - 1], File.holdings)
                       => positions = c[holdingNo - 1]
      /\ pc = "done" => fileNo = Len(batch) + 1 /\ result.positions = positions
                        /\ positions = e[Len(batch)]
  BY DEF FoldInv, IsBatchRun, IsFileRun
<1>n. fileNo <= Len(batch) =>
        /\ e[fileNo] = Ingested(e[fileNo - 1], File)
        /\ IsSequence(File.holdings)
  <2>1. ASSUME fileNo <= Len(batch) PROVE e[fileNo] = Ingested(e[fileNo - 1], File)
    BY <1>0, <2>1 DEF IsChain, Advance, File
  <2>2. ASSUME fileNo <= Len(batch) PROVE IsSequence(File.holdings)
    BY <2>2, FileIsDocument DEF IsSequence
  <2> QED BY <2>1, <2>2
<1>1. CASE SetAside
  <2>1. fileNo <= Len(batch) /\ ~Accepted(File) /\ pc = "file" /\ pc' = "file"
        /\ positions' = positions /\ fileNo' = fileNo + 1
    BY <1>1 DEF SetAside, Accepted
  <2>2. e[fileNo] = e[fileNo - 1]
    BY <1>n, <2>1 DEF Ingested
  <2>3. fileNo' - 1 = fileNo
    BY <1>0, <2>1
  <2> QED BY <1>h, <2>1, <2>2, <2>3
<1>2. CASE Accept
  <2>1. pc = "file" /\ pc' = "holdings" /\ holdingNo' = 1 /\ fileNo' = fileNo
        /\ positions' = positions /\ File' = File /\ fileNo <= Len(batch)
    BY <1>2 DEF Accept, File
  <2>2. Len(File.holdings) \in Nat
    BY <1>n, <2>1 DEF IsSequence
  <2>3. \A c : IsChain("holdings", File, c, e[fileNo - 1], File.holdings) => c[0] = e[fileNo - 1]
    BY DEF IsChain
  <2> QED BY <1>h, <2>1, <2>2, <2>3
<1>3. CASE TakeHolding
  <2>1. pc = "holdings" /\ pc' = "holdings" /\ holdingNo <= Len(File.holdings)
        /\ holdingNo' = holdingNo + 1 /\ File' = File /\ fileNo' = fileNo
        /\ positions' = Merge(positions, Stated(File, File.holdings[holdingNo]))
        /\ fileNo <= Len(batch)
    BY <1>3 DEF TakeHolding, File, TypeOK
  <2>2. Len(File.holdings) \in Nat
    BY <1>n, <2>1 DEF IsSequence
  <2>3. ASSUME NEW c, IsChain("holdings", File, c, e[fileNo - 1], File.holdings)
        PROVE  positions' = c[holdingNo' - 1]
    <3>1. positions = c[holdingNo - 1]
      BY <1>h, <2>1, <2>3
    <3>2. holdingNo \in 1..Len(File.holdings)
      BY <1>0, <2>1, <2>2
    <3>3. c[holdingNo] = Merge(c[holdingNo - 1], Stated(File, File.holdings[holdingNo]))
      BY <2>3, <3>2 DEF IsChain, Advance
    <3>4. holdingNo' - 1 = holdingNo
      BY <1>0, <2>1
    <3> QED BY <2>1, <3>1, <3>3, <3>4
  <2> QED BY <1>0, <2>1, <2>2, <2>3
<1>4. CASE EndFile
  <2>1. pc = "holdings" /\ pc' = "file" /\ holdingNo > Len(File.holdings)
        /\ fileNo' = fileNo + 1 /\ fileNo <= Len(batch) /\ Accepted(File)
    BY <1>4 DEF EndFile, File, TypeOK
  <2>2. Len(File.holdings) \in Nat
    BY <1>n, <2>1 DEF IsSequence
  <2>3. PICK c : /\ IsChain("holdings", File, c, e[fileNo - 1], File.holdings)
                 /\ Merged(e[fileNo - 1], File) = c[Len(File.holdings)]
    BY <1>n, <2>1, MergedUnfolds
  <2>4. holdingNo - 1 = Len(File.holdings)
    BY <1>0, <1>h, <2>1, <2>2
  <2>5. positions = Merged(e[fileNo - 1], File)
    BY <1>h, <2>1, <2>3, <2>4
  <2>6. positions' = Ingested(e[fileNo - 1], File)
    BY <1>4, <2>1, <2>5 DEF EndFile, Ingested
  <2>7. fileNo' - 1 = fileNo
    BY <1>0, <2>1
  <2> QED BY <1>n, <2>1, <2>6, <2>7
<1>5. CASE Raise BY <1>5 DEF Raise
<1>6. CASE Return
  <2>1. fileNo - 1 = Len(batch)
    BY <1>0, <1>6 DEF Return
  <2> QED BY <1>0, <1>6, <1>h, <2>1 DEF Return
<1>7. CASE UNCHANGED vars
  <2>1. UNCHANGED <<pc, positions, fileNo, holdingNo, result>> /\ File' = File
    BY <1>7 DEF vars, File
  <2> QED BY <1>h, <2>1
<1> QED BY <1>1, <1>2, <1>3, <1>4, <1>5, <1>6, <1>7 DEF Next

(* A call starts at their beginning.                                       *)
LEMMA FoldInit == Init => FoldInv
BY DEF Init, FoldInv, IsBatchRun, IsChain

(* At the end of the chain stands what ReturnsTheFold promises.            *)
LEMMA FoldReturns == ASSUME TypeOK, FoldInv PROVE ReturnsTheFold
<1> SUFFICES ASSUME pc = "done" PROVE result.positions = FoldLeft(Ingested, seed, batch)
    BY DEF ReturnsTheFold
<1>1. IsSequence(batch)
  BY DEF TypeOK, IsSequence
<1>2. PICK e : IsChain("files", None, e, seed, batch)
               /\ FoldLeft(Ingested, seed, batch) = e[Len(batch)]
  BY <1>1, BatchUnfolds
<1> QED BY <1>2 DEF FoldInv, IsBatchRun
-----------------------------------------------------------------------------
(* The inductive invariant.                                               *)
IInv == /\ TypeOK /\ EvidenceIsPosition /\ EveryPositionIsEvidence
        /\ RedemptionLeavesNothing /\ EvidenceIsSettled /\ OtherSourcesSurvive /\ FoldInv

LEMMA IInvInit == Init => IInv
<1> SUFFICES ASSUME Init PROVE IInv
    OBVIOUS
<1>1. TypeOK
  BY TypeInit
<1>2. \A i, j : ~Taken(i, j)
  <2>1. fileNo = 1 /\ pc = "file" /\ \A i \in DOMAIN batch : i \in Nat /\ i >= 1
    BY <1>1 DEF Init, TypeOK
  <2> QED BY <2>1 DEF Taken
<1>3. \A k, p : Evidence(k, p) <=> InSeed(k, p)
  BY <1>2 DEF Evidence, StatedAt
<1>4. positions = seed /\ seed \in Seeds
  BY DEF Init
<1>5. EvidenceIsPosition
  BY <1>3, <1>4, SeedsAssumption DEF EvidenceIsPosition, InSeed
<1>6. EveryPositionIsEvidence
  BY <1>3, <1>4 DEF EveryPositionIsEvidence, InSeed
<1>7. RedemptionLeavesNothing
  <2>1. \A i : ~Heard(i)
    BY <1>1 DEF Init, Heard, TypeOK
  <2> QED BY <2>1 DEF RedemptionLeavesNothing
<1>8. EvidenceIsSettled
  <2> SUFFICES ASSUME NEW k, NEW p, Evidence(k, p) PROVE Settled(k, p)
      BY DEF EvidenceIsSettled
  <2>1. k \in DOMAIN positions /\ p = positions[k] /\ p \in Position
    BY <1>3, <1>4, <1>5 DEF InSeed, EvidenceIsPosition
  <2> QED BY <2>1, AtLeastOrder DEF Settled
<1>9. OtherSourcesSurvive
  BY <1>4 DEF OtherSourcesSurvive
<1> QED BY <1>1, <1>5, <1>6, <1>7, <1>8, <1>9, FoldInit DEF IInv

LEMMA IInvStep == IInv /\ [Next]_vars => IInv'
BY TypeStep, PositionStep, EvidenceStep, RedemptionStep, SettledStep,
   SurvivalStep, FoldStep DEF IInv

-----------------------------------------------------------------------------
(* The same files twice                                                    *)

(* What merging and redeeming do to one key.                               *)
LEMMA MergeAt ==
    ASSUME NEW ps, NEW new, NEW k
    PROVE  /\ k \in DOMAIN Merge(ps, new) <=> k \in DOMAIN ps \/ k \in DOMAIN new
           /\ k \notin DOMAIN new /\ k \in DOMAIN ps => Merge(ps, new)[k] = ps[k]
           /\ k \in DOMAIN new => Merge(ps, new)[k] = IF ShouldReplace(ps, k, new[k])
                                                      THEN new[k] ELSE ps[k]
BY DEF Merge

Kept(ps, d) ==
    [k \in {x \in DOMAIN ps : ~(Redeems(d) /\ RedeemedBy(d, x, ps[x]))} |-> ps[k]]

(* What redemption leaves of one key.                                      *)
LEMMA KeptAt ==
    ASSUME NEW ps, NEW d, NEW k
    PROVE  /\ k \in DOMAIN Kept(ps, d) <=>
                 k \in DOMAIN ps /\ ~(Redeems(d) /\ RedeemedBy(d, k, ps[k]))
           /\ k \in DOMAIN Kept(ps, d) => Kept(ps, d)[k] = ps[k]
BY DEF Kept

(* Ingesting a document is merging it, then dropping what its silence      *)
(* redeems.                                                                *)
LEMMA IngestedIsKept ==
    ASSUME NEW ps, NEW d
    PROVE  Ingested(ps, d) = IF Accepted(d) THEN Kept(Merged(ps, d), d) ELSE ps
BY DEF Ingested, Kept

(* Two ledgers agree about a key ...                                       *)
Same(ps, qs, k) == /\ k \in DOMAIN ps <=> k \in DOMAIN qs
                   /\ k \in DOMAIN ps => ps[k] = qs[k]

(* ... or neither has more of it than p, which the first does not hold     *)
(* yet: whatever is taken next, they agree once p is.                      *)
Under(ps, k, p, C) == k \in DOMAIN ps => ps[k] \in C /\ AtLeast(p, ps[k])
Level(ps, k, p) == k \in DOMAIN ps /\ AtLeast(ps[k], p)
Low(ps, qs, k, p, C) ==
    /\ Under(ps, k, p, C) /\ Under(qs, k, p, C)
    /\ k \in DOMAIN ps => ps[k] # p
    /\ Level(qs, k, p) => qs[k] = p \/ Level(ps, k, p)
Near(ps, qs, k, P, C) == Same(ps, qs, k) \/ \E p \in P : Low(ps, qs, k, p, C)

(* Statements that tie are of one source.                                  *)
NoRivals(C) == \A p, q \in C : AtLeast(p, q) /\ AtLeast(q, p) /\ p # q => p.source = q.source

(* Positions of the same age have the same dates.                          *)
LEMMA Ties ==
    ASSUME NEW p \in Position, NEW q \in Position, AtLeast(p, q), AtLeast(q, p)
    PROVE  p.asOf = q.asOf /\ p.issued = q.issued
BY NoneAssumption DEF Position, AtLeast, Newer, IssuedLater

(* Merging one statement of C into two near ledgers keeps them near.       *)
LEMMA MergeNear ==
    ASSUME NEW C \in SUBSET Position, NEW P \in SUBSET C, NEW k, NEW ps, NEW qs, NEW new,
           k \in DOMAIN new => new[k] \in C, Near(ps, qs, k, P, C)
    PROVE  Near(Merge(ps, new), Merge(qs, new), k, P, C)
<1> DEFINE ms == Merge(ps, new)
           ns == Merge(qs, new)
<1>1. /\ k \in DOMAIN ms <=> k \in DOMAIN ps \/ k \in DOMAIN new
      /\ k \notin DOMAIN new /\ k \in DOMAIN ps => ms[k] = ps[k]
      /\ k \in DOMAIN new => ms[k] = IF k \notin DOMAIN ps \/ Newer(new[k], ps[k])
                                     THEN new[k] ELSE ps[k]
  BY MergeAt DEF ShouldReplace
<1>2. /\ k \in DOMAIN ns <=> k \in DOMAIN qs \/ k \in DOMAIN new
      /\ k \notin DOMAIN new /\ k \in DOMAIN qs => ns[k] = qs[k]
      /\ k \in DOMAIN new => ns[k] = IF k \notin DOMAIN qs \/ Newer(new[k], qs[k])
                                     THEN new[k] ELSE qs[k]
  BY MergeAt DEF ShouldReplace
<1> HIDE DEF ms, ns
<1>3. ASSUME Same(ps, qs, k) PROVE Near(ms, ns, k, P, C)
  BY <1>1, <1>2, <1>3 DEF Near, Same
<1>4. ASSUME NEW p \in P, Low(ps, qs, k, p, C) PROVE Near(ms, ns, k, P, C)
  <2>1. CASE k \notin DOMAIN new
    BY <1>1, <1>2, <1>4, <2>1 DEF Near, Low, Under, Level
  <2>2. CASE k \in DOMAIN new
    <3> DEFINE x == ps[k]
               y == qs[k]
    <3>0. PICK q : q = new[k]
      OBVIOUS
    <3>1. /\ p \in Position /\ q \in Position /\ q \in C
          /\ k \in DOMAIN ps => x \in Position /\ x \in C /\ AtLeast(p, x) /\ x # p
          /\ k \in DOMAIN qs => y \in Position /\ y \in C /\ AtLeast(p, y)
          /\ k \in DOMAIN qs /\ AtLeast(y, p) => y = p \/ (k \in DOMAIN ps /\ AtLeast(x, p))
      BY <1>4, <2>2, <3>0 DEF Low, Under, Level
    <3>2. /\ k \in DOMAIN ms /\ k \in DOMAIN ns
          /\ ms[k] = IF k \notin DOMAIN ps \/ ~AtLeast(x, q) THEN q ELSE x
          /\ ns[k] = IF k \notin DOMAIN qs \/ ~AtLeast(y, q) THEN q ELSE y
      BY <1>1, <1>2, <2>2, <3>0 DEF AtLeast
    <3>3. \A a, b, c \in Position : /\ AtLeast(a, a) /\ (AtLeast(a, b) \/ AtLeast(b, a))
                                    /\ AtLeast(a, b) /\ AtLeast(b, c) => AtLeast(a, c)
      BY AtLeastOrder
    <3> HIDE DEF x, y
    <3>4. CASE ~AtLeast(p, q)
      <4>1. ms[k] = q /\ ns[k] = q
        BY <3>1, <3>2, <3>3, <3>4
      <4> QED BY <3>2, <4>1 DEF Near, Same
    <3>5. CASE AtLeast(p, q) /\ q = p /\ (k \notin DOMAIN ps \/ ~AtLeast(x, q))
      <4>1. ms[k] = p /\ ns[k] = p
        BY <3>1, <3>2, <3>3, <3>5
      <4> QED BY <3>2, <4>1 DEF Near, Same
    <3>6. CASE AtLeast(p, q) /\ q # p /\ (k \notin DOMAIN ps \/ ~AtLeast(x, q))
      <4>1. ms[k] = q
        BY <3>2, <3>6
      <4>2. CASE ns[k] = q
        BY <3>2, <4>1, <4>2 DEF Near, Same
      <4>3. CASE k \in DOMAIN qs /\ ns[k] = y
        <5>1. k \in DOMAIN ps => ~AtLeast(x, p)
          BY <3>1, <3>3, <3>6
        <5>2. AtLeast(y, p) => y = p
          BY <3>1, <4>3, <5>1
        <5>3. Low(ms, ns, k, p, C)
          BY <3>1, <3>2, <3>6, <4>1, <4>3, <5>2 DEF Low, Under, Level
        <5> QED BY <5>3 DEF Near
      <4> QED BY <3>2, <4>2, <4>3
    <3>7. CASE AtLeast(p, q) /\ k \in DOMAIN ps /\ AtLeast(x, q)
      <4>1. ms[k] = x
        BY <3>2, <3>7
      <4>2. AtLeast(ns[k], p) => ns[k] = p \/ AtLeast(x, p)
        BY <3>1, <3>2, <3>3, <3>7
      <4>3. ns[k] \in C /\ AtLeast(p, ns[k])
        BY <3>1, <3>2, <3>7
      <4>4. Low(ms, ns, k, p, C)
        BY <3>1, <3>2, <3>7, <4>1, <4>2, <4>3 DEF Low, Under, Level
      <4> QED BY <4>4 DEF Near
    <3> QED BY <3>4, <3>5, <3>6, <3>7
  <2> QED BY <2>1, <2>2
<1> QED BY <1>3, <1>4 DEF Near, ms, ns

(* Redeeming keeps two near ledgers near: tied statements of one source    *)
(* are  redeemed together.                                                 *)
LEMMA KeptNear ==
    ASSUME NEW C \in SUBSET Position, NoRivals(C), NEW P \in SUBSET C, NEW k, NEW ps, NEW qs,
           NEW d, Near(ps, qs, k, P, C)
    PROVE  Near(Kept(ps, d), Kept(qs, d), k, P, C)
<1> DEFINE ms == Kept(ps, d)
           ns == Kept(qs, d)
<1>1. /\ k \in DOMAIN ms <=> k \in DOMAIN ps /\ ~(Redeems(d) /\ RedeemedBy(d, k, ps[k]))
      /\ k \in DOMAIN ms => ms[k] = ps[k]
      /\ k \in DOMAIN ns <=> k \in DOMAIN qs /\ ~(Redeems(d) /\ RedeemedBy(d, k, qs[k]))
      /\ k \in DOMAIN ns => ns[k] = qs[k]
  BY KeptAt
<1> HIDE DEF ms, ns
<1>2. ASSUME Same(ps, qs, k) PROVE Same(ms, ns, k)
  BY <1>1, <1>2 DEF Same
<1>3. ASSUME NEW p \in P, Low(ps, qs, k, p, C) PROVE Low(ms, ns, k, p, C)
  <2>1. ASSUME k \in DOMAIN ns, AtLeast(qs[k], p), qs[k] # p PROVE k \in DOMAIN ms
    <3>1. PICK x, y : x = ps[k] /\ y = qs[k]
      OBVIOUS
    <3>2. k \in DOMAIN ps /\ AtLeast(x, p) /\ AtLeast(p, x) /\ AtLeast(y, p) /\ AtLeast(p, y)
          /\ x \in C /\ y \in C
      BY <1>1, <1>3, <2>1, <3>1 DEF Low, Under, Level
    <3>3. AtLeast(x, y) /\ AtLeast(y, x)
      BY <3>2, AtLeastOrder
    <3>4. x.source = y.source /\ x.asOf = y.asOf /\ x.issued = y.issued
      BY <3>2, <3>3, Ties DEF NoRivals
    <3>5. RedeemedBy(d, k, x) <=> RedeemedBy(d, k, y)
      BY <3>4 DEF RedeemedBy, Supersedes
    <3> QED BY <1>1, <2>1, <3>1, <3>2, <3>5
  <2> QED BY <1>1, <1>3, <2>1 DEF Low, Under, Level
<1> QED BY <1>2, <1>3 DEF Near, ms, ns

(* Two ledgers that are near for a key stay near through a whole document. *)
LEMMA IngestedNear ==
    ASSUME NEW C \in SUBSET Position, NoRivals(C), NEW P \in SUBSET C, NEW k, NEW ps, NEW qs,
           NEW d, IsSequence(d.holdings),
           Accepted(d) => \A j \in DOMAIN d.holdings :
               k \in DOMAIN Stated(d, d.holdings[j]) => Stated(d, d.holdings[j])[k] \in C,
           Near(ps, qs, k, P, C)
    PROVE  Near(Ingested(ps, d), Ingested(qs, d), k, P, C)
<1>1. CASE ~Accepted(d)
  BY <1>1 DEF Ingested
<1>2. CASE Accepted(d)
  <2>1. PICK b : IsChain("holdings", d, b, ps, d.holdings) /\ Merged(ps, d) = b[Len(d.holdings)]
    BY MergedUnfolds
  <2>2. PICK c : IsChain("holdings", d, c, qs, d.holdings) /\ Merged(qs, d) = c[Len(d.holdings)]
    BY MergedUnfolds
  <2> DEFINE Good == {n \in Nat : n <= Len(d.holdings) => Near(b[n], c[n], k, P, C)}
  <2>3. 0 \in Good
    BY <2>1, <2>2 DEF IsChain
  <2>4. ASSUME NEW n \in Nat, n \in Good PROVE n + 1 \in Good
    <3> SUFFICES ASSUME n + 1 <= Len(d.holdings) PROVE Near(b[n + 1], c[n + 1], k, P, C)
      OBVIOUS
    <3>0. Len(d.holdings) \in Nat /\ n + 1 \in DOMAIN d.holdings /\ n + 1 \in 1..Len(d.holdings)
          /\ (n + 1) - 1 = n
      BY DEF IsSequence
    <3>1. Near(b[n], c[n], k, P, C)
      BY <2>4, <3>0
    <3> DEFINE new == Stated(d, d.holdings[n + 1])
    <3>2. b[n + 1] = Merge(b[n], new) /\ c[n + 1] = Merge(c[n], new)
      BY <2>1, <2>2, <3>0 DEF IsChain, Advance
    <3>3. k \in DOMAIN new => new[k] \in C
      BY <1>2, <3>0
    <3> HIDE DEF new
    <3>4. Near(Merge(b[n], new), Merge(c[n], new), k, P, C)
      BY <3>1, <3>3, MergeNear
    <3> QED BY <3>2, <3>4
  <2>5. Len(d.holdings) \in Good
    <3> HIDE DEF Good
    <3> QED BY <2>3, <2>4, Induction DEF IsSequence
  <2>6. Near(Merged(ps, d), Merged(qs, d), k, P, C)
    BY <2>1, <2>2, <2>5 DEF IsSequence
  <2> QED BY <1>2, <2>6, KeptNear, IngestedIsKept
<1> QED BY <1>1, <1>2

(* ... and through a whole batch.                                          *)
LEMMA BatchNear ==
    ASSUME NEW C \in SUBSET Position, NoRivals(C), NEW P \in SUBSET C, NEW k, NEW ps, NEW qs,
           NEW files, IsSequence(files),
           \A i \in DOMAIN files :
               /\ IsSequence(files[i].holdings)
               /\ Accepted(files[i]) => \A j \in DOMAIN files[i].holdings :
                    k \in DOMAIN Stated(files[i], files[i].holdings[j])
                        => Stated(files[i], files[i].holdings[j])[k] \in C,
           Near(ps, qs, k, P, C)
    PROVE  Near(FoldLeft(Ingested, ps, files), FoldLeft(Ingested, qs, files), k, P, C)
<1>1. PICK b : IsChain("files", None, b, ps, files) /\ FoldLeft(Ingested, ps, files) = b[Len(files)]
  BY BatchUnfolds
<1>2. PICK c : IsChain("files", None, c, qs, files) /\ FoldLeft(Ingested, qs, files) = c[Len(files)]
  BY BatchUnfolds
<1> DEFINE Good == {n \in Nat : n <= Len(files) => Near(b[n], c[n], k, P, C)}
<1>3. 0 \in Good
  BY <1>1, <1>2 DEF IsChain
<1>4. ASSUME NEW n \in Nat, n \in Good PROVE n + 1 \in Good
  <2> SUFFICES ASSUME n + 1 <= Len(files) PROVE Near(b[n + 1], c[n + 1], k, P, C)
    OBVIOUS
  <2>0. Len(files) \in Nat /\ n + 1 \in DOMAIN files /\ n + 1 \in 1..Len(files) /\ (n + 1) - 1 = n
    BY DEF IsSequence
  <2>1. Near(b[n], c[n], k, P, C)
    BY <1>4, <2>0
  <2>2. b[n + 1] = Ingested(b[n], files[n + 1]) /\ c[n + 1] = Ingested(c[n], files[n + 1])
    BY <1>1, <1>2, <2>0 DEF IsChain, Advance
  <2>3. Near(Ingested(b[n], files[n + 1]), Ingested(c[n], files[n + 1]), k, P, C)
    BY <2>0, <2>1, IngestedNear
  <2> QED BY <2>2, <2>3
<1>5. Len(files) \in Good
  <2> HIDE DEF Good
  <2> QED BY <1>3, <1>4, Induction DEF IsSequence
<1> QED BY <1>1, <1>2, <1>5 DEF IsSequence

(* Folding statements into a function gives a function.                    *)
IsLedger(f) == f = [k \in DOMAIN f |-> f[k]]

(* So is what a batch leaves of a function.                                *)
LEMMA BatchIsLedger ==
    ASSUME NEW files, NEW ps, IsSequence(files), IsLedger(ps)
    PROVE  IsLedger(FoldLeft(Ingested, ps, files))
<1>1. PICK c : IsChain("files", None, c, ps, files) /\ FoldLeft(Ingested, ps, files) = c[Len(files)]
  BY BatchUnfolds
<1> DEFINE Good == {n \in Nat : n <= Len(files) => IsLedger(c[n])}
<1>2. 0 \in Good
  BY <1>1 DEF IsChain
<1>3. ASSUME NEW n \in Nat, n \in Good PROVE n + 1 \in Good
  <2> SUFFICES ASSUME n + 1 <= Len(files) PROVE IsLedger(c[n + 1])
    OBVIOUS
  <2>0. Len(files) \in Nat /\ n + 1 \in 1..Len(files) /\ (n + 1) - 1 = n
    BY DEF IsSequence
  <2>1. IsLedger(c[n])
    BY <1>3, <2>0
  <2>2. c[n + 1] = Ingested(c[n], files[n + 1])
    BY <1>1, <2>0 DEF IsChain, Advance
  <2>3. \A rs, d : IsLedger(Kept(rs, d))
    BY DEF IsLedger, Kept
  <2> QED BY <2>1, <2>2, <2>3, IngestedIsKept
<1>4. Len(files) \in Good
  <2> HIDE DEF Good
  <2> QED BY <1>2, <1>3, Induction DEF IsSequence
<1> QED BY <1>1, <1>4 DEF IsSequence

(* When a call is done, everything its batch states has been taken.        *)
LEMMA DoneIsTaken ==
    ASSUME IInv, pc = "done"
    PROVE  /\ result.positions = positions
           /\ IsSequence(batch) /\ \A i \in DOMAIN batch : IsSequence(batch[i].holdings)
           /\ \A i \in DOMAIN batch : Accepted(batch[i]) =>
                \A j \in DOMAIN batch[i].holdings :
                   \A k \in DOMAIN Stated(batch[i], batch[i].holdings[j]) :
                       Evidence(k, Stated(batch[i], batch[i].holdings[j])[k])
<1>1. /\ batch \in Seq(Documents) /\ IsSequence(batch) /\ Len(batch) \in Nat
      /\ DOMAIN batch = 1..Len(batch)
  BY DEF IInv, TypeOK, IsSequence
<1>2. \A i \in DOMAIN batch : IsSequence(batch[i].holdings)
  BY <1>1, DocumentsAssumption DEF Document, IsSequence
<1>3. fileNo = Len(batch) + 1 /\ result.positions = positions
  <2>1. PICK e : IsChain("files", None, e, seed, batch)
    BY <1>1, BatchUnfolds
  <2> QED BY <2>1 DEF IInv, FoldInv, IsBatchRun
<1>4. ASSUME NEW i \in DOMAIN batch, Accepted(batch[i]), NEW j \in DOMAIN batch[i].holdings,
             NEW k \in DOMAIN Stated(batch[i], batch[i].holdings[j])
      PROVE  Evidence(k, Stated(batch[i], batch[i].holdings[j])[k])
  <2>1. Taken(i, j)
    BY <1>1, <1>3, <1>4 DEF Taken
  <2> QED BY <1>4, <2>1 DEF Evidence, StatedAt
<1> QED BY <1>1, <1>2, <1>3, <1>4

(* Two statements of a key of the same age are a tie.                      *)
LEMMA TieOfEvidence ==
    ASSUME NEW k, NEW p, NEW q, Evidence(k, p), Evidence(k, q), p # q,
           AtLeast(p, q), AtLeast(q, p)
    PROVE  \E c, d \in Candidates : Tie(c, d) /\ c[2] = p /\ d[2] = q
<1>1. <<k, p>> \in Candidates /\ <<k, q>> \in Candidates
  BY CandidatesAreEvidence
<1>2. Tie(<<k, p>>, <<k, q>>)
  BY DEF Tie
<1> QED BY <1>1, <1>2

(* The ledger before the first call and the one after it are near for      *)
(* every key, so they are after one more batch each; the first then holds  *)
(* p.                                                                      *)
LEMMA SecondIngest == ASSUME IInv PROVE SecondIngestIsNoop
<1> SUFFICES ASSUME pc = "done", DOMAIN seed = {},
                    ~\E c, d \in Candidates : RivalTie(c, d)
             PROVE  FoldLeft(Ingested, result.positions, batch) = result.positions
    BY DEF SecondIngestIsNoop
<1> DEFINE R == result.positions
           T == FoldLeft(Ingested, R, batch)
<1>1. R = positions /\ R = FoldLeft(Ingested, seed, batch) /\ IsLedger(R)
  <2>1. ReturnsTheFold
    BY FoldReturns DEF IInv
  <2>2. positions = [k \in DOMAIN positions |-> positions[k]]
    BY DEF IInv, TypeOK
  <2> QED BY <2>1, <2>2, DoneIsTaken DEF ReturnsTheFold, IsLedger
<1>2. ASSUME NEW k PROVE Same(R, T, k)
  <2> DEFINE C == {p \in Position : Evidence(k, p)}
             P == IF k \in DOMAIN R THEN {R[k]} ELSE {}
  <2>1. k \in DOMAIN R => R[k] \in C
    BY <1>1 DEF IInv, EveryPositionIsEvidence, EvidenceIsPosition
  <2>2. NoRivals(C)
    <3> SUFFICES ASSUME NEW p \in C, NEW q \in C, AtLeast(p, q), AtLeast(q, p), p # q
                 PROVE  p.source = q.source
      BY DEF NoRivals
    <3>1. PICK c, d \in Candidates : Tie(c, d) /\ c[2] = p /\ d[2] = q
      BY TieOfEvidence
    <3> QED BY <3>1 DEF RivalTie
  <2>3. \A i \in DOMAIN batch :
           /\ IsSequence(batch[i].holdings)
           /\ Accepted(batch[i]) => \A j \in DOMAIN batch[i].holdings :
                k \in DOMAIN Stated(batch[i], batch[i].holdings[j])
                    => Stated(batch[i], batch[i].holdings[j])[k] \in C
    BY DoneIsTaken DEF IInv, EvidenceIsPosition
  <2> HIDE DEF R
  <2>4. Near(seed, R, k, P, C)
    <3>1. CASE k \notin DOMAIN R
      BY <3>1 DEF Near, Same
    <3>2. CASE k \in DOMAIN R
      <4>1. PICK p : p = R[k]
        OBVIOUS
      <4>2. p \in C /\ p \in P /\ AtLeast(p, p)
        BY <2>1, <3>2, <4>1, AtLeastOrder
      <4> HIDE DEF P, C
      <4>3. Low(seed, R, k, p, C)
        BY <3>2, <4>1, <4>2 DEF Low, Under, Level
      <4> QED BY <4>2, <4>3 DEF Near
    <3> QED BY <3>1, <3>2
  <2>5. P \in SUBSET C /\ C \in SUBSET Position /\ IsSequence(batch)
    BY <2>1, DoneIsTaken
  <2>6. Near(R, T, k, P, C)
    <3> HIDE DEF P, C
    <3> QED BY <1>1, <2>2, <2>3, <2>4, <2>5, BatchNear
  <2>7. \A p \in P : ~Low(R, T, k, p, C)
    BY DEF Low
  <2> QED BY <2>6, <2>7 DEF Near
<1>3. IsLedger(T)
  BY <1>1, DoneIsTaken, BatchIsLedger
<1>4. DOMAIN R = DOMAIN T /\ \A k \in DOMAIN R : R[k] = T[k]
  <2> HIDE DEF R, T
  <2> QED BY <1>2 DEF Same
<1> QED
  <2> HIDE DEF R, T
  <2>1. T = R
    BY <1>1, <1>3, <1>4 DEF IsLedger
  <2> QED BY <2>1 DEF R, T
-----------------------------------------------------------------------------
(* The same files in another order                                         *)

(* A key holds a member of E, if anything, and something not older than p. *)
Among(ps, k, E) == k \in DOMAIN ps => ps[k] \in E
Holds(ps, k, p) == k \in DOMAIN ps /\ AtLeast(ps[k], p)

(* Merging never goes back to anything older, and takes what is new.       *)
LEMMA MergeHolds ==
    ASSUME NEW E \in SUBSET Position, NEW k, NEW ps, Among(ps, k, E), NEW new,
           k \in DOMAIN new => new[k] \in E
    PROVE  /\ Among(Merge(ps, new), k, E)
           /\ \A p \in E : Holds(ps, k, p) => Holds(Merge(ps, new), k, p)
           /\ k \in DOMAIN new => Holds(Merge(ps, new), k, new[k])
<1> DEFINE ms == Merge(ps, new)
<1>1. /\ k \in DOMAIN ms <=> k \in DOMAIN ps \/ k \in DOMAIN new
      /\ k \notin DOMAIN new /\ k \in DOMAIN ps => ms[k] = ps[k]
      /\ k \in DOMAIN new => ms[k] = IF k \notin DOMAIN ps \/ ~AtLeast(ps[k], new[k])
                                     THEN new[k] ELSE ps[k]
  BY MergeAt DEF ShouldReplace, AtLeast
<1> HIDE DEF ms
<1>2. \A a, b, c \in Position : /\ AtLeast(a, a) /\ (AtLeast(a, b) \/ AtLeast(b, a))
                                /\ AtLeast(a, b) /\ AtLeast(b, c) => AtLeast(a, c)
  BY AtLeastOrder
<1>3. Among(ms, k, E)
  BY <1>1 DEF Among
<1>4. ASSUME NEW p \in E, Holds(ps, k, p) PROVE Holds(ms, k, p)
  <2>1. CASE k \notin DOMAIN new
    BY <1>1, <1>4, <2>1 DEF Holds
  <2>2. CASE k \in DOMAIN new
    <3>1. PICK q, x : q = new[k] /\ x = ps[k]
      OBVIOUS
    <3>2. q \in Position /\ x \in Position /\ p \in Position /\ AtLeast(x, p) /\ k \in DOMAIN ms
          /\ ms[k] = IF ~AtLeast(x, q) THEN q ELSE x
      BY <1>1, <1>4, <2>2, <3>1 DEF Holds, Among
    <3> QED BY <1>2, <3>2 DEF Holds
  <2> QED BY <2>1, <2>2
<1>5. ASSUME k \in DOMAIN new PROVE Holds(ms, k, new[k])
  BY <1>1, <1>2, <1>5 DEF Holds
<1> QED BY <1>3, <1>4, <1>5 DEF ms

(* Without redemption a document only adds.                                *)
LEMMA IngestedHolds ==
    ASSUME NEW E \in SUBSET Position, NEW k, NEW ps, Among(ps, k, E), NEW d,
           IsSequence(d.holdings), Accepted(d), ~Redeems(d),
           \A j \in DOMAIN d.holdings :
               k \in DOMAIN Stated(d, d.holdings[j]) => Stated(d, d.holdings[j])[k] \in E
    PROVE  /\ Among(Ingested(ps, d), k, E)
           /\ \A p \in E : Holds(ps, k, p) => Holds(Ingested(ps, d), k, p)
           /\ \A j \in DOMAIN d.holdings : k \in DOMAIN Stated(d, d.holdings[j]) =>
                 Holds(Ingested(ps, d), k, Stated(d, d.holdings[j])[k])
<1>1. PICK c : IsChain("holdings", d, c, ps, d.holdings) /\ Merged(ps, d) = c[Len(d.holdings)]
  BY MergedUnfolds
<1> DEFINE Says(j) == Stated(d, d.holdings[j])
           Right(f, n) ==
               /\ Among(f, k, E)
               /\ \A p \in E : Holds(ps, k, p) => Holds(f, k, p)
               /\ \A j \in 1..n : k \in DOMAIN Says(j) => Holds(f, k, Says(j)[k])
           Good == {n \in Nat : n <= Len(d.holdings) => Right(c[n], n)}
<1>0. Len(d.holdings) \in Nat /\ DOMAIN d.holdings = 1..Len(d.holdings)
  BY DEF IsSequence
<1>2. 0 \in Good
  BY <1>1 DEF IsChain
<1>3. ASSUME NEW n \in Nat, n \in Good PROVE n + 1 \in Good
  <2> SUFFICES ASSUME n + 1 <= Len(d.holdings) PROVE Right(c[n + 1], n + 1)
    OBVIOUS
  <2>0. n + 1 \in 1..Len(d.holdings) /\ (n + 1) - 1 = n /\ 1..(n + 1) = (1..n) \cup {n + 1}
    BY <1>0
  <2>1. Right(c[n], n)
    BY <1>0, <1>3
  <2>2. c[n + 1] = Merge(c[n], Says(n + 1))
    BY <1>1, <2>0 DEF IsChain, Advance
  <2>3. \A j \in 1..(n + 1) : k \in DOMAIN Says(j) => Says(j)[k] \in E
    BY <1>0
  <2> HIDE DEF Says
  <2>4. /\ Among(c[n + 1], k, E)
        /\ \A p \in E : Holds(c[n], k, p) => Holds(c[n + 1], k, p)
        /\ k \in DOMAIN Says(n + 1) => Holds(c[n + 1], k, Says(n + 1)[k])
    BY <2>0, <2>1, <2>2, <2>3, MergeHolds
  <2>5. \A j \in 1..(n + 1) : k \in DOMAIN Says(j) => Holds(c[n + 1], k, Says(j)[k])
    BY <2>0, <2>1, <2>3, <2>4
  <2> QED BY <2>1, <2>4, <2>5
<1>4. Len(d.holdings) \in Good
  <2> HIDE DEF Good
  <2> QED BY <1>0, <1>2, <1>3, Induction
<1>5. Right(Merged(ps, d), Len(d.holdings))
  BY <1>0, <1>1, <1>4
<1>6. /\ k \in DOMAIN Ingested(ps, d) <=> k \in DOMAIN Merged(ps, d)
      /\ k \in DOMAIN Ingested(ps, d) => Ingested(ps, d)[k] = Merged(ps, d)[k]
  BY IngestedIsKept, KeptAt
<1> QED BY <1>0, <1>5, <1>6 DEF Among, Holds

Says(d, k, p) == \E j \in DOMAIN d.holdings :
                    k \in DOMAIN Stated(d, d.holdings[j]) /\ p = Stated(d, d.holdings[j])[k]

(* Without redemption a batch leaves, for each key, the newest of what the *)
(* ledger held and what the files say.                                     *)
LEMMA BatchHolds ==
    ASSUME NEW E \in SUBSET Position, NEW k, NEW ps, Among(ps, k, E), NEW files, IsSequence(files),
           \A i \in DOMAIN files : IsSequence(files[i].holdings),
           \A i \in DOMAIN files : Accepted(files[i]) =>
               ~Redeems(files[i]) /\ \A p : Says(files[i], k, p) => p \in E
    PROVE  /\ Among(FoldLeft(Ingested, ps, files), k, E)
           /\ \A p \in E : Holds(ps, k, p) => Holds(FoldLeft(Ingested, ps, files), k, p)
           /\ \A i \in DOMAIN files : Accepted(files[i]) => \A p : Says(files[i], k, p) =>
                 Holds(FoldLeft(Ingested, ps, files), k, p)
<1>1. PICK c : IsChain("files", None, c, ps, files) /\ FoldLeft(Ingested, ps, files) = c[Len(files)]
  BY BatchUnfolds
<1> DEFINE Right(f, n) ==
               /\ Among(f, k, E)
               /\ \A p \in E : Holds(ps, k, p) => Holds(f, k, p)
               /\ \A i \in 1..n : Accepted(files[i]) => \A p : Says(files[i], k, p) => Holds(f, k, p)
           Good == {n \in Nat : n <= Len(files) => Right(c[n], n)}
<1>0. Len(files) \in Nat /\ DOMAIN files = 1..Len(files)
  BY DEF IsSequence
<1>2. 0 \in Good
  BY <1>1 DEF IsChain
<1>3. ASSUME NEW n \in Nat, n \in Good PROVE n + 1 \in Good
  <2> SUFFICES ASSUME n + 1 <= Len(files) PROVE Right(c[n + 1], n + 1)
    OBVIOUS
  <2>0. n + 1 \in 1..Len(files) /\ (n + 1) - 1 = n /\ 1..(n + 1) = (1..n) \cup {n + 1}
    BY <1>0
  <2>1. Right(c[n], n)
    BY <1>0, <1>3
  <2>2. PICK d : d = files[n + 1]
    OBVIOUS
  <2>3. c[n + 1] = Ingested(c[n], d)
    BY <1>1, <2>0, <2>2 DEF IsChain, Advance
  <2>4. CASE ~Accepted(d)
    <3>1. c[n + 1] = c[n]
      BY <2>3, <2>4 DEF Ingested
    <3> QED BY <2>0, <2>1, <2>2, <2>4, <3>1
  <2>5. CASE Accepted(d)
    <3>1. /\ IsSequence(d.holdings) /\ ~Redeems(d)
          /\ \A j \in DOMAIN d.holdings :
               k \in DOMAIN Stated(d, d.holdings[j]) => Stated(d, d.holdings[j])[k] \in E
          /\ \A p : Says(d, k, p) => p \in E
      BY <1>0, <2>0, <2>2, <2>5 DEF Says
    <3>2. /\ Among(c[n + 1], k, E)
          /\ \A p \in E : Holds(c[n], k, p) => Holds(c[n + 1], k, p)
          /\ \A j \in DOMAIN d.holdings : k \in DOMAIN Stated(d, d.holdings[j]) =>
                Holds(c[n + 1], k, Stated(d, d.holdings[j])[k])
      BY <2>1, <2>3, <2>5, <3>1, IngestedHolds
    <3>3. \A p : Says(d, k, p) => Holds(c[n + 1], k, p)
      BY <3>2 DEF Says
    <3>4. ASSUME NEW i \in 1..n, Accepted(files[i]), NEW p, Says(files[i], k, p)
          PROVE  Holds(c[n + 1], k, p)
      <4>1. p \in E /\ Holds(c[n], k, p)
        BY <1>0, <2>0, <2>1, <3>4
      <4> QED BY <3>2, <4>1
    <3>5. \A i \in 1..(n + 1) : Accepted(files[i]) =>
             \A p : Says(files[i], k, p) => Holds(c[n + 1], k, p)
      BY <2>0, <2>2, <3>3, <3>4
    <3> QED BY <2>1, <3>2, <3>5
  <2> QED BY <2>4, <2>5
<1>4. Len(files) \in Good
  <2> HIDE DEF Good
  <2> QED BY <1>0, <1>2, <1>3, Induction
<1> QED BY <1>0, <1>1, <1>4

(* A reordering has the files of the batch and no other.                   *)
LEMMA Reordered ==
    ASSUME batch \in Seq(Documents), NEW files \in Reorderings(batch)
    PROVE  /\ IsSequence(files)
           /\ \A i \in DOMAIN files : \E m \in DOMAIN batch : files[i] = batch[m]
           /\ \A m \in DOMAIN batch : \E i \in DOMAIN files : files[i] = batch[m]
<1>1. PICK p \in Bijection(DOMAIN batch, DOMAIN batch) : files = [i \in DOMAIN batch |-> batch[p[i]]]
  BY DEF Reorderings
<1>2. p \in [DOMAIN batch -> DOMAIN batch] /\ \A m \in DOMAIN batch : \E i \in DOMAIN batch : p[i] = m
  BY <1>1 DEF Bijection, Surjection, Injection
<1>3. PICK n \in Nat : DOMAIN batch = 1..n /\ batch \in [1..n -> Documents]
  OBVIOUS
<1>4. files \in [1..n -> Documents]
  BY <1>1, <1>2, <1>3
<1>5. files \in Seq(Documents) /\ Len(files) = n
  BY <1>4
<1> QED BY <1>1, <1>2, <1>3, <1>4, <1>5 DEF IsSequence

(* Each order leaves the newest of all evidence of a key, which is one     *)
(* statement when nothing ties.                                            *)
LEMMA OrderDoesNotMatter == ASSUME IInv PROVE OrderOnlyMattersToRedemption
<1> SUFFICES ASSUME \A i \in DOMAIN batch : Accepted(batch[i]) => ~Redeems(batch[i]),
                    ~\E c, d \in Candidates : Tie(c, d), pc = "done",
                    NEW files \in Reorderings(batch)
             PROVE  FoldLeft(Ingested, seed, files) = result.positions
    BY DEF OrderOnlyMattersToRedemption, UploadOrderNeverMatters
<1> DEFINE R == FoldLeft(Ingested, seed, batch)
           T == FoldLeft(Ingested, seed, files)
<1>0. batch \in Seq(Documents) /\ IsSequence(batch) /\ IsLedger(seed)
      /\ \A i \in DOMAIN batch : IsSequence(batch[i].holdings)
  BY DoneIsTaken, SeedsAssumption DEF IInv, TypeOK, IsLedger
<1>1. R = result.positions
  BY FoldReturns DEF IInv, ReturnsTheFold
<1>2. IsLedger(R) /\ IsLedger(T)
  BY <1>0, Reordered, BatchIsLedger
<1>3. ASSUME NEW k PROVE Same(R, T, k)
  <2> DEFINE E == {p \in Position : Evidence(k, p)}
  <2>1. /\ Among(seed, k, E) /\ \A p : Evidence(k, p) => p \in E
        /\ \A i \in DOMAIN batch : Accepted(batch[i]) => \A p : Says(batch[i], k, p) => p \in E
    <3>1. \A p : Evidence(k, p) => p \in E
      BY DEF IInv, EvidenceIsPosition
    <3>2. Among(seed, k, E)
      BY <3>1 DEF Among, Evidence, InSeed
    <3>3. \A i \in DOMAIN batch : Accepted(batch[i]) => \A p : Says(batch[i], k, p) => Evidence(k, p)
      BY DoneIsTaken DEF Says
    <3> QED BY <3>1, <3>2, <3>3
  <2>2. \A p \in E : AtLeast(p, p)
    BY AtLeastOrder
  <2>3. ASSUME NEW fs, IsSequence(fs),
               \A i \in DOMAIN fs : \E m \in DOMAIN batch : fs[i] = batch[m],
               \A m \in DOMAIN batch : \E i \in DOMAIN fs : fs[i] = batch[m]
        PROVE  /\ Among(FoldLeft(Ingested, seed, fs), k, E)
               /\ \A p \in E : Holds(FoldLeft(Ingested, seed, fs), k, p)
    <3> DEFINE F == FoldLeft(Ingested, seed, fs)
    <3>1. /\ \A i \in DOMAIN fs : IsSequence(fs[i].holdings)
          /\ \A i \in DOMAIN fs : Accepted(fs[i]) =>
               ~Redeems(fs[i]) /\ \A p : Says(fs[i], k, p) => p \in E
      BY <1>0, <2>1, <2>3
    <3>2. /\ Among(F, k, E)
          /\ \A p \in E : Holds(seed, k, p) => Holds(F, k, p)
          /\ \A i \in DOMAIN fs : Accepted(fs[i]) => \A p : Says(fs[i], k, p) => Holds(F, k, p)
      <4> HIDE DEF E
      <4>1. E \in SUBSET Position BY DEF E
      <4> QED BY <2>1, <2>3, <3>1, <4>1, BatchHolds
    <3> HIDE DEF F
    <3>3. ASSUME NEW p \in E PROVE Holds(F, k, p)
      <4>1. CASE InSeed(k, p)
        BY <2>2, <3>2, <4>1 DEF InSeed, Holds
      <4>2. CASE ~InSeed(k, p)
        <5>1. PICK m \in DOMAIN batch : Accepted(batch[m]) /\ Says(batch[m], k, p)
          BY <4>2 DEF Evidence, StatedAt, Taken, Says
        <5> QED BY <2>3, <3>2, <5>1
      <4> QED BY <4>1, <4>2
    <3> QED BY <3>2, <3>3 DEF F
  <2>4. Among(R, k, E) /\ \A p \in E : Holds(R, k, p)
    BY <1>0, <2>3
  <2>5. Among(T, k, E) /\ \A p \in E : Holds(T, k, p)
    BY <1>0, <2>3, Reordered
  <2> HIDE DEF R, T
  <2>6. k \in DOMAIN R <=> k \in DOMAIN T
    BY <2>4, <2>5 DEF Among, Holds
  <2>7. ASSUME k \in DOMAIN R PROVE R[k] = T[k]
    <3>1. PICK p, q : p = R[k] /\ q = T[k]
      OBVIOUS
    <3>2. p \in E /\ q \in E /\ AtLeast(p, q) /\ AtLeast(q, p)
      <4>1. p \in E /\ q \in E
        BY <2>4, <2>5, <2>6, <2>7, <3>1 DEF Among
      <4> QED BY <2>4, <2>5, <3>1, <4>1 DEF Holds
    <3> QED BY <3>1, <3>2, TieOfEvidence
  <2> QED BY <2>6, <2>7 DEF Same
<1>4. DOMAIN R = DOMAIN T /\ \A k \in DOMAIN R : R[k] = T[k]
  <2> HIDE DEF R, T
  <2> QED BY <1>3 DEF Same
<1> QED
  <2> HIDE DEF R, T
  <2>1. T = R
    BY <1>2, <1>4 DEF IsLedger
  <2> QED BY <1>1, <2>1 DEF R, T
-----------------------------------------------------------------------------
(* The inductive invariant holds in every reachable state.                 *)
THEOREM Invariance == Spec => []IInv
BY IInvInit, IInvStep, PTL DEF Spec

(* Type correctness: no half-read statement is ever taken for a position.  *)
THEOREM TypeCorrect == Spec => []TypeOK
BY Invariance, PTL DEF IInv

(* Every stored position is one statement's word for its key.              *)
THEOREM PositionsAreEvidence == Spec => []EveryPositionIsEvidence
BY Invariance, PTL DEF IInv

(* Nothing survives its redemption unless a later file states it again.    *)
THEOREM RedemptionIsThorough == Spec => []RedemptionLeavesNothing
BY Invariance, PTL DEF IInv

(* The silence of one source never removes what only another one listed.   *)
THEOREM SilenceStaysAtHome == Spec => []OtherSourcesSurvive
BY Invariance, PTL DEF IInv

(* Nothing older displaces anything newer, and silence removes only what   *)
(* it may.                                                                 *)
THEOREM NewestOrRedeemed == Spec => []CurrentUnlessRedeemed
BY Invariance, SettledIsCurrent, PTL DEF IInv

(* A call returns its statements taken whole, in upload order.             *)
THEOREM ReturnsWholeFold == Spec => []ReturnsTheFold
BY Invariance, FoldReturns, PTL DEF IInv

(* Ingesting the same files again is quiet: a ledger built from nothing,   *)
(* in which no two sources tie, does not change.                           *)
THEOREM SecondIngestQuiet == Spec => []SecondIngestIsNoop
BY Invariance, SecondIngest, PTL

(* Without redemption and ties every order of the files returns the same.  *)
THEOREM OrderIrrelevant == Spec => []OrderOnlyMattersToRedemption
BY Invariance, OrderDoesNotMatter, PTL
=============================================================================
