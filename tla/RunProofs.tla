------------------------------ MODULE RunProofs ------------------------------
(***************************************************************************)
(* Proofs about ingestion runs against the ledger, for any runs, any       *)
(* statements, any ledger and any number of changes and faults.            *)
(***************************************************************************)
EXTENDS RunRequirements, FiniteSetTheorems, WellFoundedInduction, TLAPS

Working == {"persisting", "creating", "selecting", "writing"}
Unfinished == InTransaction \cup {"queued", "failing"}

Positions(f) == f \in [DOMAIN f -> Position]

(* A set of balance rows, committed or staged.                             *)
RowSet(f) ==
    /\ IsFiniteSet(DOMAIN f) /\ f \in [DOMAIN f -> Rows]
    /\ \A b \in DOMAIN f : b = <<b[1], b[2]>> /\ b[2] \in Int

(* A document of some run is only committed if that run succeeded.         *)
Committed(document) ==
    \A s \in Runs : document \in Records /\ document.run = s => status[s] = "SUCCEEDED"

LedgerInv ==
    /\ \A n \in DOMAIN accounts : accounts[n] \in [active : BOOLEAN, by : Runs \cup {None}]
    /\ \A n \in DOMAIN accounts : accounts[n].by \in Runs => status[accounts[n].by] = "SUCCEEDED"
    /\ RowSet(balances)
    /\ \A b \in DOMAIN balances : b[1] \in DOMAIN accounts /\ Committed(balances[b].document)

(* The functions of runs, and where a run can be when it has which status. *)
Shape ==
    /\ status \in [Runs -> Statuses \cup {None}]
    /\ pc \in [Runs -> Over \cup InTransaction \cup {"queued", "failing", "cleaning"}]
    /\ tmpdir \in [Runs -> BOOLEAN]
    /\ DOMAIN statement = Runs /\ DOMAIN current = Runs /\ DOMAIN result = Runs
    /\ DOMAIN todo = Runs /\ DOMAIN key = Runs /\ DOMAIN seen = Runs /\ DOMAIN staged = Runs
    /\ DOMAIN overtaken = Runs

(* Nobody else staged a row or an account this run has staged.             *)
Exclusive(r) ==
    \A s \in Others(r) : DOMAIN staged[r].balances \cap DOMAIN staged[s].balances = {}

(* What a run has staged, position by position: the row of a position that *)
(* is done, under the run's document if the position has one and under the *)
(* row's own otherwise, with the position's amount or, if that row was     *)
(* overtaken, the one it has.                                              *)
StagedFor(r, b) ==
    LET n == b[1]  p == result[r][n]  row == staged[r].balances[b]
    IN  /\ n \in DOMAIN result[r] \ todo[r] /\ b = <<n, p.asOf>>
        /\ n \in DOMAIN accounts \cup staged[r].accounts
        /\ p.issued # None => row.document = DocumentOf(r, p)
        /\ p.issued = None =>
             row.document = IF b \in DOMAIN balances THEN balances[b].document ELSE None
        /\ \/ row.amount = p.value
           \/ b \in overtaken[r] \cap DOMAIN balances /\ row.amount = balances[b].amount

StagingInv(r) ==
    /\ staged[r] = [accounts |-> staged[r].accounts, balances |-> staged[r].balances]
    /\ RowSet(staged[r].balances)
    /\ Exclusive(r)
    /\ \A b \in DOMAIN staged[r].balances : StagedFor(r, b)
    /\ \A n \in DOMAIN result[r] \ todo[r] :
         result[r][n].issued # None => <<n, result[r][n].asOf>> \in DOMAIN staged[r].balances
    /\ pc[r] \notin Working => staged[r] = Nothing

(* What a run has loaded and computed: no position is older than the one   *)
(* it was loaded over.                                                     *)
ResultInv(r) ==
    /\ Positions(current[r]) /\ Positions(result[r])
    /\ \A n \in DOMAIN result[r] \cap DOMAIN current[r] :
         result[r][n] = current[r][n] \/ Newer(result[r][n], current[r][n])
    /\ todo[r] \subseteq DOMAIN result[r]
    /\ pc[r] \notin Working => result[r] = NoRows /\ todo[r] = {}

(* Where a run is, and what it has at hand there.                          *)
ControlInv(r) ==
    /\ pc[r] \in Unfinished => statement[r] \in Documents /\ status[r] \in {"PENDING", "PROCESSING"}
    /\ status[r] = None => pc[r] = "none"
    /\ pc[r] \in {"creating", "selecting", "writing"} => key[r] \in todo[r]
    /\ pc[r] \in {"selecting", "writing"} => key[r] \in DOMAIN accounts \cup staged[r].accounts
    /\ pc[r] = "writing" /\ seen[r] # None => seen[r] \in Rows /\ Committed(seen[r].document)

IInv == LedgerInv /\ Shape /\ \A r \in Runs : StagingInv(r) /\ ResultInv(r) /\ ControlInv(r)
-----------------------------------------------------------------------------
(* What holds of 0 and with n of n + 1 holds of every natural number: there *)
(* would be a least counterexample.                                        *)
LEMMA Induction ==
    ASSUME NEW S, 0 \in S, \A n \in Nat : n \in S => n + 1 \in S
    PROVE  Nat \subseteq S
<1> DEFINE T == Nat \ S
           R == OpToRel(<, Nat)
<1>1. \A m, n \in Nat : m < n => <<m, n>> \in R
  BY DEF OpToRel
<1>2. SUFFICES ASSUME T # {} PROVE FALSE
  OBVIOUS
<1> HIDE DEF R
<1>3. IsWellFoundedOn(R, Nat)
  BY NatLessThanWellFounded, Zenon DEF R
<1>4. PICK x \in T : \A y \in T : ~(<<y, x>> \in R)
  <2> T \subseteq Nat OBVIOUS
  <2> HIDE DEF T
  <2> QED BY <1>2, <1>3, WFMin
<1>5. x # 0 /\ x \in Nat
  BY <1>4
<1>6. x - 1 \in T /\ x - 1 \in Nat /\ x - 1 < x
  BY <1>5, <1>4
<1>7. <<x - 1, x>> \in R
  BY <1>1, <1>5, <1>6
<1> QED BY <1>4, <1>6, <1>7

(* A finite set of integers that is not empty has a greatest element.      *)
LEMMA GreatestExists ==
    ASSUME NEW S \in SUBSET Int, IsFiniteSet(S), S # {}
    PROVE  \E x \in S : \A y \in S : x >= y
<1> DEFINE Good == {n \in Nat : \A Q \in SUBSET Int :
                      IsFiniteSet(Q) /\ Q # {} /\ Cardinality(Q) = n =>
                        \E x \in Q : \A y \in Q : x >= y}
<1>1. 0 \in Good
  BY FS_EmptySet
<1>2. ASSUME NEW n \in Nat, n \in Good PROVE n + 1 \in Good
  <2> SUFFICES ASSUME NEW Q \in SUBSET Int, IsFiniteSet(Q), Q # {}, Cardinality(Q) = n + 1
               PROVE  \E x \in Q : \A y \in Q : x >= y
    BY <1>2
  <2>1. PICK a \in Q : TRUE
    OBVIOUS
  <2>2. IsFiniteSet(Q \ {a}) /\ Cardinality(Q \ {a}) = n
    <3> HIDE DEF Good
    <3>1. IsFiniteSet(Q \ {a}) /\ Cardinality(Q \ {a}) = Cardinality(Q) - 1
      BY <2>1, FS_RemoveElement
    <3> QED BY <3>1
  <2>3. CASE Q \ {a} = {}
    BY <2>1, <2>3
  <2>4. CASE Q \ {a} # {}
    <3>1. PICK x \in Q \ {a} : \A y \in Q \ {a} : x >= y
      BY <1>2, <2>2, <2>4
    <3>2. CASE x >= a BY <3>1, <3>2
    <3>3. CASE ~(x >= a) BY <2>1, <3>1, <3>3
    <3> QED BY <3>2, <3>3
  <2> QED BY <2>3, <2>4
<1> HIDE DEF Good
<1>3. Nat \subseteq Good
  BY <1>1, <1>2, Induction
<1>4. Cardinality(S) \in Good
  BY <1>3, FS_CardinalityType
<1> QED BY <1>4 DEF Good

(* f folds the elements of S into base, for each subset of S the one m     *)
(* chooses last.                                                           *)
IsFold(f, base, S, m, g) ==
    \A s \in SUBSET S : f[s] = IF s = {} THEN base ELSE g[<<m[s], f[s \ {m[s]}]>>]

(* Such a fold exists when no step of it leaves V.                         *)
LEMMA FoldExists ==
    ASSUME NEW V, NEW base \in V, NEW S, IsFiniteSet(S),
           NEW m, \A s \in SUBSET S : s # {} => m[s] \in s,
           NEW g, \A x \in S, v \in V : g[<<x, v>>] \in V
    PROVE  \E f \in [SUBSET S -> V] : IsFold(f, base, S, m, g)
<1> DEFINE Step(f, s) == IF s = {} THEN base ELSE g[<<m[s], f[s \ {m[s]}]>>]
           Upto(n) == {s \in SUBSET S : Cardinality(s) <= n}
           Solved(f, n) == \A s \in Upto(n) : f[s] = Step(f, s)
           Good == {n \in Nat : \E f \in [SUBSET S -> V] : Solved(f, n)}
<1>1. \A s \in SUBSET S : IsFiniteSet(s) /\ Cardinality(s) \in Nat /\ Cardinality(s) <= Cardinality(S)
                          /\ (Cardinality(s) = 0 <=> s = {})
  BY FS_Subset, FS_CardinalityType, FS_EmptySet
<1>2. \A s \in SUBSET S : s # {} => /\ m[s] \in S /\ s \ {m[s]} \in SUBSET S
                                     /\ Cardinality(s \ {m[s]}) = Cardinality(s) - 1
  BY <1>1, FS_RemoveElement
<1>3. \A f \in [SUBSET S -> V] : \A s \in SUBSET S : Step(f, s) \in V
  BY <1>2
<1>4. 0 \in Good
  <2>1. Solved([s \in SUBSET S |-> base], 0)
    BY <1>1
  <2> HIDE DEF Solved
  <2> QED BY <2>1
<1>5. ASSUME NEW n \in Nat, n \in Good PROVE n + 1 \in Good
  <2>1. PICK f \in [SUBSET S -> V] : Solved(f, n)
    BY <1>5
  <2> DEFINE h == [s \in SUBSET S |-> IF Cardinality(s) <= n THEN f[s] ELSE Step(f, s)]
  <2>2. h \in [SUBSET S -> V]
    BY <1>3
  <2>3. ASSUME NEW s \in Upto(n + 1) PROVE h[s] = Step(h, s)
    <3>1. CASE s = {}
      BY <1>1, <2>1, <3>1
    <3>2. CASE s # {}
      <4>1. s \ {m[s]} \in SUBSET S /\ Cardinality(s \ {m[s]}) <= n
        BY <1>1, <1>2, <3>2
      <4>2. h[s \ {m[s]}] = f[s \ {m[s]}]
        BY <4>1
      <4>3. Step(h, s) = Step(f, s)
        BY <4>2, <3>2
      <4> HIDE DEF Step
      <4>4. h[s] = Step(f, s)
        BY <2>1
      <4> QED BY <4>3, <4>4
    <3> QED BY <3>1, <3>2
  <2>4. Solved(h, n + 1)
    BY <2>3
  <2> HIDE DEF h, Solved
  <2> QED BY <2>2, <2>4
<1>6. Cardinality(S) \in Good
  <2> HIDE DEF Good
  <2> QED BY <1>1, <1>4, <1>5, Induction
<1>7. PICK f \in [SUBSET S -> V] : Solved(f, Cardinality(S))
  BY <1>6
<1>8. IsFold(f, base, S, m, g)
  BY <1>1, <1>7 DEF IsFold
<1> QED BY <1>8

(* A fold stays in a set that its base is in and its steps do not leave.   *)
LEMMA FoldStays ==
    ASSUME NEW V, NEW S, IsFiniteSet(S),
           NEW m, \A s \in SUBSET S : s # {} => m[s] \in s,
           NEW f, f[{}] \in V,
           \A s \in SUBSET S : s # {} /\ f[s \ {m[s]}] \in V => f[s] \in V
    PROVE  f[S] \in V
<1> DEFINE Good == {n \in Nat : \A s \in SUBSET S : Cardinality(s) = n => f[s] \in V}
<1>1. \A s \in SUBSET S : /\ IsFiniteSet(s) /\ Cardinality(s) \in Nat
                          /\ Cardinality(s) = 0 <=> s = {}
  BY FS_Subset, FS_CardinalityType, FS_EmptySet
<1>2. \A s \in SUBSET S : s # {} => /\ s \ {m[s]} \in SUBSET S
                                     /\ Cardinality(s \ {m[s]}) = Cardinality(s) - 1
  BY <1>1, FS_RemoveElement
<1>3. 0 \in Good
  BY <1>1
<1>4. ASSUME NEW n \in Nat, n \in Good PROVE n + 1 \in Good
  <2> SUFFICES ASSUME NEW s \in SUBSET S, Cardinality(s) = n + 1 PROVE f[s] \in V
    OBVIOUS
  <2>1. s # {}
    BY <1>1
  <2>2. f[s \ {m[s]}] \in V
    BY <1>2, <1>4, <2>1
  <2> QED BY <2>1, <2>2
<1>5. Cardinality(S) \in Good
  <2> HIDE DEF Good
  <2> QED BY <1>1, <1>3, <1>4, Induction
<1> QED BY <1>5
-----------------------------------------------------------------------------
(* The supersession order is a total preorder on positions.                *)
LEMMA NewerOrder ==
    ASSUME NEW p \in Position, NEW q \in Position, NEW r \in Position
    PROVE  /\ ~Newer(p, p)
           /\ Newer(p, q) => ~Newer(q, p)
           /\ Newer(p, q) /\ Newer(q, r) => Newer(p, r)
BY NoneAssumption DEF Position, Newer, IssuedLater

(* What a holding states is a position when it does not raise.             *)
LEMMA StatedIsPosition ==
    ASSUME NEW d \in Document, NEW j \in DOMAIN d.holdings, ~Raises(d, d.holdings[j]),
           NEW k \in DOMAIN Stated(d, d.holdings[j])
    PROVE  Stated(d, d.holdings[j])[k] \in Position
<1> DEFINE h == d.holdings[j]
<1>1. h \in Holding
  BY DEF Document
<1>2. /\ h.value \in Int /\ h.currency \in Currencies /\ h.asOf \in Int
      /\ d.issued \in Int \cup {None} /\ d.source \in Sources \cup {None}
      /\ d.type = "epf_passbook" => h.employer \in Int /\ h.pension \in Int
  BY <1>1 DEF Raises, Document, Holding
<1> HIDE DEF h
<1>3. CASE d.type = "epf_passbook"
  BY <1>2, <1>3 DEF Stated, Position, h
<1>4. CASE d.type # "epf_passbook"
  BY <1>2, <1>4 DEF Stated, Position, h
<1> QED BY <1>3, <1>4

(* Sets of positions over some keys that keep every key of ps, each with   *)
(* the position it has there or a newer one.                               *)
Successors(ps, keys) ==
    {f \in UNION {[D -> Position] : D \in SUBSET keys} :
        \A k \in DOMAIN ps : /\ k \in DOMAIN f
                             /\ f[k] = ps[k] \/ Newer(f[k], ps[k])}

(* Merging a whole statement into ps loses no key and makes nothing older. *)
LEMMA MergedIsSuccessor ==
    ASSUME NEW d \in Document, \A j \in DOMAIN d.holdings : ~Raises(d, d.holdings[j]),
           NEW ps, Positions(ps)
    PROVE  Merged(ps, d) \in Successors(ps, DOMAIN ps \cup Mentioned(d))
<1> DEFINE S == DOMAIN d.holdings
           keys == DOMAIN ps \cup Mentioned(d)
           V == Successors(ps, keys)
           m == [s \in SUBSET S |-> Max(s)]
           g == [e \in S \X V |-> Merge(e[2], Stated(d, d.holdings[e[1]]))]
<1>1. ps \in V
  BY DEF Successors, Positions
<1>2. S \in SUBSET Int /\ IsFiniteSet(S)
  <2>1. d.holdings \in Seq(Holding)
    BY DEF Document
  <2>2. S = 1..Len(d.holdings) /\ Len(d.holdings) \in Nat
    BY <2>1
  <2> QED BY <2>2, FS_Interval
<1>3. ASSUME NEW s \in SUBSET S, s # {} PROVE m[s] \in s
  <2>1. IsFiniteSet(s) /\ s \in SUBSET Int
    BY <1>2, FS_Subset
  <2>2. \E x \in s : \A y \in s : x >= y
    BY <1>3, <2>1, GreatestExists
  <2> QED BY <2>2 DEF Max
<1>4. ASSUME NEW j \in S, NEW v \in V PROVE Merge(v, Stated(d, d.holdings[j])) \in V
  <2> DEFINE new == Stated(d, d.holdings[j])
  <2>1. \A k \in DOMAIN new : new[k] \in Position /\ k \in keys
    BY StatedIsPosition DEF Mentioned
  <2>2. PICK D \in SUBSET keys : v \in [D -> Position]
    BY DEF Successors
  <2>3. \A k \in DOMAIN ps : /\ k \in D
                             /\ v[k] = ps[k] \/ Newer(v[k], ps[k])
    BY <2>2 DEF Successors
  <2> HIDE DEF new
  <2>4. Merge(v, new) \in [D \cup DOMAIN new -> Position]
    BY <2>1, <2>2 DEF Merge, ShouldReplace
  <2>5. ASSUME NEW k \in DOMAIN ps
        PROVE  Merge(v, new)[k] = ps[k] \/ Newer(Merge(v, new)[k], ps[k])
    <3>1. k \in D /\ v[k] \in Position /\ ps[k] \in Position
      BY <2>2, <2>3 DEF Positions
    <3>2. CASE k \in DOMAIN new /\ ShouldReplace(v, k, new[k])
      <4>1. Merge(v, new)[k] = new[k] /\ new[k] \in Position /\ Newer(new[k], v[k])
        BY <2>1, <2>2, <3>1, <3>2 DEF Merge, ShouldReplace
      <4> QED BY <2>3, <3>1, <4>1, NewerOrder
    <3>3. CASE ~(k \in DOMAIN new /\ ShouldReplace(v, k, new[k]))
      <4>1. Merge(v, new)[k] = v[k]
        BY <2>2, <3>1, <3>3 DEF Merge
      <4> QED BY <2>3, <4>1
    <3> QED BY <3>2, <3>3
  <2>6. D \cup DOMAIN new \in SUBSET keys
    BY <2>1
  <2>7. Merge(v, new) \in UNION {[E -> Position] : E \in SUBSET keys}
    BY <2>4, <2>6
  <2>8. \A k \in DOMAIN ps : k \in DOMAIN Merge(v, new)
    BY <2>3, <2>4
  <2> QED BY <2>5, <2>7, <2>8 DEF Successors, new
<1>5. \A j \in S, v \in V : g[<<j, v>>] = Merge(v, Stated(d, d.holdings[j]))
  OBVIOUS
<1>6. \A j \in S, v \in V : g[<<j, v>>] \in V
  <2> HIDE DEF V, g
  <2> QED BY <1>4, <1>5
<1>7. PICK e \in [SUBSET S -> V] : IsFold(e, ps, S, m, g)
  <2> HIDE DEF V, S, m, g
  <2>1. \A s \in SUBSET S : s # {} => m[s] \in s
    BY <1>3
  <2> QED BY <1>1, <1>2, <1>6, <2>1, FoldExists
<1> DEFINE Step(f, s) ==
             IF s = {} THEN ps ELSE Merge(f[s \ {Max(s)}], Stated(d, d.holdings[Max(s)]))
           iter == CHOOSE f : f = [s \in SUBSET S |-> Step(f, s)]
<1>8. e = [s \in SUBSET S |-> Step(e, s)]
  <2> SUFFICES ASSUME NEW s \in SUBSET S PROVE e[s] = Step(e, s)
    OBVIOUS
  <2> HIDE DEF V, S, m, g
  <2>1. CASE s = {} BY <1>7, <2>1 DEF IsFold
  <2>2. CASE s # {}
    <3>1. m[s] \in S /\ e[s \ {m[s]}] \in V
      BY <1>3, <2>2
    <3>2. e[s] = Merge(e[s \ {m[s]}], Stated(d, d.holdings[m[s]]))
      BY <1>5, <1>7, <2>2, <3>1 DEF IsFold
    <3> QED BY <2>2, <3>2 DEF m
  <2> QED BY <2>1, <2>2
<1>9. iter = [s \in SUBSET S |-> Step(iter, s)]
  <2> HIDE DEF Step
  <2> QED BY <1>8
<1>10. Merged(ps, d) = iter[S]
  BY DEF Merged, FoldLeft, MapThenFoldSet
<1> HIDE DEF iter
<1>11. iter[{}] = ps
  BY <1>9
<1>12. \A s \in SUBSET S : s # {} /\ iter[s \ {m[s]}] \in V => iter[s] \in V
  <2> SUFFICES ASSUME NEW s \in SUBSET S, s # {}, iter[s \ {m[s]}] \in V
               PROVE  iter[s] \in V
    OBVIOUS
  <2>1. iter[s] = Merge(iter[s \ {m[s]}], Stated(d, d.holdings[m[s]]))
    BY <1>9
  <2> HIDE DEF V, S, m
  <2> QED BY <1>3, <1>4, <2>1
<1>13. iter[S] \in V
  <2> HIDE DEF V, S, m
  <2> QED BY <1>1, <1>2, <1>3, <1>11, <1>12, FoldStays
<1> QED BY <1>10, <1>13

(* What ingest() returns is a set of positions, none older than the one it *)
(* was given under the same name.                                          *)
LEMMA IngestedNotOlder ==
    ASSUME NEW d \in Documents, ~IngestRaises(d), NEW ps, Positions(ps)
    PROVE  /\ Positions(Ingested(ps, d))
           /\ \A n \in DOMAIN Ingested(ps, d) \cap DOMAIN ps :
                Ingested(ps, d)[n] = ps[n] \/ Newer(Ingested(ps, d)[n], ps[n])
<1>1. CASE ~Accepted(d)
  BY <1>1 DEF Ingested
<1>2. CASE Accepted(d)
  <2> DEFINE qs == Merged(ps, d)
             kept == {k \in DOMAIN qs : ~(Redeems(d) /\ RedeemedBy(d, k, qs[k]))}
  <2>1. d \in Document /\ \A j \in DOMAIN d.holdings : ~Raises(d, d.holdings[j])
    BY <1>2, DocumentsAssumption DEF IngestRaises
  <2>2. qs \in Successors(ps, DOMAIN ps \cup Mentioned(d))
    BY <2>1, MergedIsSuccessor
  <2>3. Ingested(ps, d) = [k \in kept |-> qs[k]]
    BY <1>2 DEF Ingested
  <2> HIDE DEF qs
  <2> QED BY <2>2, <2>3 DEF Successors, Positions
<1> QED BY <1>1, <1>2
-----------------------------------------------------------------------------
LEMMA DatesFinite ==
    ASSUME RowSet(balances), NEW n
    PROVE  Dates(n) \in SUBSET Int /\ IsFiniteSet(Dates(n))
<1> DEFINE S == {c \in DOMAIN balances : c[1] = n}
           f == [c \in S |-> c[2]]
<1>1. IsFiniteSet(S)
  BY FS_Subset DEF RowSet
<1>2. f \in Surjection(S, Dates(n))
  BY DEF Surjection, Dates
<1>3. IsFiniteSet(Dates(n))
  <2> HIDE DEF f, S
  <2> QED BY <1>1, <1>2, FS_Surjection
<1> QED BY <1>3 DEF RowSet, Dates

LEMMA LatestIsGreatest ==
    ASSUME RowSet(balances), NEW n, Dates(n) # {}
    PROVE  Latest(n) \in Dates(n) /\ \A e \in Dates(n) : Latest(n) >= e
BY DatesFinite, GreatestExists DEF Latest

(* What a run loads are positions.                                         *)
LEMMA LoadedArePositions == ASSUME RowSet(balances) PROVE Positions(Loaded)
<1> SUFFICES ASSUME NEW n \in DOMAIN Loaded PROVE Loaded[n] \in Position
    BY DEF Positions, Loaded
<1> DEFINE b == <<n, Latest(n)>>
<1>1. Dates(n) # {} /\ Loaded[n] = PositionOf(balances[b], Latest(n))
  BY DEF Loaded
<1>2. Latest(n) \in Dates(n)
  BY <1>1, LatestIsGreatest
<1>3. b \in DOMAIN balances /\ Latest(n) \in Int
  BY <1>2 DEF RowSet, Dates
<1>4. balances[b] \in Rows
  BY <1>3 DEF RowSet
<1> QED BY <1>1, <1>3, <1>4 DEF PositionOf, Position, Rows, Records, Currencies

(* A row set stays one when rows are put, overlaid or deleted.             *)
LEMMA RowSetStays ==
    ASSUME NEW f, RowSet(f)
    PROVE  /\ \A n : \A date \in Int, row \in Rows : RowSet(Put(f, <<n, date>>, row))
           /\ \A g : RowSet(g) => RowSet(Overlay(f, g))
           /\ \A b : RowSet([c \in DOMAIN f \ {b} |-> f[c]])
<1>1. ASSUME NEW n, NEW date \in Int, NEW row \in Rows PROVE RowSet(Put(f, <<n, date>>, row))
  <2>1. IsFiniteSet(DOMAIN f \cup {<<n, date>>})
    BY FS_AddElement DEF RowSet
  <2> QED BY <2>1 DEF RowSet, Put
<1>2. ASSUME NEW g, RowSet(g) PROVE RowSet(Overlay(f, g))
  <2>1. IsFiniteSet(DOMAIN f \cup DOMAIN g)
    BY <1>2, FS_Union DEF RowSet
  <2> QED BY <1>2, <2>1 DEF RowSet, Overlay
<1>3. ASSUME NEW b PROVE RowSet([c \in DOMAIN f \ {b} |-> f[c]])
  <2>1. IsFiniteSet(DOMAIN f \ {b})
    BY FS_RemoveElement DEF RowSet
  <2> QED BY <2>1 DEF RowSet
<1> QED BY <1>1, <1>2, <1>3

-----------------------------------------------------------------------------
LEMMA EmptyHanded ==
    /\ Positions(NoRows) /\ DOMAIN NoRows = {}
    /\ RowSet(Nothing.balances) /\ DOMAIN Nothing.balances = {} /\ Nothing.accounts = {}
    /\ Nothing = [accounts |-> Nothing.accounts, balances |-> Nothing.balances]
<1>1. DOMAIN NoRows = {} /\ Nothing.balances = NoRows
  BY DEF NoRows, Nothing
<1>2. IsFiniteSet(DOMAIN NoRows)
  BY <1>1, FS_EmptySet
<1> QED BY <1>1, <1>2 DEF NoRows, Nothing, Positions, RowSet

LEMMA InvInit == Init => IInv
<1> SUFFICES ASSUME Init PROVE IInv
    OBVIOUS
<1>1. LedgerInv
  <2>1. RowSet(balances)
    BY LedgerAssumption DEF Init, RowSet
  <2>2. ASSUME NEW b \in DOMAIN balances
        PROVE  b[1] \in DOMAIN accounts /\ Committed(balances[b].document)
    <3>1. balances[b].document \in Records => balances[b].document.run = None
      BY LedgerAssumption, RunAssumption DEF Init
    <3> QED BY <3>1, RunAssumption DEF Init, Committed
  <2>3. \A n \in DOMAIN accounts : accounts[n] = [active |-> TRUE, by |-> None]
    BY DEF Init
  <2>4. \A n \in DOMAIN accounts : /\ accounts[n] \in [active : BOOLEAN, by : Runs \cup {None}]
                                   /\ accounts[n].by \notin Runs
    <3>1. None \notin Runs
      BY RunAssumption
    <3>2. [active |-> TRUE, by |-> None] \in [active : BOOLEAN, by : Runs \cup {None}]
      OBVIOUS
    <3> QED BY <2>3, <3>1, <3>2
  <2> QED BY <2>1, <2>2, <2>4 DEF LedgerInv
<1>2. Shape
  BY DEF Init, Shape, Over
<1>3. ASSUME NEW r \in Runs PROVE StagingInv(r) /\ ResultInv(r) /\ ControlInv(r)
  <2>1. /\ staged[r] = Nothing /\ current[r] = NoRows /\ result[r] = NoRows /\ todo[r] = {}
        /\ status[r] = None /\ pc[r] = "none"
    BY <1>3 DEF Init
  <2>2. StagingInv(r)
    BY <2>1, EmptyHanded DEF StagingInv, Exclusive
  <2>3. ResultInv(r)
    BY <2>1, EmptyHanded DEF ResultInv
  <2>4. ControlInv(r)
    BY <2>1 DEF ControlInv, Unfinished, InTransaction
  <2> QED BY <2>2, <2>3, <2>4
<1> QED BY <1>1, <1>2, <1>3 DEF IInv

(* A step of run r's task leaves the other tasks alone, and must not undo  *)
(* a success or an account, or touch a row that another run has staged.    *)
Frame(r) ==
    \A s \in Others(r) :
        /\ status'[s] = status[s] /\ pc'[s] = pc[s] /\ statement'[s] = statement[s]
        /\ current'[s] = current[s] /\ result'[s] = result[s] /\ todo'[s] = todo[s]
        /\ key'[s] = key[s] /\ seen'[s] = seen[s] /\ staged'[s] = staged[s]
        /\ overtaken'[s] = overtaken[s]

StepOf(r) ==
    /\ Frame(r)
    /\ status[r] = "SUCCEEDED" => status'[r] = "SUCCEEDED"
    /\ DOMAIN accounts \subseteq DOMAIN accounts'
    /\ \A s \in Others(r) : \A b \in DOMAIN staged[s].balances :
         /\ b \in DOMAIN balances' <=> b \in DOMAIN balances
         /\ b \in DOMAIN balances => balances'[b] = balances[b]
         /\ b \notin DOMAIN staged'[r].balances

LEMMA OthersUnaffected ==
    ASSUME IInv, NEW r \in Runs, StepOf(r), NEW s \in Others(r)
    PROVE  StagingInv(s)' /\ ResultInv(s)' /\ ControlInv(s)'
<1>0. /\ s \in Runs /\ s # r /\ StagingInv(s) /\ ResultInv(s) /\ ControlInv(s)
  BY DEF Others, IInv
<1>1. /\ status'[s] = status[s] /\ pc'[s] = pc[s] /\ statement'[s] = statement[s]
      /\ current'[s] = current[s] /\ result'[s] = result[s] /\ todo'[s] = todo[s]
      /\ key'[s] = key[s] /\ seen'[s] = seen[s] /\ staged'[s] = staged[s]
        /\ overtaken'[s] = overtaken[s]
  BY DEF StepOf, Frame
<1>2. \A t \in Runs : status[t] = "SUCCEEDED" => status'[t] = "SUCCEEDED"
  BY DEF StepOf, Frame, Others
<1>3. StagingInv(s)'
  <2>1. Exclusive(s)'
    <3> SUFFICES ASSUME NEW t \in Others(s)
                 PROVE  DOMAIN staged'[s].balances \cap DOMAIN staged'[t].balances = {}
      BY DEF Exclusive, Others
    <3>1. CASE t = r
      BY <1>1, <3>1 DEF StepOf
    <3>2. CASE t # r
      <4>1. staged'[t] = staged[t]
        BY <3>2 DEF StepOf, Frame, Others
      <4> QED BY <1>0, <1>1, <4>1 DEF StagingInv, Exclusive
    <3> QED BY <3>1, <3>2
  <2>2. ASSUME NEW b \in DOMAIN staged[s].balances PROVE StagedFor(s, b)'
    <3>1. StagedFor(s, b)
      BY <1>0, <2>2 DEF StagingInv
    <3>2. /\ b \in DOMAIN balances' <=> b \in DOMAIN balances
          /\ b \in DOMAIN balances => balances'[b] = balances[b]
          /\ DOMAIN accounts \subseteq DOMAIN accounts'
      BY <2>2 DEF StepOf
    <3> QED BY <1>1, <3>1, <3>2 DEF StagedFor, DocumentOf
  <2> QED BY <1>0, <1>1, <2>1, <2>2 DEF StagingInv, Nothing, NoRows, Working
<1>4. ResultInv(s)'
  BY <1>0, <1>1 DEF ResultInv
<1>5. ControlInv(s)'
  <2>1. (pc[s] = "writing" /\ seen[s] # None => seen[s] \in Rows /\ Committed(seen[s].document))'
    BY <1>0, <1>1, <1>2 DEF ControlInv, Committed
  <2> QED BY <1>0, <1>1, <2>1 DEF ControlInv, StepOf
<1> QED BY <1>3, <1>4, <1>5

(* So a step of r is right if it is right for r and the ledger.            *)
LEMMA StepIsRight ==
    ASSUME IInv, NEW r \in Runs, StepOf(r), Shape', LedgerInv',
           StagingInv(r)', ResultInv(r)', ControlInv(r)'
    PROVE  IInv'
<1>1. ASSUME NEW s \in Runs PROVE StagingInv(s)' /\ ResultInv(s)' /\ ControlInv(s)'
  <2>1. CASE s = r BY <2>1
  <2>2. CASE s # r
    <3>1. s \in Others(r)
      BY <2>2 DEF Others
    <3> QED BY <3>1, OthersUnaffected
  <2> QED BY <2>1, <2>2
<1> QED BY <1>1 DEF IInv

LEMMA LedgerStays ==
    ASSUME LedgerInv, UNCHANGED db,
           \A s \in Runs : status[s] = "SUCCEEDED" => status'[s] = "SUCCEEDED"
    PROVE  LedgerInv'
<1>1. accounts' = accounts /\ balances' = balances
  BY DEF db
<1>2. (\A b \in DOMAIN balances : Committed(balances[b].document))'
  BY <1>1 DEF LedgerInv, Committed
<1> QED BY <1>1, <1>2 DEF LedgerInv

(* A step that stages no row and does not touch the ledger.                *)
LEMMA QuietStep ==
    ASSUME IInv, NEW r \in Runs, Frame(r), UNCHANGED db,
           status[r] = "SUCCEEDED" => status'[r] = "SUCCEEDED",
           DOMAIN staged'[r].balances \subseteq DOMAIN staged[r].balances
    PROVE  StepOf(r) /\ LedgerInv' /\ Exclusive(r)'
<1>1. accounts' = accounts /\ balances' = balances
  BY DEF db
<1>2. LedgerInv'
  BY LedgerStays DEF IInv, Frame, Others
<1>3. \A s \in Others(r) : /\ staged'[s] = staged[s]
                           /\ DOMAIN staged[r].balances \cap DOMAIN staged[s].balances = {}
  BY DEF IInv, StagingInv, Exclusive, Frame
<1>4. Exclusive(r)'
  BY <1>3 DEF Exclusive, Others
<1>5. StepOf(r)
  BY <1>1, <1>3 DEF StepOf
<1> QED BY <1>2, <1>4, <1>5

(* Such a step that does not touch what is loaded or staged either.        *)
LEMMA PlainStep ==
    ASSUME IInv, NEW r \in Runs, Frame(r), UNCHANGED <<db, current, result, todo, staged, overtaken>>,
           status[r] = "SUCCEEDED" => status'[r] = "SUCCEEDED",
           pc'[r] \in Working \/ pc[r] \notin Working,
           Shape', ControlInv(r)'
    PROVE  IInv'
<1>1. StagingInv(r) /\ ResultInv(r)
  BY DEF IInv
<1>2. StepOf(r) /\ LedgerInv' /\ Exclusive(r)'
  BY QuietStep
<1>3. accounts' = accounts /\ balances' = balances
  BY DEF db
<1>4. StagingInv(r)'
  <2>1. \A b \in DOMAIN staged[r].balances : StagedFor(r, b) => StagedFor(r, b)'
    BY <1>3 DEF StagedFor, DocumentOf
  <2> QED BY <1>1, <1>2, <2>1 DEF StagingInv, Nothing, NoRows
<1>5. ResultInv(r)'
  BY <1>1 DEF ResultInv, NoRows
<1> QED BY <1>2, <1>4, <1>5, StepIsRight

(* A step in which the task drops what it has done.                        *)
LEMMA LeavingStep ==
    ASSUME IInv, NEW r \in Runs, Leave(r), StepOf(r), Shape', LedgerInv',
           pc'[r] \notin Working, ControlInv(r)'
    PROVE  IInv'
<1>1. /\ current'[r] = NoRows /\ result'[r] = NoRows /\ todo'[r] = {} /\ staged'[r] = Nothing
      /\ Nothing' = Nothing /\ NoRows' = NoRows
  BY DEF Leave, IInv, Shape, Nothing, NoRows
<1>2. StagingInv(r)'
  BY <1>1, EmptyHanded DEF StagingInv, Exclusive
<1>3. ResultInv(r)'
  BY <1>1, EmptyHanded DEF ResultInv
<1> QED BY <1>2, <1>3, StepIsRight
-----------------------------------------------------------------------------
LEMMA UploadStep == ASSUME IInv, NEW r \in Runs, Upload(r) PROVE IInv'
<1>0. Shape /\ ControlInv(r) /\ pc[r] = "none"
  BY DEF IInv, ControlInv, Upload
<1>1. Frame(r)
  BY <1>0 DEF Upload, To, Frame, Others, local, Shape
<1>2. Shape'
  BY <1>0 DEF Upload, To, local, Shape, Statuses
<1>3. ControlInv(r)'
  BY <1>0, RunAssumption DEF Upload, To, local, Shape, ControlInv, Unfinished, InTransaction, Statuses
<1>4. pc[r] \notin Working /\ status[r] # "SUCCEEDED"
  BY <1>0, RunAssumption DEF Working, Upload, Statuses
<1> QED BY <1>1, <1>2, <1>3, <1>4, PlainStep DEF Upload, local

LEMMA MarkProcessingStep == ASSUME IInv, NEW r \in Runs, MarkProcessing(r) PROVE IInv'
<1>0. Shape /\ ControlInv(r) /\ pc[r] = "queued"
  BY DEF IInv, MarkProcessing
<1>1. Frame(r)
  BY <1>0 DEF MarkProcessing, To, Frame, Others, task, Shape
<1>2. Shape'
  BY <1>0 DEF MarkProcessing, To, task, Shape, InTransaction, Statuses
<1>3. ControlInv(r)'
  BY <1>0, RunAssumption DEF MarkProcessing, To, task, Shape, ControlInv, Unfinished, InTransaction, Statuses
<1>4. pc[r] \notin Working /\ status[r] # "SUCCEEDED"
  BY <1>0 DEF Working, ControlInv, Unfinished
<1> QED BY <1>1, <1>2, <1>3, <1>4, PlainStep DEF MarkProcessing, task

LEMMA FindAccountStep == ASSUME IInv, NEW r \in Runs, FindAccount(r) PROVE IInv'
<1>0. Shape /\ ControlInv(r) /\ pc[r] = "persisting"
  BY DEF IInv, FindAccount
<1>1. PICK k \in todo[r] :
        /\ key' = [key EXCEPT ![r] = k]
        /\ To(r, IF k \in DOMAIN accounts \cup staged[r].accounts THEN "selecting" ELSE "creating")
  BY DEF FindAccount
<1>2. Frame(r)
  BY <1>0, <1>1 DEF FindAccount, To, Frame, Others, Shape
<1>3. Shape'
  BY <1>0, <1>1 DEF FindAccount, To, Shape, InTransaction
<1>4. ControlInv(r)'
  BY <1>0, <1>1 DEF FindAccount, To, Shape, ControlInv, Unfinished, InTransaction, db
<1>5. pc'[r] \in Working
  BY <1>0, <1>1 DEF Shape, To, Working
<1> QED BY <1>2, <1>3, <1>4, <1>5, PlainStep DEF FindAccount

LEMMA SelectBalanceStep == ASSUME IInv, NEW r \in Runs, SelectBalance(r) PROVE IInv'
<1>0. Shape /\ ControlInv(r) /\ LedgerInv /\ pc[r] = "selecting"
  BY DEF IInv, SelectBalance
<1>1. Frame(r)
  BY <1>0 DEF SelectBalance, To, Frame, Others, Shape
<1>2. Shape'
  BY <1>0 DEF SelectBalance, To, Shape, InTransaction
<1>3. ControlInv(r)'
  <2>1. seen'[r] = None \/ (Row(r) \in DOMAIN balances /\ seen'[r] = balances[Row(r)])
    BY <1>0 DEF SelectBalance, Shape
  <2>2. seen'[r] # None => seen'[r] \in Rows /\ Committed(seen[r].document)'
    BY <1>0, <2>1 DEF LedgerInv, RowSet, Committed, SelectBalance
  <2> QED BY <1>0, <2>2 DEF SelectBalance, To, Shape, ControlInv, Unfinished, InTransaction, db
<1>4. pc'[r] \in Working
  BY <1>0 DEF SelectBalance, Shape, To, Working
<1> QED BY <1>1, <1>2, <1>3, <1>4, PlainStep DEF SelectBalance, ControlInv, Unfinished

LEMMA LoadStep == ASSUME IInv, NEW r \in Runs, Load(r) PROVE IInv'
<1>0. /\ Shape /\ ControlInv(r) /\ LedgerInv /\ StagingInv(r) /\ ResultInv(r)
      /\ pc[r] = "loading" /\ pc[r] \notin Working
  BY DEF IInv, Load, Working
<1>1. Frame(r)
  BY <1>0 DEF Load, To, Frame, Others, Shape
<1>2. Shape'
  BY <1>0 DEF Load, To, Shape, InTransaction
<1>3. StepOf(r) /\ LedgerInv' /\ Exclusive(r)'
  BY <1>1, QuietStep DEF Load
<1>4. staged'[r] = Nothing /\ result'[r] = NoRows /\ todo'[r] = {} /\ pc'[r] \notin Working
  BY <1>0 DEF Load, To, Shape, StagingInv, ResultInv, Working
<1>5. StagingInv(r)'
  BY <1>3, <1>4, EmptyHanded DEF StagingInv, Nothing, NoRows
<1>6. ResultInv(r)'
  <2>1. current'[r] = Loaded /\ Positions(Loaded)
    BY <1>0, LoadedArePositions DEF Load, Shape, LedgerInv
  <2> QED BY <1>4, <2>1, EmptyHanded DEF ResultInv, Positions, NoRows
<1>7. ControlInv(r)'
  BY <1>0 DEF Load, To, Shape, ControlInv, Unfinished, InTransaction
<1> QED BY <1>2, <1>3, <1>5, <1>6, <1>7, StepIsRight

LEMMA IngestStep == ASSUME IInv, NEW r \in Runs, Ingest(r) PROVE IInv'
<1> DEFINE qs == Ingested(current[r], statement[r])
<1>0. /\ Shape /\ ControlInv(r) /\ LedgerInv /\ StagingInv(r) /\ ResultInv(r)
      /\ pc[r] = "ingesting" /\ pc[r] \notin Working
  BY DEF IInv, Ingest, Working
<1>1. Frame(r)
  BY <1>0 DEF Ingest, To, Frame, Others, Shape
<1>2. Shape'
  BY <1>0 DEF Ingest, To, Shape, InTransaction
<1>3. StepOf(r) /\ LedgerInv' /\ Exclusive(r)'
  BY <1>1, QuietStep DEF Ingest
<1>4. /\ Positions(qs)
      /\ \A n \in DOMAIN qs \cap DOMAIN current[r] :
           qs[n] = current[r][n] \/ Newer(qs[n], current[r][n])
  <2>1. statement[r] \in Documents /\ ~IngestRaises(statement[r]) /\ Positions(current[r])
    BY <1>0 DEF ControlInv, Unfinished, InTransaction, ResultInv, Ingest
  <2> QED BY <2>1, IngestedNotOlder
<1> HIDE DEF qs
<1>5. /\ staged'[r] = Nothing /\ result'[r] = qs /\ todo'[r] = DOMAIN qs
      /\ pc'[r] = "persisting" /\ current' = current
  BY <1>0 DEF Ingest, To, Shape, StagingInv, Working, qs
<1>6. StagingInv(r)'
  BY <1>3, <1>5, EmptyHanded DEF StagingInv, Nothing, NoRows, Working
<1>7. ResultInv(r)'
  BY <1>0, <1>4, <1>5 DEF ResultInv, Working
<1>8. ControlInv(r)'
  BY <1>0, <1>5 DEF Ingest, To, Shape, ControlInv, Unfinished, InTransaction
<1> QED BY <1>2, <1>3, <1>6, <1>7, <1>8, StepIsRight

LEMMA CreateAccountStep == ASSUME IInv, NEW r \in Runs, CreateAccount(r) PROVE IInv'
<1>0. /\ Shape /\ ControlInv(r) /\ StagingInv(r) /\ ResultInv(r)
      /\ pc[r] = "creating" /\ pc[r] \in Working
  BY DEF IInv, CreateAccount, Working
<1>1. Frame(r)
  BY <1>0 DEF CreateAccount, To, Frame, Others, Shape
<1>2. Shape'
  BY <1>0 DEF CreateAccount, To, Shape, InTransaction
<1>3. /\ staged'[r] = [accounts |-> staged[r].accounts \cup {key[r]},
                       balances |-> staged[r].balances]
      /\ pc'[r] = "selecting" /\ result' = result /\ todo' = todo /\ current' = current
      /\ key' = key /\ overtaken' = overtaken /\ accounts' = accounts /\ balances' = balances
  BY <1>0 DEF CreateAccount, To, Shape, StagingInv, db
<1>4. StepOf(r) /\ LedgerInv' /\ Exclusive(r)'
  BY <1>1, <1>3, QuietStep DEF CreateAccount
<1>5. StagingInv(r)'
  <2>1. ASSUME NEW b \in DOMAIN staged[r].balances PROVE StagedFor(r, b)'
    <3>1. StagedFor(r, b)
      BY <1>0 DEF StagingInv
    <3> QED BY <1>3, <3>1 DEF StagedFor, DocumentOf
  <2> QED BY <1>0, <1>3, <1>4, <2>1 DEF StagingInv, Working
<1>6. ResultInv(r)'
  BY <1>0, <1>3 DEF ResultInv, Working
<1>7. ControlInv(r)'
  BY <1>0, <1>3 DEF CreateAccount, To, Shape, ControlInv, Unfinished, InTransaction
<1> QED BY <1>2, <1>4, <1>5, <1>6, <1>7, StepIsRight

(* The row that a task writes, if it writes one, is a row no one else has  *)
(* staged, under the document of the position at hand.                     *)
LEMMA WrittenRow ==
    ASSUME IInv, NEW r \in Runs, WriteBalance(r)
    PROVE  LET p == result[r][key[r]]  b == Row(r)
           IN  \/ staged' = staged /\ p.issued = None
               \/ /\ ~RowLocked(r, b)
                  /\ \E row \in Rows :
                       /\ staged' = [staged EXCEPT ![r].balances = Put(@, b, row)]
                       /\ p.issued # None => row.document = DocumentOf(r, p)
                       /\ p.issued = None =>
                            row.document = IF b \in DOMAIN balances THEN balances[b].document ELSE None
                       /\ row.amount = p.value
                          \/ (b \in overtaken'[r] \cap DOMAIN balances /\ row.amount = balances[b].amount)
<1> DEFINE p == result[r][key[r]]
           b == Row(r)
<1>0. Shape /\ ControlInv(r) /\ LedgerInv /\ StagingInv(r) /\ ResultInv(r) /\ pc[r] = "writing"
  BY DEF IInv, WriteBalance
<1>1. p \in Position
  BY <1>0 DEF ControlInv, ResultInv, Positions
<1>2. DocumentOf(r, p) \in Records \cup {None} /\ (p.issued # None => DocumentOf(r, p) \in Records)
  BY <1>1 DEF DocumentOf, Position, Records
<1>3. CASE ~Changed(r, p)
  <2>1. staged' = staged /\ seen[r] # None
    BY <1>3 DEF WriteBalance, Changed
  <2>2. ASSUME p.issued # None PROVE FALSE
    <3>1. DocumentOf(r, p) = seen[r].document
      BY <1>3, <2>1, <2>2 DEF Changed
    <3>2. DocumentOf(r, p).run = r
      BY <2>2 DEF DocumentOf
    <3>3. Committed(seen[r].document)
      BY <1>0, <2>1 DEF ControlInv
    <3>4. status[r] = "SUCCEEDED"
      BY <1>2, <2>2, <3>1, <3>2, <3>3 DEF Committed
    <3> QED BY <1>0, <3>4 DEF ControlInv, Unfinished, InTransaction
  <2> QED BY <2>1, <2>2
<1>4. CASE Changed(r, p)
  <2>1. ~RowLocked(r, b) /\ ((seen[r] = None) <=> (b \notin DOMAIN balances))
    BY <1>4 DEF WriteBalance
  <2> DEFINE row == IF seen[r] = None THEN [amount |-> p.value, document |-> DocumentOf(r, p)]
                    ELSE Updated(r, p, balances[b])
  <2>2. staged' = [staged EXCEPT ![r].balances = Put(@, b, row)]
    BY <1>4 DEF WriteBalance
  <2>3. row \in Rows
    <3>1. CASE seen[r] = None
      BY <1>1, <1>2, <3>1 DEF Rows, Position
    <3>2. CASE seen[r] # None
      <4>1. balances[b] \in Rows
        BY <1>0, <2>1, <3>2 DEF LedgerInv, RowSet
      <4> QED BY <1>1, <1>2, <3>2, <4>1 DEF Updated, Rows, Position
    <3> QED BY <3>1, <3>2
  <2>4. /\ p.issued # None => row.document = DocumentOf(r, p)
        /\ p.issued = None =>
             row.document = IF b \in DOMAIN balances THEN balances[b].document ELSE None
        /\ row.amount = p.value
           \/ (b \in overtaken'[r] \cap DOMAIN balances /\ row.amount = balances[b].amount)
    <3>1. CASE seen[r] = None
      BY <2>1, <3>1 DEF DocumentOf
    <3>2. CASE seen[r] # None
      <4>1. overtaken'[r] = overtaken[r] \cup ChangedSinceSelect(r)
        BY <1>0 DEF WriteBalance, Shape
      <4>2. balances[b].amount # seen[r].amount => b \in overtaken'[r]
        BY <2>1, <3>2, <4>1 DEF ChangedSinceSelect
      <4>3. CASE p.value # seen[r].amount
        BY <2>1, <3>2, <4>3 DEF Updated
      <4>4. CASE p.value = seen[r].amount
        BY <2>1, <3>2, <4>2, <4>4 DEF Updated
      <4> QED BY <4>3, <4>4
    <3> QED BY <3>1, <3>2
  <2> HIDE DEF row
  <2> QED BY <2>1, <2>2, <2>3, <2>4
<1> QED BY <1>3, <1>4

LEMMA WriteBalanceStep == ASSUME IInv, NEW r \in Runs, WriteBalance(r) PROVE IInv'
<1> DEFINE n == key[r]
           p == result[r][n]
           b == Row(r)
<1>0. /\ Shape /\ ControlInv(r) /\ LedgerInv /\ StagingInv(r) /\ ResultInv(r)
      /\ pc[r] = "writing" /\ pc[r] \in Working
  BY DEF IInv, WriteBalance, Working
<1>1. /\ n \in todo[r] /\ n \in DOMAIN result[r] /\ n \in DOMAIN accounts \cup staged[r].accounts
      /\ p \in Position /\ b = <<n, p.asOf>> /\ b[1] = n
  BY <1>0 DEF ControlInv, ResultInv, Positions, Row
<1>2. /\ todo'[r] = todo[r] \ {n} /\ pc'[r] = "persisting" /\ result' = result
      /\ current' = current /\ status' = status /\ statement' = statement
      /\ accounts' = accounts /\ balances' = balances
      /\ \A s \in Others(r) : todo'[s] = todo[s] /\ pc'[s] = pc[s] /\ key'[s] = key[s]
                               /\ seen'[s] = seen[s] /\ overtaken'[s] = overtaken[s]
      /\ overtaken[r] \subseteq overtaken'[r]
  BY <1>0 DEF WriteBalance, Written, To, Shape, Others, db
<1>3. Shape' /\ LedgerInv' /\ ControlInv(r)' /\ ResultInv(r)'
  <2>1. UNCHANGED db
    BY <1>2 DEF db
  <2>2. Shape'
    BY <1>0 DEF WriteBalance, Written, To, Shape, InTransaction
  <2>3. LedgerInv'
    BY <1>0, <1>2, <2>1, LedgerStays
  <2>4. ControlInv(r)'
    BY <1>0, <1>2 DEF ControlInv, Unfinished, InTransaction
  <2>5. ResultInv(r)'
    BY <1>0, <1>2 DEF ResultInv, Working
  <2> QED BY <2>2, <2>3, <2>4, <2>5
<1>4. CASE staged' = staged /\ p.issued = None
  <2>1. Frame(r)
    BY <1>2, <1>4 DEF Frame
  <2>2. StepOf(r) /\ Exclusive(r)'
    BY <1>2, <1>4, <2>1, QuietStep DEF db
  <2>3. ASSUME NEW c \in DOMAIN staged[r].balances PROVE StagedFor(r, c)'
    <3>1. StagedFor(r, c)
      BY <1>0 DEF StagingInv
    <3> QED BY <1>2, <1>4, <3>1 DEF StagedFor, DocumentOf
  <2>4. StagingInv(r)'
    BY <1>0, <1>1, <1>2, <1>4, <2>2, <2>3 DEF StagingInv, Working
  <2> QED BY <1>3, <2>2, <2>4, StepIsRight
<1>5. ASSUME ~RowLocked(r, b), NEW row \in Rows,
             staged' = [staged EXCEPT ![r].balances = Put(@, b, row)],
             p.issued # None => row.document = DocumentOf(r, p),
             p.issued = None =>
               row.document = IF b \in DOMAIN balances THEN balances[b].document ELSE None,
             row.amount = p.value
               \/ (b \in overtaken'[r] \cap DOMAIN balances /\ row.amount = balances[b].amount)
      PROVE  IInv'
  <2>1. /\ staged'[r] = [accounts |-> staged[r].accounts,
                         balances |-> Put(staged[r].balances, b, row)]
        /\ \A s \in Others(r) : staged'[s] = staged[s]
    BY <1>0, <1>5 DEF StagingInv, Shape, Others
  <2>2. Frame(r)
    BY <1>2, <2>1 DEF Frame
  <2>3. /\ DOMAIN staged'[r].balances = DOMAIN staged[r].balances \cup {b}
        /\ staged'[r].balances[b] = row
        /\ \A c \in DOMAIN staged[r].balances \ {b} :
             staged'[r].balances[c] = staged[r].balances[c]
        /\ staged'[r].accounts = staged[r].accounts
    BY <2>1 DEF Put
  <2>4. \A s \in Others(r) : DOMAIN staged'[r].balances \cap DOMAIN staged[s].balances = {}
    BY <1>0, <1>5, <2>3 DEF StagingInv, Exclusive, RowLocked
  <2>5. StepOf(r) /\ Exclusive(r)'
    BY <1>2, <2>1, <2>2, <2>4 DEF StepOf, Exclusive, Others
  <2>6. RowSet(staged'[r].balances)
    <3>1. RowSet(staged[r].balances) /\ p.asOf \in Int
      BY <1>0, <1>1 DEF StagingInv, Position
    <3>2. RowSet(Put(staged[r].balances, <<n, p.asOf>>, row))
      BY <3>1, RowSetStays
    <3> QED BY <1>1, <2>1, <3>2
  <2>7. ASSUME NEW c \in DOMAIN staged'[r].balances PROVE StagedFor(r, c)'
    <3>1. CASE c = b
      <4>1. /\ n \in DOMAIN result'[r] \ todo'[r] /\ result'[r][n] = p
            /\ n \in DOMAIN accounts' \cup staged'[r].accounts
        BY <1>1, <1>2, <2>3
      <4>2. staged'[r].balances[c] = row /\ c[1] = n /\ c = <<n, p.asOf>> /\ balances' = balances
        BY <1>1, <1>2, <2>3, <3>1
      <4> HIDE DEF p, n, b
      <4> QED BY <1>5, <3>1, <4>1, <4>2 DEF StagedFor, DocumentOf
    <3>2. CASE c # b
      <4>1. StagedFor(r, c) /\ c[1] # n
        BY <1>0, <1>1, <2>3, <3>2 DEF StagingInv, StagedFor
      <4> QED BY <1>2, <2>3, <3>2, <4>1 DEF StagedFor, DocumentOf
    <3> QED BY <3>1, <3>2
  <2>8. \A m \in DOMAIN result[r] \ todo'[r] :
          result[r][m].issued # None => <<m, result[r][m].asOf>> \in DOMAIN staged'[r].balances
    BY <1>0, <1>1, <1>2, <2>3 DEF StagingInv
  <2>9. StagingInv(r)'
    BY <1>2, <2>1, <2>5, <2>6, <2>7, <2>8 DEF StagingInv, Working
  <2> QED BY <1>3, <2>5, <2>9, StepIsRight
<1> QED BY <1>4, <1>5, WrittenRow

LEMMA SucceedStep == ASSUME IInv, NEW r \in Runs, Succeed(r) PROVE IInv'
<1>0. Shape /\ ControlInv(r) /\ LedgerInv /\ StagingInv(r) /\ ResultInv(r)
  BY DEF IInv
<1>1. /\ accounts' = Overlay(accounts, CreatedBy(r))
      /\ balances' = Overlay(balances, staged[r].balances)
      /\ status' = [status EXCEPT ![r] = "SUCCEEDED"] /\ Leave(r)
      /\ pc' = [pc EXCEPT ![r] = "cleaning"] /\ statement' = statement /\ tmpdir' = tmpdir
  BY DEF Succeed, To
<1>2. /\ status'[r] = "SUCCEEDED" /\ pc'[r] = "cleaning"
      /\ \A s \in Runs : status[s] = "SUCCEEDED" => status'[s] = "SUCCEEDED"
      /\ staged'[r] = Nothing /\ todo[r] = {}
  BY <1>0, <1>1 DEF Shape, Leave, Succeed
<1>3. Frame(r)
  BY <1>0, <1>1 DEF Leave, Frame, Others, Shape
<1>4. Shape'
  BY <1>0, <1>1 DEF Leave, Shape, Statuses
<1>5. StepOf(r)
  <2>1. \A s \in Others(r) : DOMAIN staged[r].balances \cap DOMAIN staged[s].balances = {}
    BY <1>0 DEF StagingInv, Exclusive
  <2>2. DOMAIN staged'[r].balances = {}
    BY <1>2, EmptyHanded
  <2> QED BY <1>1, <1>2, <1>3, <2>1, <2>2 DEF StepOf, Overlay
<1>6. LedgerInv'
  <2>1. ASSUME NEW n \in DOMAIN accounts'
        PROVE  /\ accounts'[n] \in [active : BOOLEAN, by : Runs \cup {None}]
               /\ accounts'[n].by \in Runs => status'[accounts'[n].by] = "SUCCEEDED"
    <3>1. CASE n \in staged[r].accounts
      <4>1. accounts'[n] = [active |-> TRUE, by |-> r]
        BY <1>1, <3>1 DEF Overlay, CreatedBy
      <4>2. [active |-> TRUE, by |-> r] \in [active : BOOLEAN, by : Runs \cup {None}]
        OBVIOUS
      <4> QED BY <1>2, <4>1, <4>2
    <3>2. CASE n \notin staged[r].accounts
      <4>1. n \in DOMAIN accounts /\ accounts'[n] = accounts[n]
        BY <1>1, <3>2 DEF Overlay, CreatedBy
      <4> QED BY <1>0, <1>2, <4>1 DEF LedgerInv
    <3> QED BY <3>1, <3>2
  <2>2. RowSet(balances')
    BY <1>0, <1>1, RowSetStays DEF LedgerInv, StagingInv
  <2>3. ASSUME NEW b \in DOMAIN balances'
        PROVE  b[1] \in DOMAIN accounts' /\ Committed(balances[b].document)'
    <3>1. CASE b \in DOMAIN staged[r].balances
      <4> DEFINE p == result[r][b[1]]
                 row == staged[r].balances[b]
      <4>1. StagedFor(r, b) /\ balances'[b] = row
        BY <1>0, <1>1, <3>1 DEF StagingInv, Overlay
      <4>2. b[1] \in DOMAIN accounts'
        BY <1>1, <4>1 DEF StagedFor, Overlay, CreatedBy
      <4>3. CASE p.issued # None
        <5>1. row.document.run = r
          BY <4>1, <4>3 DEF StagedFor, DocumentOf
        <5> QED BY <1>2, <4>1, <4>2, <5>1 DEF Committed
      <4>4. CASE p.issued = None /\ b \in DOMAIN balances
        <5>1. row.document = balances[b].document
          BY <4>1, <4>4 DEF StagedFor
        <5> QED BY <1>0, <1>2, <4>1, <4>2, <4>4, <5>1 DEF Committed, LedgerInv
      <4>5. CASE p.issued = None /\ b \notin DOMAIN balances
        <5>1. row.document = None
          BY <4>1, <4>5 DEF StagedFor
        <5> QED BY <4>1, <4>2, <5>1, RunAssumption DEF Committed
      <4> QED BY <4>3, <4>4, <4>5
    <3>2. CASE b \notin DOMAIN staged[r].balances
      <4>1. b \in DOMAIN balances /\ balances'[b] = balances[b]
        BY <1>1, <3>2 DEF Overlay
      <4>2. b[1] \in DOMAIN accounts'
        BY <1>0, <1>1, <4>1 DEF LedgerInv, Overlay
      <4> QED BY <1>0, <1>2, <4>1, <4>2 DEF LedgerInv, Committed
    <3> QED BY <3>1, <3>2
  <2> QED BY <2>1, <2>2, <2>3 DEF LedgerInv
<1>7. ControlInv(r)'
  BY <1>2, RunAssumption DEF ControlInv, Unfinished, InTransaction, Statuses
<1>8. pc'[r] \notin Working
  BY <1>2 DEF Working
<1> QED BY <1>1, <1>4, <1>5, <1>6, <1>7, <1>8, LeavingStep

(* Rolling back, from wherever an exception can be raised.                 *)
LEMMA RollBackStep ==
    ASSUME IInv, NEW r \in Runs, RollBack(r), pc[r] \in InTransaction \cup {"queued"}
    PROVE  IInv'
<1>0. Shape /\ ControlInv(r)
  BY DEF IInv
<1>1. Leave(r) /\ UNCHANGED <<db, status, statement, tmpdir>> /\ pc' = [pc EXCEPT ![r] = "failing"]
  BY DEF RollBack, To
<1>2. Frame(r)
  BY <1>0, <1>1 DEF Leave, Frame, Others, Shape
<1>3. Shape'
  BY <1>0, <1>1 DEF Leave, Shape
<1>4. StepOf(r) /\ LedgerInv'
  <2>1. DOMAIN staged'[r].balances = {}
    BY <1>0, <1>1, EmptyHanded DEF Leave, Shape
  <2> QED BY <1>1, <1>2, <2>1, QuietStep
<1>5. ControlInv(r)' /\ pc'[r] \notin Working
  BY <1>0, <1>1 DEF ControlInv, Unfinished, InTransaction, Shape, Working
<1> QED BY <1>1, <1>3, <1>4, <1>5, LeavingStep

LEMMA FailStep == ASSUME IInv, NEW r \in Runs, Fail(r) PROVE IInv'
<1>1. pc[r] \in InTransaction
  BY DEF Fail, StatementFault, NameTaken, RowTakenOrGone, DeadlockVictim, WaitsFor, InTransaction
<1> QED BY <1>1, RollBackStep DEF Fail

LEMMA DatabaseFailsStep == ASSUME IInv, NEW r \in Runs, DatabaseFails(r) PROVE IInv'
<1>1. CASE pc[r] \in InTransaction \cup {"queued"} /\ RollBack(r)
  BY <1>1, RollBackStep
<1>2. CASE pc[r] = "failing" /\ To(r, "cleaning") /\ UNCHANGED <<db, status, task, tmpdir, userActs>>
  <2>0. Shape /\ ControlInv(r)
    BY DEF IInv
  <2>1. Frame(r)
    BY <1>2, <2>0 DEF To, Frame, Others, task, Shape
  <2>2. Shape'
    BY <1>2, <2>0 DEF To, task, Shape
  <2>3. ControlInv(r)'
    BY <1>2, <2>0 DEF To, task, Shape, ControlInv, Unfinished, InTransaction
  <2>4. pc[r] \notin Working
    BY <1>2 DEF Working
  <2> QED BY <1>2, <2>1, <2>2, <2>3, <2>4, PlainStep DEF task
<1> QED BY <1>1, <1>2 DEF DatabaseFails

LEMMA MarkFailedStep == ASSUME IInv, NEW r \in Runs, MarkFailed(r) PROVE IInv'
<1>0. Shape /\ ControlInv(r) /\ pc[r] = "failing"
  BY DEF IInv, MarkFailed
<1>1. Frame(r)
  BY <1>0 DEF MarkFailed, To, Frame, Others, task, Shape
<1>2. Shape'
  BY <1>0 DEF MarkFailed, To, task, Shape, Statuses
<1>3. ControlInv(r)'
  BY <1>0, RunAssumption DEF MarkFailed, To, task, Shape, ControlInv, Unfinished, InTransaction, Statuses
<1>4. pc[r] \notin Working /\ status[r] # "SUCCEEDED"
  BY <1>0 DEF Working, ControlInv, Unfinished
<1> QED BY <1>1, <1>2, <1>3, <1>4, PlainStep DEF MarkFailed, task

LEMMA CleanStep == ASSUME IInv, NEW r \in Runs, Clean(r) PROVE IInv'
<1>0. Shape /\ ControlInv(r) /\ pc[r] = "cleaning"
  BY DEF IInv, Clean
<1>1. Frame(r)
  BY <1>0 DEF Clean, To, Frame, Others, local, Shape
<1>2. Shape'
  BY <1>0 DEF Clean, To, local, Shape, Over
<1>3. ControlInv(r)'
  BY <1>0 DEF Clean, To, local, Shape, ControlInv, Unfinished, InTransaction
<1>4. pc[r] \notin Working
  BY <1>0 DEF Working
<1> QED BY <1>1, <1>2, <1>3, <1>4, PlainStep DEF Clean, local
-----------------------------------------------------------------------------
(* The user only touches rows that no task has staged.                     *)
LEMMA UserStep ==
    ASSUME IInv, UNCHANGED <<status, pc, task, tmpdir>>, LedgerInv',
           DOMAIN accounts \subseteq DOMAIN accounts',
           \A b : Unlocked(b) \/ /\ b \in DOMAIN balances' <=> b \in DOMAIN balances
                                 /\ b \in DOMAIN balances => balances'[b] = balances[b]
    PROVE  IInv'
<1>1. /\ status' = status /\ pc' = pc /\ statement' = statement /\ current' = current
      /\ result' = result /\ todo' = todo /\ key' = key /\ seen' = seen
      /\ staged' = staged /\ overtaken' = overtaken /\ tmpdir' = tmpdir
  BY DEF task
<1>2. Shape'
  BY <1>1 DEF IInv, Shape
<1>3. ASSUME NEW r \in Runs PROVE StagingInv(r)' /\ ResultInv(r)' /\ ControlInv(r)'
  <2>0. StagingInv(r) /\ ResultInv(r) /\ ControlInv(r)
    BY DEF IInv
  <2>1. ASSUME NEW b \in DOMAIN staged[r].balances PROVE StagedFor(r, b)'
    <3>1. StagedFor(r, b)
      BY <2>0 DEF StagingInv
    <3>2. /\ b \in DOMAIN balances' <=> b \in DOMAIN balances
          /\ b \in DOMAIN balances => balances'[b] = balances[b]
      BY DEF Unlocked
    <3> QED BY <1>1, <3>1, <3>2 DEF StagedFor, DocumentOf
  <2>2. Exclusive(r)'
    BY <1>1, <2>0 DEF StagingInv, Exclusive, Others
  <2>3. StagingInv(r)'
    BY <1>1, <2>0, <2>1, <2>2 DEF StagingInv, Nothing, NoRows
  <2>4. ResultInv(r)'
    BY <1>1, <2>0 DEF ResultInv, NoRows
  <2>5. ControlInv(r)'
    BY <1>1, <2>0 DEF ControlInv, Committed
  <2> QED BY <2>3, <2>4, <2>5
<1> QED BY <1>2, <1>3 DEF IInv

LEMMA UserSetsStep ==
    ASSUME IInv, NEW n \in DOMAIN accounts, NEW date \in StatedDates, UserSets(n, date)
    PROVE  IInv'
<1> DEFINE b == <<n, date>>
           row == [amount |-> UserAmount,
                   document |-> IF b \in DOMAIN balances THEN balances[b].document ELSE None]
<1>0. LedgerInv
  BY DEF IInv
<1>1. /\ balances' = Put(balances, b, row) /\ accounts' = accounts /\ status' = status
      /\ Unlocked(b) /\ UNCHANGED <<status, pc, task, tmpdir>>
  BY DEF UserSets
<1>2. date \in Int
  <2>1. PICK d \in Documents : \E j \in DOMAIN d.holdings : date = d.holdings[j].asOf
    BY DEF StatedDates
  <2>2. PICK j \in DOMAIN d.holdings : date = d.holdings[j].asOf
    BY <2>1
  <2>3. d.holdings[j] \in Holding
    BY DocumentsAssumption DEF Document
  <2> QED BY <2>2, <2>3 DEF Holding
<1>3. row \in Rows /\ Committed(row.document)
  <2>1. CASE b \in DOMAIN balances
    BY <1>0, <2>1, LedgerAssumption DEF LedgerInv, RowSet, Rows
  <2>2. CASE b \notin DOMAIN balances
    BY <2>2, LedgerAssumption, RunAssumption DEF Rows, Committed
  <2> QED BY <2>1, <2>2
<1> HIDE DEF row
<1>4. RowSet(balances')
  BY <1>0, <1>1, <1>2, <1>3, RowSetStays DEF LedgerInv
<1>5. ASSUME NEW c \in DOMAIN balances'
      PROVE  c[1] \in DOMAIN accounts' /\ Committed(balances[c].document)'
  <2>1. CASE c = b
    <3>1. balances'[c] = row
      BY <1>1, <2>1 DEF Put
    <3>2. \A s \in Runs : row.document \in Records /\ row.document.run = s => status'[s] = "SUCCEEDED"
      BY <1>1, <1>3 DEF Committed
    <3>3. c[1] \in DOMAIN accounts'
      BY <1>1, <2>1
    <3> QED BY <3>1, <3>2, <3>3 DEF Committed
  <2>2. CASE c # b
    <3>1. c \in DOMAIN balances /\ balances'[c] = balances[c]
      BY <1>1, <2>2 DEF Put
    <3> QED BY <1>0, <1>1, <3>1 DEF LedgerInv, Committed
  <2> QED BY <2>1, <2>2
<1>6. LedgerInv'
  BY <1>0, <1>1, <1>4, <1>5 DEF LedgerInv
<1>7. \A c : c = b \/ /\ c \in DOMAIN balances' <=> c \in DOMAIN balances
                      /\ c \in DOMAIN balances => balances'[c] = balances[c]
  BY <1>1 DEF Put
<1> QED BY <1>1, <1>6, <1>7, UserStep

LEMMA UserDeletesStep ==
    ASSUME IInv, NEW b \in DOMAIN balances, UserDeletes(b) PROVE IInv'
<1>0. LedgerInv
  BY DEF IInv
<1>1. /\ balances' = [c \in DOMAIN balances \ {b} |-> balances[c]]
      /\ accounts' = accounts /\ status' = status
      /\ Unlocked(b) /\ UNCHANGED <<status, pc, task, tmpdir>>
  BY DEF UserDeletes
<1>2. RowSet(balances')
  BY <1>0, <1>1, RowSetStays DEF LedgerInv
<1>3. LedgerInv'
  BY <1>0, <1>1, <1>2 DEF LedgerInv, Committed
<1>4. \A c : c = b \/ /\ c \in DOMAIN balances' <=> c \in DOMAIN balances
                      /\ c \in DOMAIN balances => balances'[c] = balances[c]
  BY <1>1
<1> QED BY <1>1, <1>3, <1>4, UserStep

LEMMA UserClosesStep ==
    ASSUME IInv, NEW n \in DOMAIN accounts, UserCloses(n) PROVE IInv'
<1>0. LedgerInv
  BY DEF IInv
<1>1. /\ accounts' = [accounts EXCEPT ![n].active = FALSE]
      /\ balances' = balances /\ status' = status
      /\ UNCHANGED <<status, pc, task, tmpdir>>
  BY DEF UserCloses
<1>2. ASSUME NEW m \in DOMAIN accounts'
      PROVE  /\ accounts'[m] \in [active : BOOLEAN, by : Runs \cup {None}]
             /\ accounts'[m].by = accounts[m].by
  BY <1>0, <1>1 DEF LedgerInv
<1>3. DOMAIN accounts' = DOMAIN accounts
  BY <1>1
<1>4. \A m \in DOMAIN accounts' :
         accounts'[m].by \in Runs => status'[accounts'[m].by] = "SUCCEEDED"
  BY <1>0, <1>1, <1>2, <1>3 DEF LedgerInv
<1>5. (\A b \in DOMAIN balances : b[1] \in DOMAIN accounts /\ Committed(balances[b].document))'
  BY <1>0, <1>1, <1>3 DEF LedgerInv, Committed
<1>6. LedgerInv'
  BY <1>0, <1>1, <1>2, <1>4, <1>5 DEF LedgerInv
<1> QED BY <1>1, <1>3, <1>6, UserStep

LEMMA CrashStep == ASSUME IInv, Crash PROVE IInv'
<1>0. Shape /\ LedgerInv
  BY DEF IInv
<1>1. /\ accounts' = accounts /\ balances' = balances /\ status' = status /\ tmpdir' = tmpdir
      /\ pc' = [r \in Runs |-> IF pc[r] \in Over THEN pc[r] ELSE "lost"]
      /\ statement' = [r \in Runs |-> None]
      /\ current' = [r \in Runs |-> NoRows] /\ result' = [r \in Runs |-> NoRows]
      /\ todo' = [r \in Runs |-> {}]
      /\ key' = [r \in Runs |-> None] /\ seen' = [r \in Runs |-> None]
      /\ staged' = [r \in Runs |-> Nothing] /\ overtaken' = [r \in Runs |-> {}]
  BY DEF Crash, db
<1>2. Shape'
  BY <1>0, <1>1 DEF Shape, Over
<1>3. LedgerInv'
  BY <1>0, <1>1 DEF LedgerInv, Committed
<1>4. ASSUME NEW r \in Runs PROVE StagingInv(r)' /\ ResultInv(r)' /\ ControlInv(r)'
  <2>1. /\ staged'[r] = Nothing /\ current'[r] = NoRows /\ result'[r] = NoRows /\ todo'[r] = {}
        /\ pc'[r] \in Over
    BY <1>1 DEF Over
  <2>2. StagingInv(r)'
    BY <2>1, EmptyHanded DEF StagingInv, Exclusive, Nothing, NoRows
  <2>3. ResultInv(r)'
    BY <2>1, EmptyHanded DEF ResultInv, NoRows
  <2>4. ControlInv(r)'
    <3>1. status[r] = None => pc[r] = "none"
      BY DEF IInv, ControlInv
    <3> QED BY <1>1, <2>1, <3>1 DEF ControlInv, Unfinished, InTransaction, Over
  <2> QED BY <2>2, <2>3, <2>4
<1> QED BY <1>2, <1>3, <1>4 DEF IInv

LEMMA InvStep == IInv /\ [Next]_vars => IInv'
<1> SUFFICES ASSUME IInv, [Next]_vars PROVE IInv'
    OBVIOUS
<1>1. ASSUME NEW r \in Runs, Upload(r) \/ DatabaseFails(r) PROVE IInv'
  BY <1>1, UploadStep, DatabaseFailsStep
<1>2. ASSUME NEW r \in Runs, Task(r) PROVE IInv'
  BY <1>2, MarkProcessingStep, LoadStep, IngestStep, FindAccountStep, CreateAccountStep,
     SelectBalanceStep, WriteBalanceStep, SucceedStep, FailStep, MarkFailedStep, CleanStep
     DEF Task
<1>3. CASE User
  BY <1>3, UserSetsStep, UserDeletesStep, UserClosesStep DEF User
<1>4. CASE Crash
  BY <1>4, CrashStep
<1>5. CASE UNCHANGED vars
  <2>1. UNCHANGED <<status, pc, task, tmpdir>> /\ accounts' = accounts /\ balances' = balances
    BY <1>5 DEF vars, db
  <2>2. LedgerInv'
    BY <2>1 DEF IInv, LedgerInv, Committed
  <2> QED BY <2>1, <2>2, UserStep
<1> QED BY <1>1, <1>2, <1>3, <1>4, <1>5 DEF Next

(* The invariant above holds in every behaviour of the runs, the users and *)
(* the crashes.                                                            *)
THEOREM Invariance == Spec => []IInv
BY InvInit, InvStep, PTL DEF Spec
-----------------------------------------------------------------------------
LEMMA InvImplies == IInv => TypeOK /\ OnlySucceededRunsWrite
<1> SUFFICES ASSUME IInv PROVE TypeOK /\ OnlySucceededRunsWrite
    OBVIOUS
<1>1. LedgerInv /\ Shape
  BY DEF IInv
<1>2. \A n \in DOMAIN accounts : /\ accounts[n].active \in BOOLEAN
                                 /\ accounts[n].by \in Runs \cup {None}
                                 /\ accounts[n].by # None => status[accounts[n].by] = "SUCCEEDED"
  BY <1>1 DEF LedgerInv
<1>3. ASSUME NEW b \in DOMAIN balances
      PROVE  /\ b[1] \in DOMAIN accounts /\ b[2] \in Int /\ balances[b].amount \in Int
             /\ Owner(b) \in Runs => status[Owner(b)] = "SUCCEEDED"
  <2>1. /\ balances[b] \in Rows /\ b[2] \in Int
        /\ b[1] \in DOMAIN accounts /\ Committed(balances[b].document)
    BY <1>1 DEF LedgerInv, RowSet
  <2> QED BY <2>1, RunAssumption DEF Rows, Owner, Committed
<1>4. \A r \in Runs : todo[r] \subseteq DOMAIN result[r]
  BY DEF IInv, ResultInv
<1>5. TypeOK
  BY <1>1, <1>2, <1>3, <1>4 DEF TypeOK, Shape
<1>6. OnlySucceededRunsWrite
  BY <1>2, <1>3 DEF OnlySucceededRunsWrite
<1> QED BY <1>5, <1>6

(* The ledger and the runs' state are well formed, and a run has no more   *)
(* to write than its result (persistence.py:50-103).                       *)
THEOREM TypeCorrect == Spec => []TypeOK
BY Invariance, InvImplies, PTL

(* A run that has not succeeded has changed nothing, whatever failed, died *)
(* or ran at the same time (background.py:24-49).                          *)
THEOREM RunsWriteAllOrNothing == Spec => []OnlySucceededRunsWrite
BY Invariance, InvImplies, PTL
-----------------------------------------------------------------------------
(* Only a run's own commit makes it succeed.                               *)
LEMMA SucceedsByCommit ==
    ASSUME IInv, [Next]_vars, NEW r \in Runs, status[r] # "SUCCEEDED", status'[r] = "SUCCEEDED"
    PROVE  Succeed(r)
<1>0. status \in [Runs -> Statuses \cup {None}] /\ None # "SUCCEEDED"
  BY RunAssumption DEF IInv, Shape, Statuses
<1>1. status' # status
  OBVIOUS
<1>2. ASSUME NEW s \in Runs, status' = [status EXCEPT ![s] = "SUCCEEDED"], Succeed(s)
      PROVE  Succeed(r)
  BY <1>0, <1>2
<1>3. ASSUME NEW s \in Runs, NEW v \in {"PENDING", "PROCESSING", "FAILED"},
             status' = [status EXCEPT ![s] = v]
      PROVE  FALSE
  BY <1>0, <1>3
<1>4. ASSUME NEW s \in Runs, Upload(s) \/ Task(s) \/ DatabaseFails(s) PROVE Succeed(r)
  <2>1. CASE Upload(s) BY <1>3, <2>1 DEF Upload
  <2>2. CASE MarkProcessing(s) BY <1>3, <2>2 DEF MarkProcessing
  <2>3. CASE MarkFailed(s) BY <1>3, <2>3 DEF MarkFailed
  <2>4. CASE Succeed(s) BY <1>2, <2>4 DEF Succeed
  <2>5. CASE Load(s) \/ Ingest(s) \/ FindAccount(s) \/ CreateAccount(s) \/ SelectBalance(s)
             \/ WriteBalance(s) \/ Clean(s)
    BY <1>1, <2>5 DEF Load, Ingest, FindAccount, CreateAccount, SelectBalance, WriteBalance, Written, Clean
  <2>6. CASE Fail(s) \/ DatabaseFails(s)
    BY <1>1, <2>6 DEF Fail, DatabaseFails, RollBack
  <2> QED BY <1>4, <2>1, <2>2, <2>3, <2>4, <2>5, <2>6 DEF Task
<1>5. ~User
  BY <1>1 DEF User, UserSets, UserDeletes, UserCloses
<1>6. ~Crash /\ ~UNCHANGED vars
  BY <1>1 DEF Crash, vars
<1> QED BY <1>4, <1>5, <1>6 DEF Next

(* What has become of the ledger when a run commits.                       *)
LEMMA CommittedRows ==
    ASSUME NEW r \in Runs, Succeed(r)
    PROVE  /\ DOMAIN balances' = DOMAIN balances \cup DOMAIN staged[r].balances
           /\ \A b \in DOMAIN staged[r].balances : balances'[b] = staged[r].balances[b]
           /\ \A b \in DOMAIN balances \ DOMAIN staged[r].balances : balances'[b] = balances[b]
BY DEF Succeed, Overlay

PublishesResult(r) ==
    \A n \in DOMAIN result[r] :
        LET p == result[r][n]  b == <<n, p.asOf>>
        IN  p.issued # None =>
            /\ b \in DOMAIN balances'
            /\ balances'[b].document = DocumentOf(r, p)
            /\ \/ balances'[b].amount = p.value
               \/ /\ b \in overtaken[r] \cap DOMAIN balances
                  /\ balances'[b].amount = balances[b].amount

LEMMA PublishesStep ==
    ASSUME IInv, NEW r \in Runs, Succeed(r)
    PROVE  PublishesResult(r)
<1> SUFFICES ASSUME NEW n \in DOMAIN result[r], result[r][n].issued # None
             PROVE  LET p == result[r][n]  b == <<n, p.asOf>>
                    IN  /\ b \in DOMAIN balances'
                        /\ balances'[b].document = DocumentOf(r, p)
                        /\ \/ balances'[b].amount = p.value
                           \/ /\ b \in overtaken[r] \cap DOMAIN balances
                              /\ balances'[b].amount = balances[b].amount
    BY DEF PublishesResult
<1> DEFINE p == result[r][n]
           b == <<n, p.asOf>>
<1>1. StagingInv(r) /\ todo[r] = {}
  BY DEF IInv, Succeed
<1>2. b \in DOMAIN staged[r].balances
  BY <1>1 DEF StagingInv
<1>3. StagedFor(r, b) /\ b[1] = n
  BY <1>1, <1>2 DEF StagingInv
<1>4. b \in DOMAIN balances' /\ balances'[b] = staged[r].balances[b]
  BY <1>2, CommittedRows
<1> QED BY <1>3, <1>4 DEF StagedFor

(* A run that succeeds publishes its whole result: no position of a        *)
(* document is left out, ends up under another document, or without its    *)
(* amount, unless somebody changed the row's between this run's select and *)
(* its write (persistence.py:66-103).                                      *)
THEOREM SuccessIsWhole == Spec => SuccessPublishesResult
<1>1. IInv /\ [Next]_vars =>
        [\A r \in Runs : (status[r] # "SUCCEEDED" /\ status'[r] = "SUCCEEDED") =>
            PublishesResult(r)]_vars
  BY SucceedsByCommit, PublishesStep
<1>2. Spec => [][\A r \in Runs : (status[r] # "SUCCEEDED" /\ status'[r] = "SUCCEEDED") =>
            PublishesResult(r)]_vars
  BY <1>1, Invariance, PTL DEF Spec
<1> QED BY <1>2 DEF SuccessPublishesResult, PublishesResult
-----------------------------------------------------------------------------
LEMMA NewestWinsStep ==
    ASSUME IInv, NEW r \in Runs, Succeed(r), current[r] = Loaded,
           NEW b \in DOMAIN balances, accounts[b[1]].active
    PROVE  ~IssuedLater(IssueOf(b), IssueOf(b)')
<1> DEFINE n == b[1]
           p == result[r][n]
           IssueIn(row) == IF row.document = None THEN None ELSE row.document.issued
<1>0. LedgerInv /\ StagingInv(r) /\ ResultInv(r)
  BY DEF IInv
<1>1. /\ balances[b] \in Rows /\ b = <<n, b[2]>> /\ b[2] \in Int /\ n \in DOMAIN accounts
      /\ RowSet(balances)
  BY <1>0 DEF LedgerInv, RowSet
<1>2. IssueIn(balances[b]) \in Int \cup {None}
  BY <1>1 DEF Rows, Records
<1>3. IssueOf(b) = IssueIn(balances[b]) /\ IssueOf(b)' = IssueIn(balances'[b])
  BY DEF IssueOf, PositionOf
<1> HIDE DEF IssueIn
<1>4. CASE balances'[b].document = balances[b].document
  <2>1. IssueOf(b)' = IssueOf(b)
    BY <1>3, <1>4 DEF IssueIn
  <2> QED BY <1>2, <1>3, <2>1, NoneAssumption DEF IssuedLater
<1>5. CASE b \notin DOMAIN staged[r].balances
  BY <1>4, <1>5, CommittedRows
<1>6. CASE b \in DOMAIN staged[r].balances
  <2> DEFINE c == current[r][n]
             L == Latest(n)
  <2>1. StagedFor(r, b) /\ balances'[b] = staged[r].balances[b]
    BY <1>0, <1>6, CommittedRows DEF StagingInv
  <2>2. p \in Position /\ n \in DOMAIN result[r] /\ b = <<n, p.asOf>> /\ p.asOf = b[2]
    BY <1>0, <2>1 DEF StagedFor, ResultInv, Positions
  <2>3. b[2] \in Dates(n)
    BY DEF Dates
  <2>4. L \in Dates(n) /\ L >= b[2] /\ L \in Int
    BY <1>1, <2>3, LatestIsGreatest, DatesFinite
  <2>5. n \in DOMAIN Loaded /\ Loaded[n] = PositionOf(balances[<<n, L>>], L)
    BY <1>1, <2>3 DEF Loaded
  <2>6. n \in DOMAIN current[r] /\ c = PositionOf(balances[<<n, L>>], L)
    BY <2>5
  <2>7. c.asOf = L /\ c.issued = IssueIn(balances[<<n, L>>])
    BY <2>6 DEF PositionOf, IssueIn
  <2>8. p = c \/ Newer(p, c)
    BY <1>0, <2>2, <2>6 DEF ResultInv
  <2>9. CASE p.issued = None
    BY <1>4, <2>1, <2>9 DEF StagedFor
  <2>10. CASE p.issued # None
    <3>1. balances'[b].document = DocumentOf(r, p)
      BY <2>1, <2>10 DEF StagedFor
    <3>2. DocumentOf(r, p) \in Records /\ DocumentOf(r, p).issued = p.issued
      BY <2>2, <2>10 DEF DocumentOf, Records, Position
    <3>3. IssueOf(b)' = p.issued /\ p.issued \in Int
      BY <1>3, <2>2, <2>10, <3>1, <3>2, RunAssumption DEF IssueIn, Position
    <3>4. b = <<n, L>>
      <4>1. p.asOf = L
        BY <2>2, <2>4, <2>7, <2>8 DEF Newer, Position
      <4> QED BY <2>2, <4>1
    <3>5. c.issued = IssueOf(b)
      BY <1>3, <2>7, <3>4
    <3>6. p.issued = c.issued \/ IssuedLater(p.issued, c.issued)
      BY <2>2, <2>4, <2>7, <2>8, <3>4 DEF Newer
    <3> QED BY <1>2, <1>3, <3>3, <3>5, <3>6, NoneAssumption DEF IssuedLater
  <2> QED BY <2>9, <2>10
<1> QED BY <1>5, <1>6

NewestWins(r) ==
    \A b \in DOMAIN balances :
        accounts[b[1]].active => ~IssuedLater(IssueOf(b), IssueOf(b)')

(* A run that commits on the very ledger it loaded replaces no row of an   *)
(* open account by an earlier issued one (pipeline.py:126-129).            *)
THEOREM NewestIssueStays == Spec => NewestIssueWinsUnlessOvertaken
<1>1. IInv /\ [Next]_vars =>
        [\A r \in Runs :
            (status[r] # "SUCCEEDED" /\ status'[r] = "SUCCEEDED" /\ current[r] = Loaded) =>
            NewestWins(r)]_vars
  <2> SUFFICES ASSUME IInv, [Next]_vars, NEW r \in Runs,
                      status[r] # "SUCCEEDED", status'[r] = "SUCCEEDED", current[r] = Loaded
               PROVE  NewestWins(r)
    OBVIOUS
  <2>1. Succeed(r)
    BY SucceedsByCommit
  <2> QED BY <2>1, NewestWinsStep DEF NewestWins
<1>2. Spec => [][\A r \in Runs :
            (status[r] # "SUCCEEDED" /\ status'[r] = "SUCCEEDED" /\ current[r] = Loaded) =>
            NewestWins(r)]_vars
  BY <1>1, Invariance, PTL DEF Spec
<1> QED BY <1>2 DEF NewestIssueWinsUnlessOvertaken, NewestWins
=============================================================================
