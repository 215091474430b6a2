---------------------------- MODULE UploadProofs ----------------------------
(***************************************************************************)
(* Proofs about UploadAdmission for any number of uploads, any sizes, any  *)
(* window and any limits.                                                  *)
(*                                                                         *)
(* The argument: the limiter's log holds every charge that still counts    *)
(* and nothing that was not charged, so the charges it counts are exactly  *)
(* those of the window that ends now; every earlier window is settled.     *)
(*                                                                         *)
(* For the volume, the fold that adds up a set of charges is unfolded      *)
(* first: it is a sum whatever member it takes next, by induction on the   *)
(* number of charges.                                                      *)
(***************************************************************************)
EXTENDS UploadAdmission, FiniteSetTheorems, WellFoundedInduction, TLAPS

ChargesPast == \A c \in charged : c.at <= clock
LogIsCharged == log \subseteq charged
LogInv == /\ IsFiniteSet(charged)
          /\ ChargesPast /\ LogIsCharged /\ NothingForgottenEarly

(* An upload's files are charged in order, one by one.                     *)
ChargedInOrder ==
    \A u \in Uploads : pc[u] = "reading" =>
        \A n \in 1..(next[u] - 1) : \E c \in charged : c.upload = u /\ c.file = n
DirectoryInv ==
    \A u \in Uploads : /\ pc[u] = "new" => ~tmpdir[u] /\ next[u] = 1
                       /\ pc[u] = "reading" => tmpdir[u]
                       /\ run[u] <=> pc[u] = "accepted"

IInv == /\ TypeOK /\ LogInv /\ WindowCount /\ WindowBytes
        /\ ChargedInOrder /\ DirectoryInv /\ FilesKeptExactlyForRuns
-----------------------------------------------------------------------------
(* What holds of 0 and with n of n + 1 holds of every natural number: there *)
(* would be a least counterexample.                                        *)
LEMMA Induction ==
    ASSUME NEW S, 0 \in S, \A n \in Nat : n \in S => n + 1 \in S
    PROVE  Nat \subseteq S
<1> DEFINE T == Nat \ S
           R == OpToRel(<, Nat)
<1>1. \A m, n \in Nat : m < n => <<m, n>> \in R
  BY DEF OpToRel
<1>2. SUFFICES ASSUME T # {} PROVE FALSE
  OBVIOUS
<1> HIDE DEF R
<1>3. IsWellFoundedOn(R, Nat)
  BY NatLessThanWellFounded, Zenon DEF R
<1>4. PICK x \in T : \A y \in T : ~(<<y, x>> \in R)
  <2> T \subseteq Nat OBVIOUS
  <2> HIDE DEF T
  <2> QED BY <1>2, <1>3, WFMin
<1>5. x # 0 /\ x \in Nat
  BY <1>4
<1>6. x - 1 \in T /\ x - 1 \in Nat /\ x - 1 < x
  BY <1>5, <1>4
<1>7. <<x - 1, x>> \in R
  BY <1>1, <1>5, <1>6
<1> QED BY <1>4, <1>6, <1>7

(* What the limiter adds up: finitely many charges with sizes.             *)
Sized(S) == IsFiniteSet(S) /\ \A c \in S : c.size \in Nat
Some(s) == CHOOSE x \in s : TRUE

(* Without one of its members a set of charges is smaller and still sized. *)
LEMMA OneLess ==
    ASSUME NEW S, Sized(S), NEW c \in S
    PROVE  /\ Sized(S \ {c}) /\ Cardinality(S) \in Nat /\ Cardinality(S \ {c}) \in Nat
           /\ Cardinality(S \ {c}) = Cardinality(S) - 1
BY FS_RemoveElement, FS_CardinalityType DEF Sized

(* A sum takes one member after the other.                                 *)
LEMMA BytesRecursion ==
    ASSUME NEW S, Sized(S)
    PROVE  /\ Bytes(S) \in Nat
           /\ Bytes(S) = IF S = {} THEN 0 ELSE Some(S).size + Bytes(S \ {Some(S)})
<1> DEFINE Step(f, s) == IF s = {} THEN 0 ELSE Some(s).size + f[s \ {Some(s)}]
           Solved(f, n) == \A s \in SUBSET S : Cardinality(s) <= n => f[s] = Step(f, s)
           Good == {n \in Nat : \E f \in [SUBSET S -> Nat] : Solved(f, n)}
<1>1. \A s \in SUBSET S : Sized(s) /\ Cardinality(s) \in Nat /\ Cardinality(s) <= Cardinality(S)
                          /\ (Cardinality(s) = 0 <=> s = {})
  BY FS_Subset, FS_CardinalityType, FS_EmptySet DEF Sized
<1>2. \A s \in SUBSET S : s # {} => /\ Some(s) \in s /\ s \ {Some(s)} \in SUBSET S
                                     /\ Some(s).size \in Nat
                                     /\ Cardinality(s \ {Some(s)}) = Cardinality(s) - 1
  <2> SUFFICES ASSUME NEW s \in SUBSET S, s # {}
               PROVE  /\ Some(s) \in s /\ Some(s).size \in Nat
                      /\ Cardinality(s \ {Some(s)}) = Cardinality(s) - 1
    OBVIOUS
  <2>1. Some(s) \in s
    BY DEF Some
  <2>2. Sized(s)
    BY <1>1
  <2> QED BY <2>1, <2>2, OneLess DEF Sized
<1>3. \A f \in [SUBSET S -> Nat] : \A s \in SUBSET S : Step(f, s) \in Nat
  <2> SUFFICES ASSUME NEW f \in [SUBSET S -> Nat], NEW s \in SUBSET S PROVE Step(f, s) \in Nat
    OBVIOUS
  <2>1. CASE s = {} BY <2>1
  <2>2. CASE s # {}
    <3> DEFINE k == f[s \ {Some(s)}]
               m == Some(s).size
    <3>1. k \in Nat /\ m \in Nat /\ Step(f, s) = m + k
      BY <1>2, <2>2
    <3> HIDE DEF k, m, Step
    <3> QED BY <3>1
  <2> QED BY <2>1, <2>2
<1>4. 0 \in Good
  <2>1. [s \in SUBSET S |-> 0] \in [SUBSET S -> Nat] /\ Solved([s \in SUBSET S |-> 0], 0)
    BY <1>1
  <2> HIDE DEF Solved
  <2> QED BY <2>1
<1>5. ASSUME NEW n \in Nat, n \in Good PROVE n + 1 \in Good
  <2>1. PICK f \in [SUBSET S -> Nat] : Solved(f, n)
    BY <1>5
  <2> DEFINE h == [s \in SUBSET S |-> IF Cardinality(s) <= n THEN f[s] ELSE Step(f, s)]
  <2>2. h \in [SUBSET S -> Nat]
    <3> HIDE DEF Step
    <3> QED BY <1>3
  <2>3. ASSUME NEW s \in SUBSET S, Cardinality(s) <= n + 1 PROVE h[s] = Step(h, s)
    <3>1. s # {} => s \ {Some(s)} \in SUBSET S /\ Cardinality(s \ {Some(s)}) <= n
      BY <1>1, <1>2, <2>3
    <3>2. s # {} => h[s \ {Some(s)}] = f[s \ {Some(s)}]
      BY <3>1
    <3>3. Step(h, s) = Step(f, s)
      BY <3>2
    <3>4. h[s] = Step(f, s)
      <4> HIDE DEF Step
      <4> QED BY <2>1
    <3> QED BY <3>3, <3>4
  <2>4. Solved(h, n + 1)
    BY <2>3
  <2> HIDE DEF h, Solved
  <2> QED BY <2>2, <2>4
<1>6. PICK e \in [SUBSET S -> Nat] : \A s \in SUBSET S : e[s] = Step(e, s)
  <2>1. Cardinality(S) \in Good
    <3> HIDE DEF Good
    <3> QED BY <1>1, <1>4, <1>5, Induction
  <2>2. PICK f \in [SUBSET S -> Nat] : Solved(f, Cardinality(S))
    BY <2>1
  <2>3. \A s \in SUBSET S : f[s] = Step(f, s)
    <3> HIDE DEF Step
    <3> QED BY <1>1, <2>2
  <2> QED BY <2>3
<1>7. ASSUME NEW T \in SUBSET S PROVE Bytes(T) = e[T]
  <2> DEFINE iter == CHOOSE f : f = [s \in SUBSET T |-> Step(f, s)]
             part == [s \in SUBSET T |-> e[s]]
  <2>1. part = [s \in SUBSET T |-> Step(part, s)]
    <3> SUFFICES ASSUME NEW s \in SUBSET T PROVE part[s] = Step(part, s)
      OBVIOUS
    <3>1. s \in SUBSET S /\ s \ {Some(s)} \in SUBSET T /\ part[s] = e[s]
      OBVIOUS
    <3>2. Step(part, s) = Step(e, s)
      BY <3>1
    <3> HIDE DEF part, Step
    <3> QED BY <1>6, <3>1, <3>2
  <2>2. iter = [s \in SUBSET T |-> Step(iter, s)]
    <3> HIDE DEF Step, part
    <3> QED BY <2>1
  <2>3. Bytes(T) = iter[T]
    BY DEF Bytes, MapThenSumSet, MapThenFoldSet, Some
  <2> HIDE DEF iter
  <2> DEFINE Same == {n \in Nat : \A s \in SUBSET T : Cardinality(s) = n => iter[s] = e[s]}
  <2>4. 0 \in Same
    BY <1>1, <1>6, <2>2
  <2>5. ASSUME NEW n \in Nat, n \in Same PROVE n + 1 \in Same
    <3> SUFFICES ASSUME NEW s \in SUBSET T, Cardinality(s) = n + 1 PROVE iter[s] = e[s]
      OBVIOUS
    <3>1. s # {} /\ s \ {Some(s)} \in SUBSET T /\ Cardinality(s \ {Some(s)}) = n
      BY <1>1, <1>2
    <3>2. iter[s \ {Some(s)}] = e[s \ {Some(s)}]
      BY <2>5, <3>1
    <3>3. iter[s] = Step(iter, s) /\ e[s] = Step(e, s)
      <4> HIDE DEF Step
      <4> QED BY <1>6, <2>2
    <3> QED BY <3>2, <3>3
  <2>6. Cardinality(T) \in Same
    <3> HIDE DEF Same
    <3> QED BY <1>1, <2>4, <2>5, Induction
  <2> QED BY <2>3, <2>6
<1>8. Bytes(S) \in Nat /\ Bytes(S) = Step(e, S)
  <2> HIDE DEF Step
  <2> QED BY <1>6, <1>7
<1>9. S # {} => Bytes(S \ {Some(S)}) = e[S \ {Some(S)}]
  BY <1>7
<1> QED BY <1>8, <1>9

(* Nothing weighs nothing.                                                 *)
LEMMA NoBytes == Bytes({}) = 0
BY BytesRecursion, FS_EmptySet DEF Sized

(* The members may be taken in any order.                                  *)
LEMMA BytesSplit ==
    ASSUME NEW S, Sized(S), NEW c \in S
    PROVE  Bytes(S) = c.size + Bytes(S \ {c})
<1> DEFINE Good == {n \in Nat : \A Q : Sized(Q) /\ Cardinality(Q) = n =>
                       \A a \in Q : Bytes(Q) = a.size + Bytes(Q \ {a})}
<1>1. 0 \in Good
  BY FS_EmptySet DEF Sized
<1>2. ASSUME NEW n \in Nat, n \in Good PROVE n + 1 \in Good
  <2> SUFFICES ASSUME NEW Q, Sized(Q), Cardinality(Q) = n + 1, NEW a \in Q
               PROVE  Bytes(Q) = a.size + Bytes(Q \ {a})
    OBVIOUS
  <2> DEFINE x == Some(Q)
  <2>1. x \in Q /\ x.size \in Nat /\ a.size \in Nat
    BY DEF Some, Sized
  <2> HIDE DEF x
  <2>2. Bytes(Q) = x.size + Bytes(Q \ {x})
    BY BytesRecursion DEF x
  <2>3. CASE x = a BY <2>2, <2>3
  <2>4. CASE x # a
    <3>1. Sized(Q \ {x}) /\ Cardinality(Q \ {x}) = n /\ a \in Q \ {x}
      BY <2>1, <2>4, OneLess
    <3>2. Sized(Q \ {a}) /\ Cardinality(Q \ {a}) = n /\ x \in Q \ {a}
      BY <2>1, <2>4, OneLess
    <3>3. Bytes(Q \ {x}) = a.size + Bytes((Q \ {x}) \ {a})
      BY <1>2, <3>1
    <3>4. Bytes(Q \ {a}) = x.size + Bytes((Q \ {a}) \ {x})
      BY <1>2, <3>2
    <3>5. (Q \ {x}) \ {a} = (Q \ {a}) \ {x}
      OBVIOUS
    <3>6. Bytes((Q \ {a}) \ {x}) \in Nat
      BY <3>2, OneLess, BytesRecursion
    <3> DEFINE rest == Bytes((Q \ {a}) \ {x})
    <3>7. Bytes(Q) = x.size + (a.size + rest) /\ Bytes(Q \ {a}) = x.size + rest
      BY <2>2, <3>3, <3>4, <3>5
    <3> HIDE DEF rest
    <3>8. x.size + (a.size + rest) = a.size + (x.size + rest)
      <4>1. \A i, j, k \in Nat : i + (j + k) = j + (i + k)
        OBVIOUS
      <4>2. rest \in Nat
        BY <3>6 DEF rest
      <4> QED BY <2>1, <4>1, <4>2
    <3> QED BY <3>7, <3>8
  <2> QED BY <2>3, <2>4
<1>3. Cardinality(S) \in Good
  <2> HIDE DEF Good
  <2>1. Cardinality(S) \in Nat
    BY FS_CardinalityType DEF Sized
  <2> QED BY <1>1, <1>2, <2>1, Induction
<1> QED BY <1>3

(* Fewer charges have no more bytes.                                       *)
LEMMA BytesMonotone ==
    ASSUME NEW S, Sized(S), NEW T \in SUBSET S
    PROVE  Bytes(T) <= Bytes(S)
<1> DEFINE Good == {n \in Nat : \A Q \in SUBSET S : T \subseteq Q /\ Cardinality(Q \ T) = n =>
                       Bytes(T) <= Bytes(Q)}
<1>1. \A Q \in SUBSET S : Sized(Q) /\ Bytes(Q) \in Nat
  <2>1. \A Q \in SUBSET S : Sized(Q)
    BY FS_Subset DEF Sized
  <2> QED BY <2>1, BytesRecursion
<1>2. 0 \in Good
  <2> SUFFICES ASSUME NEW Q \in SUBSET S, T \subseteq Q, Cardinality(Q \ T) = 0
               PROVE  Bytes(T) <= Bytes(Q)
    OBVIOUS
  <2>1. Sized(Q \ T)
    BY <1>1
  <2>2. Q = T
    BY <2>1, FS_EmptySet DEF Sized
  <2> QED BY <1>1, <2>2
<1>3. ASSUME NEW n \in Nat, n \in Good PROVE n + 1 \in Good
  <2> SUFFICES ASSUME NEW Q \in SUBSET S, T \subseteq Q, Cardinality(Q \ T) = n + 1
               PROVE  Bytes(T) <= Bytes(Q)
    OBVIOUS
  <2>1. Q \ T # {}
    BY FS_EmptySet
  <2>2. PICK c \in Q \ T : TRUE
    BY <2>1
  <2>3. Sized(Q \ T) /\ (Q \ T) \ {c} = (Q \ {c}) \ T
    BY <1>1
  <2>4. Cardinality((Q \ {c}) \ T) = n
    BY <2>2, <2>3, OneLess
  <2>5. Bytes(T) <= Bytes(Q \ {c})
    BY <1>3, <2>4
  <2>6. Bytes(Q) = c.size + Bytes(Q \ {c}) /\ c.size \in Nat
    BY <1>1, BytesSplit DEF Sized
  <2> QED BY <1>1, <2>5, <2>6
<1>4. Cardinality(S \ T) \in Good
  <2> HIDE DEF Good
  <2>1. Cardinality(S \ T) \in Nat
    BY FS_Subset, FS_CardinalityType DEF Sized
  <2> QED BY <1>2, <1>3, <2>1, Induction
<1> QED BY <1>4
-----------------------------------------------------------------------------
(* Every variable keeps its type.                                          *)
LEMMA TypeStep == TypeOK /\ [Next]_vars => TypeOK'
<1> SUFFICES ASSUME TypeOK, [Next]_vars PROVE TypeOK'
    OBVIOUS
<1> USE SizesAssumption DEF TypeOK, Refuse, Recent
<1>1. ASSUME NEW u \in Uploads, Handle(u) \/ Break(u) PROVE TypeOK'
  <2>1. CASE Receive(u) BY <2>1 DEF Receive
  <2>2. CASE RefuseLarge(u) BY <2>2 DEF RefuseLarge
  <2>3. CASE RefuseRate(u) BY <2>3 DEF RefuseRate
  <2>4. CASE StoreFile(u)
    <3>1. next[u] \in DOMAIN Sizes[u] /\ Sizes[u] \in Seq(Nat)
      BY <2>4 DEF StoreFile, FileArrives
    <3>2. Charge(u, next[u]) \in ChargeType
      BY <3>1 DEF Charge, ChargeType
    <3> QED BY <2>4, <3>2 DEF StoreFile
  <2>5. CASE CreateRun(u) BY <2>5 DEF CreateRun
  <2>6. CASE Break(u) BY <2>6 DEF Break
  <2> QED BY <1>1, <2>1, <2>2, <2>3, <2>4, <2>5, <2>6 DEF Handle
<1>2. CASE Restart BY <1>2 DEF Restart
<1>3. CASE Tick BY <1>3 DEF Tick
<1>4. CASE UNCHANGED vars BY <1>4 DEF vars
<1> QED BY <1>1, <1>2, <1>3, <1>4 DEF Next

(* Only a stored file and a restart change the charges, and only the       *)
(* judging of a file and a restart change the log.                         *)
LEMMA WhatMovesTheLog ==
    ASSUME [Next]_vars
    PROVE  \/ UNCHANGED <<clock, log, charged>>
           \/ UNCHANGED <<clock, charged>> /\ log' = Recent(log)
           \/ \E u \in Uploads : StoreFile(u)
           \/ UNCHANGED clock /\ log' = {} /\ charged' = {}
           \/ clock' = clock + 1 /\ UNCHANGED <<log, charged>>
BY DEF Next, Handle, Receive, RefuseLarge, RefuseRate, CreateRun, Break, Restart, Tick, vars

LEMMA LogStep == TypeOK /\ LogInv /\ [Next]_vars => LogInv'
<1> SUFFICES ASSUME TypeOK, LogInv, [Next]_vars PROVE LogInv'
    OBVIOUS
<1> USE LimitAssumption
        DEF TypeOK, LogInv, ChargesPast, LogIsCharged, NothingForgottenEarly, Recent,
            ChargeType
<1>1. CASE UNCHANGED <<clock, log, charged>> BY <1>1
<1>2. CASE UNCHANGED <<clock, charged>> /\ log' = Recent(log) BY <1>2
<1>3. ASSUME NEW u \in Uploads, StoreFile(u) PROVE LogInv'
  <2>1. charged' = charged \cup {Charge(u, next[u])}
        /\ log' = Recent(log) \cup {Charge(u, next[u])} /\ clock' = clock
    BY <1>3 DEF StoreFile
  <2>2. IsFiniteSet(charged')
    BY <2>1, FS_AddElement
  <2>3. Charge(u, next[u]).at = clock
    BY DEF Charge
  <2> QED BY <2>1, <2>2, <2>3
<1>4. CASE UNCHANGED clock /\ log' = {} /\ charged' = {}
  BY <1>4, FS_EmptySet
<1>5. CASE clock' = clock + 1 /\ UNCHANGED <<log, charged>> BY <1>5
<1> QED BY <1>1, <1>2, <1>3, <1>4, <1>5, WhatMovesTheLog
-----------------------------------------------------------------------------
(* The charges the limiter counts are those of the window that ends now.   *)
LEMMA CountedIsWindow ==
    ASSUME TypeOK, LogInv
    PROVE  Recent(log) = InWindow(clock) /\ IsFiniteSet(InWindow(clock))
<1>1. Recent(log) = InWindow(clock)
  BY DEF TypeOK, LogInv, ChargesPast, LogIsCharged, NothingForgottenEarly, Recent, InWindow
<1>2. InWindow(clock) \in SUBSET charged
  BY DEF InWindow
<1> QED BY <1>1, <1>2, FS_Subset DEF LogInv

(* No window, whenever it ends, ever gets more charges than the limit.     *)
LEMMA WindowStep == TypeOK /\ LogInv /\ WindowCount /\ [Next]_vars => WindowCount'
<1> SUFFICES ASSUME TypeOK, LogInv, WindowCount, [Next]_vars PROVE WindowCount'
    OBVIOUS
<1>0. clock \in Nat /\ MaxUploads \in Nat /\ Window \in Nat /\ charged \subseteq ChargeType
  BY LimitAssumption DEF TypeOK
<1>1. ASSUME UNCHANGED <<clock, charged>> PROVE WindowCount'
  BY <1>1 DEF WindowCount, InWindow
<1>2. ASSUME NEW u \in Uploads, StoreFile(u) PROVE WindowCount'
  <2> DEFINE new == Charge(u, next[u])
  <2>1. charged' = charged \cup {new} /\ clock' = clock /\ new.at = clock
        /\ Cardinality(Recent(log)) < MaxUploads
    BY <1>2 DEF StoreFile, Charge, Allows
  <2>2. ASSUME NEW t \in 0..clock, t # clock PROVE InWindow(t)' = InWindow(t)
    BY <1>0, <2>1, <2>2 DEF InWindow
  <2>3. InWindow(clock)' = InWindow(clock) \cup {new}
    BY <1>0, <2>1, LimitAssumption DEF InWindow
  <2>4. Cardinality(InWindow(clock)') <= MaxUploads
    <3> HIDE DEF new
    <3>1. Cardinality(InWindow(clock) \cup {new}) <= Cardinality(InWindow(clock)) + 1
          /\ Cardinality(InWindow(clock)) \in Nat
      BY CountedIsWindow, FS_AddElement, FS_CardinalityType
    <3>2. Cardinality(InWindow(clock)) < MaxUploads
      BY <2>1, CountedIsWindow
    <3>3. Cardinality(InWindow(clock) \cup {new}) <= MaxUploads
      <4> DEFINE m == Cardinality(InWindow(clock))
                 n == Cardinality(InWindow(clock) \cup {new})
      <4>1. n = m \/ n = m + 1
        BY CountedIsWindow, FS_AddElement
      <4>2. m \in Nat /\ m < MaxUploads
        BY <3>1, <3>2
      <4> QED BY <1>0, <4>1, <4>2
    <3> QED BY <2>3, <3>3
  <2> QED BY <1>0, <2>1, <2>2, <2>4 DEF WindowCount
<1>3. CASE UNCHANGED clock /\ log' = {} /\ charged' = {}
  <2>1. \A t : InWindow(t)' = {}
    BY <1>3 DEF InWindow
  <2> QED BY <1>0, <2>1, FS_EmptySet DEF WindowCount
<1>4. CASE clock' = clock + 1 /\ UNCHANGED <<log, charged>>
  <2>1. \A t : InWindow(t)' = InWindow(t)
    BY <1>4 DEF InWindow
  <2>2. InWindow(clock + 1) \in SUBSET InWindow(clock)
    BY <1>0 DEF InWindow, LogInv, ChargesPast, ChargeType
  <2>3. /\ Cardinality(InWindow(clock + 1)) <= Cardinality(InWindow(clock))
        /\ Cardinality(InWindow(clock + 1)) \in Nat /\ Cardinality(InWindow(clock)) \in Nat
    BY <2>2, CountedIsWindow, FS_Subset, FS_CardinalityType
  <2>4. Cardinality(InWindow(clock)) <= MaxUploads
    BY <1>0 DEF WindowCount
  <2>5. Cardinality(InWindow(clock + 1)) <= MaxUploads
    BY <1>0, <2>3, <2>4
  <2>6. 0..clock' = (0..clock) \cup {clock + 1}
    BY <1>0, <1>4
  <2> QED BY <2>1, <2>5, <2>6 DEF WindowCount
<1> QED BY <1>1, <1>2, <1>3, <1>4, WhatMovesTheLog

(* No window ever holds more bytes than the limit.                         *)
LEMMA BytesStep == TypeOK /\ LogInv /\ WindowBytes /\ [Next]_vars => WindowBytes'
<1> SUFFICES ASSUME TypeOK, LogInv, WindowBytes, [Next]_vars PROVE WindowBytes'
    OBVIOUS
<1>0. clock \in Nat /\ MaxBytes \in Nat /\ Window \in Nat /\ charged \subseteq ChargeType
  BY LimitAssumption DEF TypeOK
<1> DEFINE now == InWindow(clock)
<1>s. Sized(now) /\ Bytes(now) \in Nat
  <2>1. Sized(now)
    BY <1>0, CountedIsWindow DEF Sized, InWindow, ChargeType
  <2> QED BY <2>1, BytesRecursion
<1>1. ASSUME UNCHANGED <<clock, charged>> PROVE WindowBytes'
  <2>1. \A t : InWindow(t)' = InWindow(t)
    BY <1>1 DEF InWindow
  <2> QED BY <1>1, <2>1 DEF WindowBytes
<1>2. ASSUME NEW u \in Uploads, StoreFile(u) PROVE WindowBytes'
  <2> DEFINE new == Charge(u, next[u])
  <2>1. charged' = charged \cup {new} /\ clock' = clock /\ new.at = clock
        /\ Bytes(Recent(log)) + new.size <= MaxBytes
    BY <1>2 DEF StoreFile, Charge, Allows, FileSize
  <2>2. new.size \in Nat
    <3>1. Sizes[u] \in Seq(Nat)
      BY SizesAssumption
    <3>2. next[u] \in Nat \ {0} /\ next[u] <= Len(Sizes[u])
      BY <1>2 DEF StoreFile, FileArrives, TypeOK
    <3>3. Sizes[u][next[u]] \in Nat
      BY <3>1, <3>2
    <3> QED BY <3>3 DEF Charge
  <2>3. ASSUME NEW t \in 0..clock, t # clock PROVE InWindow(t)' = InWindow(t)
    BY <1>0, <2>1, <2>3 DEF InWindow
  <2>4. InWindow(clock)' = now \cup {new}
    BY <1>0, <2>1, LimitAssumption DEF InWindow
  <2>5. Bytes(now) + new.size <= MaxBytes
    BY <2>1, CountedIsWindow
  <2>6. Bytes(now \cup {new}) <= MaxBytes
    <3> HIDE DEF now, new
    <3>1. CASE new \in now
      <4>1. now \cup {new} = now
        BY <3>1
      <4>2. \A m, k, n \in Nat : m + k <= n => m <= n
        OBVIOUS
      <4>3. Bytes(now) <= MaxBytes
        BY <1>0, <1>s, <2>2, <2>5, <4>2 DEF new
      <4> QED BY <4>1, <4>3
    <3>2. CASE new \notin now
      <4>1. (now \cup {new}) \ {new} = now
        BY <3>2
      <4>2. Sized(now \cup {new})
        BY <1>s, <2>2, FS_AddElement DEF Sized
      <4>3. Bytes(now \cup {new}) = new.size + Bytes(now)
        BY <4>1, <4>2, BytesSplit
      <4> QED BY <1>0, <1>s, <2>2, <2>5, <4>3
    <3> QED BY <3>1, <3>2
  <2>7. ASSUME NEW t \in 0..clock PROVE Bytes(InWindow(t)') <= MaxBytes
    <3>1. CASE t = clock
      <4> HIDE DEF now, new
      <4>1. InWindow(t)' = InWindow(clock)'
        BY <2>1, <3>1 DEF InWindow
      <4>2. InWindow(t)' = now \cup {new}
        BY <2>4, <4>1
      <4> QED BY <2>6, <4>2
    <3>2. CASE t # clock
      <4>1. Bytes(InWindow(t)) <= MaxBytes
        BY <2>7 DEF WindowBytes
      <4>2. InWindow(t)' = InWindow(t)
        BY <2>3, <3>2
      <4> QED BY <4>1, <4>2
    <3> QED BY <3>1, <3>2
  <2> QED BY <2>1, <2>7 DEF WindowBytes
<1>3. CASE UNCHANGED clock /\ log' = {} /\ charged' = {}
  <2>1. \A t : InWindow(t)' = {}
    BY <1>3 DEF InWindow
  <2> QED BY <1>0, <2>1, NoBytes DEF WindowBytes
<1>4. CASE clock' = clock + 1 /\ UNCHANGED <<log, charged>>
  <2>1. \A t : InWindow(t)' = InWindow(t)
    BY <1>4 DEF InWindow
  <2>2. InWindow(clock + 1) \in SUBSET now
    BY <1>0 DEF InWindow, LogInv, ChargesPast, ChargeType
  <2>3. Bytes(InWindow(clock + 1)) <= Bytes(now) /\ Bytes(InWindow(clock + 1)) \in Nat
    <3> HIDE DEF now
    <3>1. Sized(InWindow(clock + 1))
      BY <1>s, <2>2, FS_Subset DEF Sized
    <3> QED BY <1>s, <2>2, <3>1, BytesMonotone, BytesRecursion
  <2>4. Bytes(now) <= MaxBytes
    BY <1>0 DEF WindowBytes
  <2>5. Bytes(InWindow(clock + 1)) <= MaxBytes
    BY <1>0, <1>s, <2>3, <2>4
  <2>6. 0..clock' = (0..clock) \cup {clock + 1}
    BY <1>0, <1>4
  <2>7. \A t \in 0..clock' : Bytes(InWindow(t)) <= MaxBytes
    BY <2>5, <2>6 DEF WindowBytes
  <2> QED BY <2>1, <2>7 DEF WindowBytes
<1> QED BY <1>1, <1>2, <1>3, <1>4, WhatMovesTheLog

(* The files of an upload are charged one after the other; its directory   *)
(* goes with a refusal and stays for a run.                                *)
LEMMA UploadStep ==
    TypeOK /\ ChargedInOrder /\ DirectoryInv /\ FilesKeptExactlyForRuns /\ [Next]_vars
        => (ChargedInOrder /\ DirectoryInv /\ FilesKeptExactlyForRuns)'
<1> SUFFICES ASSUME TypeOK, ChargedInOrder, DirectoryInv, FilesKeptExactlyForRuns, [Next]_vars
             PROVE  (ChargedInOrder /\ DirectoryInv /\ FilesKeptExactlyForRuns)'
    OBVIOUS
<1> USE DEF TypeOK
<1>1. ASSUME NEW u \in Uploads, Handle(u) \/ Break(u)
      PROVE  (ChargedInOrder /\ DirectoryInv /\ FilesKeptExactlyForRuns)'
  <2>1. (DirectoryInv /\ FilesKeptExactlyForRuns)'
    <3> USE DEF DirectoryInv, FilesKeptExactlyForRuns, Refuse
    <3>1. CASE Receive(u) BY <3>1 DEF Receive
    <3>2. CASE RefuseLarge(u) BY <3>2 DEF RefuseLarge, FileArrives
    <3>3. CASE RefuseRate(u) BY <3>3 DEF RefuseRate, FileArrives
    <3>4. CASE StoreFile(u) BY <3>4 DEF StoreFile, FileArrives
    <3>5. CASE CreateRun(u) BY <3>5 DEF CreateRun
    <3>6. CASE Break(u) BY <3>6 DEF Break
    <3> QED BY <1>1, <3>1, <3>2, <3>3, <3>4, <3>5, <3>6 DEF Handle
  <2>2. ChargedInOrder'
    <3>1. CASE Receive(u)
      <4>1. next[u] = 1 /\ next' = next /\ charged' = charged
            /\ \A v \in Uploads : v # u => pc'[v] = pc[v]
        BY <3>1 DEF Receive, DirectoryInv
      <4> QED BY <4>1 DEF ChargedInOrder
    <3>2. CASE StoreFile(u)
      <4> SUFFICES ASSUME NEW v \in Uploads, pc'[v] = "reading",
                          NEW n \in 1..(next'[v] - 1)
                   PROVE  \E c \in charged' : c.upload = v /\ c.file = n
        BY DEF ChargedInOrder
      <4>1. pc' = pc /\ charged' = charged \cup {Charge(u, next[u])}
            /\ next' = [next EXCEPT ![u] = @ + 1]
        BY <3>2 DEF StoreFile
      <4>2. CASE v = u /\ n = next[u]
        <5>1. Charge(u, next[u]).upload = u /\ Charge(u, next[u]).file = next[u]
          BY DEF Charge
        <5>2. Charge(u, next[u]) \in charged'
          BY <4>1
        <5> QED BY <4>2, <5>1, <5>2
      <4>3. CASE ~(v = u /\ n = next[u])
        <5>1. n \in 1..(next[v] - 1)
          <6>1. CASE v = u
            <7>1. next'[u] = next[u] + 1 /\ next[u] \in Nat
              BY <4>1
            <7> QED BY <4>3, <6>1, <7>1
          <6>2. CASE v # u
            BY <4>1, <6>2
          <6> QED BY <6>1, <6>2
        <5> QED BY <4>1, <5>1 DEF ChargedInOrder
      <4> QED BY <4>2, <4>3
    <3>3. CASE ~Receive(u) /\ ~StoreFile(u)
      <4>1. next' = next /\ charged' = charged
            /\ \A v \in Uploads : pc'[v] = "reading" => pc[v] = "reading"
        BY <1>1, <3>3 DEF Handle, RefuseLarge, RefuseRate, CreateRun, Break, Refuse
      <4> QED BY <4>1 DEF ChargedInOrder
    <3> QED BY <3>1, <3>2, <3>3
  <2> QED BY <2>1, <2>2
<1> USE DEF ChargedInOrder, DirectoryInv, FilesKeptExactlyForRuns
<1>2. CASE Restart BY <1>2 DEF Restart
<1>3. CASE Tick BY <1>3 DEF Tick
<1>4. CASE UNCHANGED vars BY <1>4 DEF vars
<1> QED BY <1>1, <1>2, <1>3, <1>4 DEF Next
-----------------------------------------------------------------------------
LEMMA IInvInit == Init => IInv
<1> SUFFICES ASSUME Init PROVE IInv
    OBVIOUS
<1>1. TypeOK
  BY DEF Init, TypeOK
<1>2. LogInv
  BY FS_EmptySet DEF Init, LogInv, ChargesPast, LogIsCharged, NothingForgottenEarly
<1>3. WindowCount
  <2>1. \A t : InWindow(t) = {}
    BY DEF Init, InWindow
  <2> QED BY <2>1, FS_EmptySet, LimitAssumption DEF WindowCount
<1>5. WindowBytes
  <2>1. \A t : InWindow(t) = {}
    BY DEF Init, InWindow
  <2> QED BY <2>1, NoBytes, LimitAssumption DEF WindowBytes
<1>4. ChargedInOrder /\ DirectoryInv /\ FilesKeptExactlyForRuns
  BY DEF Init, ChargedInOrder, DirectoryInv, FilesKeptExactlyForRuns
<1> QED BY <1>1, <1>2, <1>3, <1>4, <1>5 DEF IInv

LEMMA IInvStep == IInv /\ [Next]_vars => IInv'
BY TypeStep, LogStep, WindowStep, BytesStep, UploadStep DEF IInv

(* The inductive invariant holds in every reachable state.                 *)
THEOREM Invariance == Spec => []IInv
BY IInvInit, IInvStep, PTL DEF Spec

(* Type correctness.                                                       *)
THEOREM TypeCorrect == Spec => []TypeOK
BY Invariance, PTL DEF IInv

(* The limiter never forgets a charge that still counts.                   *)
THEOREM NothingForgotten == Spec => []NothingForgottenEarly
BY Invariance, PTL DEF IInv, LogInv

(* No window of time holds more charges than the limit.                    *)
THEOREM WindowBounded == Spec => []WindowCount
BY Invariance, PTL DEF IInv

(* No window of time holds more bytes than the limit.                      *)
THEOREM BytesBounded == Spec => []WindowBytes
BY Invariance, PTL DEF IInv

(* A refused upload leaves no directory, a run finds its own.              *)
THEOREM DirectoriesFollowRuns == Spec => []FilesKeptExactlyForRuns
BY Invariance, PTL DEF IInv

(* A run is only created for an upload all of whose files were charged.    *)
THEOREM RunsAreWhole == Spec => RunHasEveryFile
<1>1. IInv /\ [Next]_vars =>
          \A u \in Uploads : (run'[u] /\ ~run[u]) =>
              \A n \in DOMAIN Sizes[u] : \E c \in charged : c.upload = u /\ c.file = n
  <2> SUFFICES ASSUME IInv, [Next]_vars, NEW u \in Uploads, run'[u], ~run[u],
                      NEW n \in DOMAIN Sizes[u]
               PROVE  \E c \in charged : c.upload = u /\ c.file = n
    OBVIOUS
  <2>1. CreateRun(u)
    BY DEF Next, Handle, Receive, RefuseLarge, RefuseRate, StoreFile, CreateRun, Break,
           Restart, Tick, vars, IInv, TypeOK
  <2>2. n \in 1..(next[u] - 1)
    BY <2>1, SizesAssumption DEF CreateRun, IInv, TypeOK
  <2> QED BY <2>1, <2>2 DEF CreateRun, IInv, ChargedInOrder
<1> QED BY <1>1, Invariance, PTL DEF Spec, RunHasEveryFile
=============================================================================
