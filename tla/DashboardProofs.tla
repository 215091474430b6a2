--------------------------- MODULE DashboardProofs ---------------------------
(***************************************************************************)
(* Proofs that, for any accounts, currencies and number of acts, the page  *)
(* and the ledger keep their types, that a dashboard at rest shows the     *)
(* ledger whatever was saved and however late the answers were, and that   *)
(* the sums in its tree, its summary and its charts are the same.          *)
(***************************************************************************)
EXTENDS DashboardRequirements, FiniteSetTheorems, WellFoundedInduction, TLAPS

-----------------------------------------------------------------------------
(* Sums                                                                    *)

(* What holds of 0 and with n of n + 1 holds of every natural number, or   *)
(* there would be a least counterexample.                                  *)
LEMMA Induction ==
    ASSUME NEW S, 0 \in S, \A n \in Nat : n \in S => n + 1 \in S
    PROVE  Nat \subseteq S
<1> DEFINE T == Nat \ S
           R == OpToRel(<, Nat)
<1>1. \A m, n \in Nat : m < n => <<m, n>> \in R
  BY DEF OpToRel
<1>2. SUFFICES ASSUME T # {} PROVE FALSE
  OBVIOUS
<1> HIDE DEF R
<1>3. IsWellFoundedOn(R, Nat)
  BY NatLessThanWellFounded, Zenon DEF R
<1>4. PICK x \in T : \A y \in T : ~(<<y, x>> \in R)
  <2> T \subseteq Nat OBVIOUS
  <2> HIDE DEF T
  <2> QED BY <1>2, <1>3, WFMin
<1>5. x # 0 /\ x \in Nat
  BY <1>4
<1>6. x - 1 \in T /\ x - 1 \in Nat /\ x - 1 < x
  BY <1>5, <1>4
<1>7. <<x - 1, x>> \in R
  BY <1>1, <1>5, <1>6
<1> QED BY <1>4, <1>6, <1>7

(* What the page and the server add up: finitely many whole numbers.       *)
Summable(f, S) == IsFiniteSet(S) /\ \A x \in S : f[x] \in Int
Some(s) == CHOOSE x \in s : TRUE

LEMMA Parts ==
    ASSUME NEW f, NEW S, Summable(f, S), NEW T \in SUBSET S
    PROVE  /\ Summable(f, T) /\ Cardinality(T) \in Nat /\ Cardinality(T) <= Cardinality(S)
           /\ Cardinality(T) = 0 <=> T = {}
           /\ \A x \in T : Cardinality(T \ {x}) = Cardinality(T) - 1
           /\ T # {} => Some(T) \in T
<1>1. Summable(f, T) /\ IsFiniteSet(T)
  BY FS_Subset DEF Summable
<1>2. Cardinality(T) \in Nat /\ Cardinality(T) <= Cardinality(S) /\ (Cardinality(T) = 0 <=> T = {})
  BY <1>1, FS_Subset, FS_CardinalityType, FS_EmptySet DEF Summable
<1>3. \A x \in T : Cardinality(T \ {x}) = Cardinality(T) - 1
  BY <1>1, FS_RemoveElement
<1>4. T # {} => Some(T) \in T
  BY DEF Some
<1> QED BY <1>1, <1>2, <1>3, <1>4

(* A sum takes one member after the other.                                 *)
LEMMA SumRecursion ==
    ASSUME NEW f, NEW S, Summable(f, S)
    PROVE  /\ SumFunctionOnSet(f, S) \in Int
           /\ SumFunctionOnSet(f, S) = IF S = {} THEN 0
                                       ELSE f[Some(S)] + SumFunctionOnSet(f, S \ {Some(S)})
<1> DEFINE Step(g, s) == IF s = {} THEN 0 ELSE f[Some(s)] + g[s \ {Some(s)}]
           Solved(g, n) == \A s \in SUBSET S : Cardinality(s) <= n => g[s] = Step(g, s)
           Good == {n \in Nat : \E g \in [SUBSET S -> Int] : Solved(g, n)}
<1>1. \A s \in SUBSET S : Cardinality(s) \in Nat /\ Cardinality(s) <= Cardinality(S)
                          /\ (Cardinality(s) = 0 <=> s = {})
  BY Parts
<1>2. \A s \in SUBSET S : s # {} => /\ Some(s) \in s /\ s \ {Some(s)} \in SUBSET S
                                     /\ f[Some(s)] \in Int
                                     /\ Cardinality(s \ {Some(s)}) = Cardinality(s) - 1
  <2> SUFFICES ASSUME NEW s \in SUBSET S, s # {}
               PROVE  /\ Some(s) \in s /\ f[Some(s)] \in Int
                      /\ Cardinality(s \ {Some(s)}) = Cardinality(s) - 1
    OBVIOUS
  <2>1. Some(s) \in s
    BY Parts
  <2> QED BY <2>1, Parts DEF Summable
<1>3. \A g \in [SUBSET S -> Int] : \A s \in SUBSET S : Step(g, s) \in Int
  <2> SUFFICES ASSUME NEW g \in [SUBSET S -> Int], NEW s \in SUBSET S PROVE Step(g, s) \in Int
    OBVIOUS
  <2>1. CASE s = {} BY <2>1
  <2>2. CASE s # {}
    <3> DEFINE k == g[s \ {Some(s)}]
               m == f[Some(s)]
    <3>1. k \in Int /\ m \in Int /\ Step(g, s) = m + k
      BY <1>2, <2>2
    <3> HIDE DEF k, m, Step
    <3> QED BY <3>1
  <2> QED BY <2>1, <2>2
<1>4. 0 \in Good
  <2>1. [s \in SUBSET S |-> 0] \in [SUBSET S -> Int] /\ Solved([s \in SUBSET S |-> 0], 0)
    BY <1>1
  <2> HIDE DEF Solved
  <2> QED BY <2>1
<1>5. ASSUME NEW n \in Nat, n \in Good PROVE n + 1 \in Good
  <2>1. PICK g \in [SUBSET S -> Int] : Solved(g, n)
    BY <1>5
  <2> DEFINE h == [s \in SUBSET S |-> IF Cardinality(s) <= n THEN g[s] ELSE Step(g, s)]
  <2>2. h \in [SUBSET S -> Int]
    <3> HIDE DEF Step
    <3> QED BY <1>3
  <2>3. ASSUME NEW s \in SUBSET S, Cardinality(s) <= n + 1 PROVE h[s] = Step(h, s)
    <3>1. s # {} => s \ {Some(s)} \in SUBSET S /\ Cardinality(s \ {Some(s)}) <= n
      BY <1>1, <1>2, <2>3
    <3>2. s # {} => h[s \ {Some(s)}] = g[s \ {Some(s)}]
      BY <3>1
    <3>3. Step(h, s) = Step(g, s)
      BY <3>2
    <3>4. h[s] = Step(g, s)
      <4> HIDE DEF Step
      <4> QED BY <2>1
    <3> QED BY <3>3, <3>4
  <2>4. Solved(h, n + 1)
    BY <2>3
  <2> HIDE DEF h, Solved
  <2> QED BY <2>2, <2>4
<1>6. PICK e \in [SUBSET S -> Int] : \A s \in SUBSET S : e[s] = Step(e, s)
  <2>1. Cardinality(S) \in Good
    <3> HIDE DEF Good
    <3> QED BY <1>1, <1>4, <1>5, Induction
  <2>2. PICK g \in [SUBSET S -> Int] : Solved(g, Cardinality(S))
    BY <2>1
  <2>3. \A s \in SUBSET S : g[s] = Step(g, s)
    <3> HIDE DEF Step
    <3> QED BY <1>1, <2>2
  <2> QED BY <2>3
<1>7. ASSUME NEW T \in SUBSET S PROVE SumFunctionOnSet(f, T) = e[T]
  <2> DEFINE iter == CHOOSE g : g = [s \in SUBSET T |-> Step(g, s)]
             part == [s \in SUBSET T |-> e[s]]
  <2>1. part = [s \in SUBSET T |-> Step(part, s)]
    <3> SUFFICES ASSUME NEW s \in SUBSET T PROVE part[s] = Step(part, s)
      OBVIOUS
    <3>1. s \in SUBSET S /\ s \ {Some(s)} \in SUBSET T /\ part[s] = e[s]
      OBVIOUS
    <3>2. Step(part, s) = Step(e, s)
      BY <3>1
    <3> HIDE DEF part, Step
    <3> QED BY <1>6, <3>1, <3>2
  <2>2. iter = [s \in SUBSET T |-> Step(iter, s)]
    <3> HIDE DEF Step, part
    <3> QED BY <2>1
  <2>3. SumFunctionOnSet(f, T) = iter[T]
    BY DEF SumFunctionOnSet, FoldFunctionOnSet, MapThenFoldSet, Some
  <2> HIDE DEF iter
  <2> DEFINE Same == {n \in Nat : \A s \in SUBSET T : Cardinality(s) = n => iter[s] = e[s]}
  <2>4. 0 \in Same
    BY <1>1, <1>6, <2>2
  <2>5. ASSUME NEW n \in Nat, n \in Same PROVE n + 1 \in Same
    <3> SUFFICES ASSUME NEW s \in SUBSET T, Cardinality(s) = n + 1 PROVE iter[s] = e[s]
      OBVIOUS
    <3>1. s # {} /\ s \ {Some(s)} \in SUBSET T /\ Cardinality(s \ {Some(s)}) = n
      BY <1>1, <1>2
    <3>2. iter[s \ {Some(s)}] = e[s \ {Some(s)}]
      BY <2>5, <3>1
    <3>3. iter[s] = Step(iter, s) /\ e[s] = Step(e, s)
      <4> HIDE DEF Step
      <4> QED BY <1>6, <2>2
    <3> QED BY <3>2, <3>3
  <2>6. Cardinality(T) \in Same
    <3> HIDE DEF Same
    <3> QED BY <1>1, <2>4, <2>5, Induction
  <2> QED BY <2>3, <2>6
<1>8. SumFunctionOnSet(f, S) \in Int /\ SumFunctionOnSet(f, S) = Step(e, S)
  <2> HIDE DEF Step
  <2> QED BY <1>6, <1>7
<1>9. S # {} => SumFunctionOnSet(f, S \ {Some(S)}) = e[S \ {Some(S)}]
  BY <1>7
<1> QED BY <1>8, <1>9

LEMMA SumOfNone == \A f : SumFunctionOnSet(f, {}) = 0
BY SumRecursion, FS_EmptySet DEF Summable

(* The members may be taken in any order.                                  *)
LEMMA SumTakes ==
    ASSUME NEW f, NEW S, Summable(f, S), NEW c \in S
    PROVE  /\ SumFunctionOnSet(f, S) = f[c] + SumFunctionOnSet(f, S \ {c})
           /\ f[c] \in Int /\ SumFunctionOnSet(f, S \ {c}) \in Int
<1> DEFINE Total(Q) == SumFunctionOnSet(f, Q)
           Good == {n \in Nat : \A Q \in SUBSET S : Cardinality(Q) = n =>
                       \A a \in Q : Total(Q) = f[a] + Total(Q \ {a})}
<1>0. \A Q \in SUBSET S :
        /\ Summable(f, Q) /\ Cardinality(Q) \in Nat /\ (Cardinality(Q) = 0 <=> Q = {})
        /\ \A a \in Q : Cardinality(Q \ {a}) = Cardinality(Q) - 1 /\ f[a] \in Int
        /\ Total(Q) \in Int
        /\ Q # {} => Some(Q) \in Q /\ Total(Q) = f[Some(Q)] + Total(Q \ {Some(Q)})
  <2> SUFFICES ASSUME NEW Q \in SUBSET S
               PROVE  /\ Summable(f, Q) /\ Cardinality(Q) \in Nat /\ (Cardinality(Q) = 0 <=> Q = {})
                      /\ \A a \in Q : Cardinality(Q \ {a}) = Cardinality(Q) - 1 /\ f[a] \in Int
                      /\ Total(Q) \in Int
                      /\ Q # {} => Some(Q) \in Q /\ Total(Q) = f[Some(Q)] + Total(Q \ {Some(Q)})
    OBVIOUS
  <2>1. Summable(f, Q) /\ Cardinality(Q) \in Nat /\ (Cardinality(Q) = 0 <=> Q = {})
        /\ (\A a \in Q : Cardinality(Q \ {a}) = Cardinality(Q) - 1) /\ (Q # {} => Some(Q) \in Q)
    BY Parts
  <2>2. \A a \in Q : f[a] \in Int
    BY <2>1 DEF Summable
  <2>3. Total(Q) \in Int /\ (Q # {} => Total(Q) = f[Some(Q)] + Total(Q \ {Some(Q)}))
    BY <2>1, SumRecursion
  <2> QED BY <2>1, <2>2, <2>3
<1> HIDE DEF Total
<1>1. 0 \in Good
  BY <1>0
<1>2. ASSUME NEW n \in Nat, n \in Good PROVE n + 1 \in Good
  <2> SUFFICES ASSUME NEW Q \in SUBSET S, Cardinality(Q) = n + 1, NEW a \in Q
               PROVE  Total(Q) = f[a] + Total(Q \ {a})
    OBVIOUS
  <2>1. PICK x \in Q : Total(Q) = f[x] + Total(Q \ {x})
    BY <1>0
  <2>3. CASE x = a BY <2>1, <2>3
  <2>4. CASE x # a
    <3> DEFINE rest == Total((Q \ {a}) \ {x})
               rest2 == Total((Q \ {x}) \ {a})
    <3>1. Q \ {x} \in SUBSET S /\ Cardinality(Q \ {x}) = n /\ a \in Q \ {x}
      <4>1. Cardinality(Q \ {x}) = Cardinality(Q) - 1
        BY <1>0
      <4> QED BY <2>4, <4>1
    <3>2. Q \ {a} \in SUBSET S /\ Cardinality(Q \ {a}) = n /\ x \in Q \ {a}
      <4>1. Cardinality(Q \ {a}) = Cardinality(Q) - 1
        BY <1>0
      <4> QED BY <2>4, <4>1
    <3>3. Total(Q \ {x}) = f[a] + rest2
      BY <1>2, <3>1
    <3>4. Total(Q \ {a}) = f[x] + rest
      BY <1>2, <3>2
    <3>5. rest = rest2
      <4>1. (Q \ {x}) \ {a} = (Q \ {a}) \ {x}
        OBVIOUS
      <4> QED BY <4>1
    <3>6. rest \in Int /\ f[a] \in Int /\ f[x] \in Int
      <4>1. (Q \ {a}) \ {x} \in SUBSET S
        OBVIOUS
      <4> QED BY <1>0, <4>1
    <3> HIDE DEF rest, rest2
    <3> QED BY <2>1, <3>3, <3>4, <3>5, <3>6
  <2> QED BY <2>3, <2>4
<1>3. Cardinality(S) \in Good
  <2> HIDE DEF Good
  <2> QED BY <1>0, <1>1, <1>2, Induction
<1>4. Total(S) = f[c] + Total(S \ {c})
  BY <1>3
<1>5. f[c] \in Int /\ Total(S \ {c}) \in Int
  BY <1>0
<1> QED BY <1>4, <1>5 DEF Total

(* Taking every member by another name gives the same sum.                 *)
LEMMA SumReindexed ==
    ASSUME NEW f, NEW S, Summable(f, S), NEW h, NEW g,
           \A x \in S : g[h[x]] = f[x],
           \A x, y \in S : h[x] = h[y] => x = y
    PROVE  SumFunctionOnSet(g, {h[x] : x \in S}) = SumFunctionOnSet(f, S)
<1> DEFINE Image(Q) == {h[x] : x \in Q}
           Good == {n \in Nat : \A Q \in SUBSET S : Cardinality(Q) = n =>
                       SumFunctionOnSet(g, Image(Q)) = SumFunctionOnSet(f, Q)}
<1>0. \A Q \in SUBSET S :
        /\ Summable(f, Q) /\ Cardinality(Q) \in Nat /\ (Cardinality(Q) = 0 <=> Q = {})
        /\ \A a \in Q : Cardinality(Q \ {a}) = Cardinality(Q) - 1
        /\ Q # {} => Some(Q) \in Q
  BY Parts
<1>1. \A Q \in SUBSET S : Summable(g, Image(Q))
  <2> SUFFICES ASSUME NEW Q \in SUBSET S PROVE Summable(g, Image(Q))
    OBVIOUS
  <2>1. IsFiniteSet(Image(Q))
    <3>1. IsFiniteSet(Q)
      BY <1>0 DEF Summable
    <3> DEFINE e == [x \in Q |-> h[x]]
    <3>2. e \in Surjection(Q, Image(Q))
      BY DEF Surjection
    <3> HIDE DEF e, Image
    <3> QED BY <3>1, <3>2, FS_Surjection
  <2> QED BY <2>1 DEF Summable
<1>2. 0 \in Good
  <2>1. ASSUME NEW Q \in SUBSET S, Cardinality(Q) = 0
        PROVE  SumFunctionOnSet(g, Image(Q)) = SumFunctionOnSet(f, Q)
    <3>1. Q = {} /\ Image(Q) = {}
      BY <1>0, <2>1
    <3> HIDE DEF Image
    <3> QED BY <3>1, SumOfNone
  <2> QED BY <2>1
<1>3. ASSUME NEW n \in Nat, n \in Good PROVE n + 1 \in Good
  <2> SUFFICES ASSUME NEW Q \in SUBSET S, Cardinality(Q) = n + 1
               PROVE  SumFunctionOnSet(g, Image(Q)) = SumFunctionOnSet(f, Q)
    OBVIOUS
  <2>1. PICK x \in Q : TRUE
    <3>1. Q # {}
      BY <1>0
    <3> QED BY <3>1
  <2>2. h[x] \in Image(Q) /\ Image(Q \ {x}) = Image(Q) \ {h[x]} /\ g[h[x]] = f[x]
    BY <2>1
  <2>3. SumFunctionOnSet(g, Image(Q \ {x})) = SumFunctionOnSet(f, Q \ {x})
    <3>1. Cardinality(Q \ {x}) = Cardinality(Q) - 1 /\ Q \ {x} \in SUBSET S
      BY <1>0, <2>1
    <3>2. Cardinality(Q \ {x}) = n
      BY <3>1
    <3> HIDE DEF Image
    <3> QED BY <1>3, <3>1, <3>2
  <2> HIDE DEF Image
  <2>4. SumFunctionOnSet(f, Q) = f[x] + SumFunctionOnSet(f, Q \ {x})
    BY <1>0, <2>1, SumTakes
  <2>5. SumFunctionOnSet(g, Image(Q)) = g[h[x]] + SumFunctionOnSet(g, Image(Q) \ {h[x]})
    BY <1>1, <2>2, SumTakes
  <2> QED BY <2>2, <2>3, <2>4, <2>5
<1>4. Cardinality(S) \in Good
  <2> HIDE DEF Good
  <2> QED BY <1>0, <1>2, <1>3, Induction
<1> QED BY <1>4

LEMMA SumSame ==
    ASSUME NEW f, NEW S, Summable(f, S), NEW g, \A x \in S : g[x] = f[x]
    PROVE  SumFunctionOnSet(g, S) = SumFunctionOnSet(f, S)
<1> DEFINE h == [x \in S |-> x]
<1>1. {h[x] : x \in S} = S /\ (\A x \in S : g[h[x]] = f[x])
      /\ \A x, y \in S : h[x] = h[y] => x = y
  OBVIOUS
<1> HIDE DEF h
<1> QED BY <1>1, SumReindexed

(* Two parts of a sum.                                                     *)
LEMMA SumSplits ==
    ASSUME NEW f, NEW S, Summable(f, S), NEW T \in SUBSET S
    PROVE  SumFunctionOnSet(f, S) = SumFunctionOnSet(f, T) + SumFunctionOnSet(f, S \ T)
<1> DEFINE Good == {n \in Nat : \A Q \in SUBSET T : Cardinality(Q) = n =>
                       SumFunctionOnSet(f, S) = SumFunctionOnSet(f, Q) + SumFunctionOnSet(f, S \ Q)}
<1>0. \A Q \in SUBSET S :
        /\ Summable(f, Q) /\ Cardinality(Q) \in Nat /\ (Cardinality(Q) = 0 <=> Q = {})
        /\ \A a \in Q : Cardinality(Q \ {a}) = Cardinality(Q) - 1
        /\ SumFunctionOnSet(f, Q) \in Int
  BY Parts, SumRecursion
<1>1. 0 \in Good
  <2>1. ASSUME NEW Q \in SUBSET T, Cardinality(Q) = 0
        PROVE  SumFunctionOnSet(f, S) = SumFunctionOnSet(f, Q) + SumFunctionOnSet(f, S \ Q)
    <3>1. Q = {} /\ S \ Q = S /\ SumFunctionOnSet(f, S) \in Int
      BY <1>0, <2>1
    <3> QED BY <3>1, SumOfNone
  <2> QED BY <2>1
<1>2. ASSUME NEW n \in Nat, n \in Good PROVE n + 1 \in Good
  <2> SUFFICES ASSUME NEW Q \in SUBSET T, Cardinality(Q) = n + 1
               PROVE  SumFunctionOnSet(f, S) = SumFunctionOnSet(f, Q) + SumFunctionOnSet(f, S \ Q)
    OBVIOUS
  <2>1. PICK x \in Q : TRUE
    <3>1. Q # {}
      BY <1>0
    <3> QED BY <3>1
  <2>2. Q \in SUBSET S /\ Q \ {x} \in SUBSET S /\ Q \ {x} \in SUBSET T /\ x \in S \ (Q \ {x})
        /\ S \ (Q \ {x}) \in SUBSET S /\ (S \ (Q \ {x})) \ {x} = S \ Q
    BY <2>1
  <2>3. Cardinality(Q \ {x}) = n
    <3>1. Cardinality(Q \ {x}) = Cardinality(Q) - 1
      BY <1>0, <2>1
    <3> QED BY <3>1
  <2>4. SumFunctionOnSet(f, S) = SumFunctionOnSet(f, Q \ {x}) + SumFunctionOnSet(f, S \ (Q \ {x}))
    BY <1>2, <2>2, <2>3
  <2>5. SumFunctionOnSet(f, Q) = f[x] + SumFunctionOnSet(f, Q \ {x}) /\ f[x] \in Int
    BY <1>0, <2>1, <2>2, SumTakes
  <2>6. SumFunctionOnSet(f, S \ (Q \ {x})) = f[x] + SumFunctionOnSet(f, S \ Q)
    <3> DEFINE R == S \ (Q \ {x})
    <3>1. Summable(f, R) /\ x \in R /\ R \ {x} = S \ Q
      BY <1>0, <2>2
    <3> HIDE DEF R
    <3> QED BY <3>1, SumTakes DEF R
  <2> QED
    <3> DEFINE a == SumFunctionOnSet(f, Q \ {x})
               b == SumFunctionOnSet(f, S \ Q)
    <3>1. a \in Int /\ b \in Int
      BY <1>0, <2>2
    <3>2. SumFunctionOnSet(f, S) = a + (f[x] + b) /\ SumFunctionOnSet(f, Q) = f[x] + a /\ f[x] \in Int
      BY <2>4, <2>5, <2>6
    <3> HIDE DEF a, b
    <3>3. a + (f[x] + b) = (f[x] + a) + b
      BY <3>1, <3>2
    <3> QED BY <3>2, <3>3 DEF b
<1>3. Cardinality(T) \in Good
  <2> HIDE DEF Good
  <2> QED BY <1>0, <1>1, <1>2, Induction
<1> QED BY <1>3

(* A sum of zeros, but for one member.                                     *)
LEMMA SumOfOne ==
    ASSUME NEW f, NEW S, Summable(f, S), NEW c \in S, \A x \in S \ {c} : f[x] = 0
    PROVE  SumFunctionOnSet(f, S) = f[c]
<1> DEFINE T == S \ {c}
           Good == {n \in Nat : \A Q \in SUBSET T : Cardinality(Q) = n => SumFunctionOnSet(f, Q) = 0}
<1>0. \A Q \in SUBSET S :
        /\ Summable(f, Q) /\ Cardinality(Q) \in Nat /\ (Cardinality(Q) = 0 <=> Q = {})
        /\ \A a \in Q : Cardinality(Q \ {a}) = Cardinality(Q) - 1
  BY Parts
<1>1. 0 \in Good
  <2>1. \A Q \in SUBSET T : Cardinality(Q) = 0 => Q = {}
    BY <1>0
  <2> QED BY <2>1, SumOfNone
<1>2. ASSUME NEW n \in Nat, n \in Good PROVE n + 1 \in Good
  <2> SUFFICES ASSUME NEW Q \in SUBSET T, Cardinality(Q) = n + 1
               PROVE  SumFunctionOnSet(f, Q) = 0
    OBVIOUS
  <2>1. PICK x \in Q : TRUE
    <3>1. Q # {}
      BY <1>0
    <3> QED BY <3>1
  <2>2. Cardinality(Q \ {x}) = n
    <3>1. Cardinality(Q \ {x}) = Cardinality(Q) - 1
      BY <1>0, <2>1
    <3> QED BY <3>1
  <2>3. SumFunctionOnSet(f, Q \ {x}) = 0
    BY <1>2, <2>2
  <2>4. SumFunctionOnSet(f, Q) = f[x] + SumFunctionOnSet(f, Q \ {x})
    BY <1>0, <2>1, SumTakes
  <2> QED BY <2>1, <2>3, <2>4
<1>3. Cardinality(T) \in Good
  <2> HIDE DEF Good
  <2>1. Cardinality(T) \in Nat
    BY <1>0
  <2> QED BY <1>1, <1>2, <2>1, Induction
<1>4. SumFunctionOnSet(f, S \ {c}) = 0
  BY <1>3
<1> QED BY <1>4, SumTakes

(* A sum taken bundle by bundle: every member has its own in K.            *)
Bundled(f, S, own, g, K) ==
    /\ Summable(f, S) /\ IsFiniteSet(K)
    /\ \A x \in S : own[x] \in K
    /\ \A k \in K : g[k] = SumFunctionOnSet(f, {x \in S : own[x] = k})

LEMMA SumOfSums ==
    ASSUME NEW f, NEW S, NEW own, NEW g, NEW K, Bundled(f, S, own, g, K)
    PROVE  SumFunctionOnSet(f, S) = SumFunctionOnSet(g, K)
<1> USE DEF Bundled
<1> DEFINE Of(Q) == {x \in S : own[x] \in Q}
           Good == {n \in Nat : \A Q \in SUBSET K : Cardinality(Q) = n =>
                       SumFunctionOnSet(f, Of(Q)) = SumFunctionOnSet(g, Q)}
<1>0. \A Q \in SUBSET S : Summable(f, Q) /\ SumFunctionOnSet(f, Q) \in Int
  BY Parts, SumRecursion
<1>1. Summable(g, K)
  <2>1. ASSUME NEW k \in K PROVE g[k] \in Int
    <3>1. {x \in S : own[x] = k} \in SUBSET S
      OBVIOUS
    <3> QED BY <1>0, <3>1
  <2> QED BY <2>1 DEF Summable
<1>2. \A Q \in SUBSET K :
        /\ Summable(g, Q) /\ Cardinality(Q) \in Nat /\ (Cardinality(Q) = 0 <=> Q = {})
        /\ \A a \in Q : Cardinality(Q \ {a}) = Cardinality(Q) - 1
  BY <1>1, Parts
<1>3. 0 \in Good
  <2>1. ASSUME NEW Q \in SUBSET K, Cardinality(Q) = 0
        PROVE  SumFunctionOnSet(f, Of(Q)) = SumFunctionOnSet(g, Q)
    <3>1. Q = {} /\ Of(Q) = {}
      BY <1>2, <2>1
    <3> HIDE DEF Of
    <3> QED BY <3>1, SumOfNone
  <2> QED BY <2>1
<1>4. ASSUME NEW n \in Nat, n \in Good PROVE n + 1 \in Good
  <2> SUFFICES ASSUME NEW Q \in SUBSET K, Cardinality(Q) = n + 1
               PROVE  SumFunctionOnSet(f, Of(Q)) = SumFunctionOnSet(g, Q)
    OBVIOUS
  <2>1. PICK k \in Q : TRUE
    <3>1. Q # {}
      BY <1>2
    <3> QED BY <3>1
  <2> DEFINE mine == {x \in S : own[x] = k}
  <2>2. Of(Q) \in SUBSET S /\ mine \in SUBSET Of(Q) /\ Of(Q) \ mine = Of(Q \ {k})
    BY <2>1
  <2>3. g[k] = SumFunctionOnSet(f, mine)
    BY <2>1
  <2>4. SumFunctionOnSet(f, Of(Q \ {k})) = SumFunctionOnSet(g, Q \ {k})
    <3>1. Cardinality(Q \ {k}) = Cardinality(Q) - 1 /\ Q \ {k} \in SUBSET K
      BY <1>2, <2>1
    <3>2. Cardinality(Q \ {k}) = n
      BY <3>1
    <3> HIDE DEF Of
    <3> QED BY <1>4, <3>1, <3>2
  <2> HIDE DEF mine, Of
  <2>5. SumFunctionOnSet(f, Of(Q)) = SumFunctionOnSet(f, mine) + SumFunctionOnSet(f, Of(Q) \ mine)
    <3>1. Summable(f, Of(Q)) /\ mine \in SUBSET Of(Q)
      BY <1>0, <2>2
    <3> QED BY <3>1, SumSplits
  <2>6. SumFunctionOnSet(g, Q) = g[k] + SumFunctionOnSet(g, Q \ {k})
    BY <1>2, <2>1, SumTakes
  <2> QED BY <2>2, <2>3, <2>4, <2>5, <2>6
<1>5. Cardinality(K) \in Good
  <2> HIDE DEF Good
  <2>1. Cardinality(K) \in Nat
    BY <1>2
  <2> QED BY <1>3, <1>4, <2>1, Induction
<1>6. Of(K) = S
  OBVIOUS
<1> HIDE DEF Of
<1> QED BY <1>5, <1>6

(* A finite set of whole numbers has a greatest member.                    *)
LEMMA Greatest ==
    ASSUME NEW S \in SUBSET Int, IsFiniteSet(S), S # {}
    PROVE  Max(S) \in S /\ \A n \in S : n <= Max(S)
<1> DEFINE Good == {n \in Nat : \A Q \in SUBSET S : Cardinality(Q) = n /\ Q # {} =>
                       \E x \in Q : \A y \in Q : x >= y}
<1>0. \A Q \in SUBSET S : /\ Cardinality(Q) \in Nat /\ (Cardinality(Q) = 0 <=> Q = {})
                          /\ \A a \in Q : Cardinality(Q \ {a}) = Cardinality(Q) - 1
  <2> DEFINE f == [x \in S |-> 0]
  <2>1. Summable(f, S)
    BY DEF Summable
  <2> HIDE DEF f
  <2> QED BY <2>1, Parts
<1>1. 0 \in Good
  BY <1>0
<1>2. ASSUME NEW n \in Nat, n \in Good PROVE n + 1 \in Good
  <2> SUFFICES ASSUME NEW Q \in SUBSET S, Cardinality(Q) = n + 1, Q # {}
               PROVE  \E x \in Q : \A y \in Q : x >= y
    OBVIOUS
  <2>1. PICK a \in Q : TRUE
    OBVIOUS
  <2>2. Cardinality(Q \ {a}) = n /\ a \in Int
    <3>1. Cardinality(Q \ {a}) = Cardinality(Q) - 1
      BY <1>0, <2>1
    <3> QED BY <3>1
  <2>3. CASE Q \ {a} = {}
    BY <2>2, <2>3
  <2>4. CASE Q \ {a} # {}
    <3>1. PICK x \in Q \ {a} : \A y \in Q \ {a} : x >= y
      BY <1>2, <2>2, <2>4
    <3> QED BY <2>2, <3>1
  <2> QED BY <2>3, <2>4
<1>3. Cardinality(S) \in Good
  <2> HIDE DEF Good
  <2> QED BY <1>0, <1>1, <1>2, Induction
<1>4. \E x \in S : \A y \in S : x >= y
  BY <1>3
<1> QED BY <1>4 DEF Max

-----------------------------------------------------------------------------
(* The summary and the charts                                              *)

(* The rows of some open accounts, and what they add up to.                *)
Row(l, c, id) ==
    [id |-> id, name |-> l[id].name, currency |-> l[id].currency,
     balance |-> Own(l[id]), shown |-> Convert(Own(l[id]), l[id].currency, c, Today)]

RowsOf(l, c, S) == {Row(l, c, id) : id \in S}

Worth(l, c, S) == [id \in S |-> OrZero(Convert(Own(l[id]), l[id].currency, c, Today))]

LEMMA OrZeroIsInt == \A amount \in Int \cup {Null} : OrZero(amount) \in Int
BY DEF OrZero

LEMMA ConvertIsAmount ==
    \A amount \in Int \cup {Null}, from, to \in Currencies, day \in Days :
        Convert(amount, from, to, day) \in Int \cup {Null}
<1> SUFFICES ASSUME NEW amount \in Int \cup {Null}, NEW from \in Currencies, NEW to \in Currencies,
                    NEW day \in Days
             PROVE  Convert(amount, from, to, day) \in Int \cup {Null}
  OBVIOUS
<1>1. PerUsd[from][day] \in (Nat \ {0}) \cup {Null} /\ PerUsd[to][day] \in (Nat \ {0}) \cup {Null}
  BY ApiAssumption
<1> QED BY <1>1 DEF Convert

(* The days an account has a balance on, and the latest of them.           *)
LEMMA DatedAreDays ==
    ASSUME NEW a, NEW currency, NEW day
    PROVE  /\ Dated(a, currency, day) \in SUBSET Days
           /\ Dated(a, currency, day) # {} =>
                /\ Max(Dated(a, currency, day)) \in Dated(a, currency, day)
                /\ Max(Dated(a, currency, day)) \in Days
<1>1. Dated(a, currency, day) \in SUBSET Days /\ Days \subseteq Int
  BY ApiAssumption DEF Dated
<1>2. IsFiniteSet(Dated(a, currency, day))
  BY <1>1, NamesAssumption, FS_Subset
<1>3. Dated(a, currency, day) \in SUBSET Int
  BY <1>1
<1>4. Dated(a, currency, day) # {} => Max(Dated(a, currency, day)) \in Dated(a, currency, day)
  BY <1>2, <1>3, Greatest
<1> QED BY <1>1, <1>4

LEMMA LatestIsAmount ==
    ASSUME NEW a \in Accounts, NEW currency \in Currencies, NEW day
    PROVE  Latest(a, currency, day) \in Int \cup {Null}
<1>1. \A d \in Days : a.balance[currency][d] \in Int \cup {Null}
  BY DEF Accounts
<1> QED BY <1>1, DatedAreDays DEF Latest

LEMMA OwnIsAmount ==
    ASSUME NEW l \in [Ids -> Accounts \cup {Null}], NEW id \in Active(l)
    PROVE  /\ id \in Ids /\ l[id] \in Accounts /\ Own(l[id]) \in Int \cup {Null}
           /\ l[id].currency \in Currencies /\ l[id].name \in Names
<1>1. id \in Ids /\ l[id] \in Accounts
  BY DEF Active
<1>2. l[id].currency \in Currencies /\ l[id].name \in Names
  BY <1>1 DEF Accounts
<1> QED BY <1>1, <1>2, LatestIsAmount DEF Own

LEMMA WorthIsSummable ==
    ASSUME NEW l \in [Ids -> Accounts \cup {Null}], NEW c \in Currencies, NEW S \in SUBSET Active(l)
    PROVE  Summable(Worth(l, c, S), S) /\ IsFiniteSet(Active(l))
<1>1. IsFiniteSet(Active(l))
  BY NamesAssumption, FS_Subset DEF Active
<1>2. IsFiniteSet(S)
  BY <1>1, FS_Subset
<1>3. ASSUME NEW id \in S PROVE Worth(l, c, S)[id] \in Int
  <2>1. Convert(Own(l[id]), l[id].currency, c, Today) \in Int \cup {Null}
    BY OwnIsAmount, ConvertIsAmount, ApiAssumption
  <2> QED BY <2>1, OrZeroIsInt DEF Worth
<1> QED BY <1>1, <1>2, <1>3 DEF Summable

(* The page adds up rows as the server adds up accounts.                   *)
LEMMA RowsAddUp ==
    ASSUME NEW l \in [Ids -> Accounts \cup {Null}], NEW c \in Currencies, NEW S \in SUBSET Active(l)
    PROVE  Sum(RowsOf(l, c, S)) = SumFunctionOnSet(Worth(l, c, S), S)
<1> DEFINE h == [id \in S |-> Row(l, c, id)]
           g == [row \in RowsOf(l, c, S) |-> OrZero(row.shown)]
<1>1. RowsOf(l, c, S) = {h[id] : id \in S}
  BY DEF RowsOf
<1>2. \A id \in S : g[h[id]] = Worth(l, c, S)[id]
  BY DEF RowsOf, Row, Worth
<1>3. \A a, b \in S : h[a] = h[b] => a = b
  <2>1. \A a \in S : h[a].id = a
    BY DEF Row
  <2> HIDE DEF h
  <2> QED BY <2>1
<1>4. Sum(RowsOf(l, c, S)) = SumFunctionOnSet(g, RowsOf(l, c, S))
  BY DEF Sum, SumFunction
<1> HIDE DEF g, h
<1>5. SumFunctionOnSet(g, {h[id] : id \in S}) = SumFunctionOnSet(Worth(l, c, S), S)
  BY <1>2, <1>3, WorthIsSummable, SumReindexed
<1> QED BY <1>1, <1>4, <1>5

LEMMA ListIsRows ==
    ASSUME NEW l, NEW c
    PROVE  List(l, c) = RowsOf(l, c, Active(l))
BY DEF List, RowsOf, Row

LEMMA AssetRows ==
    ASSUME NEW l, NEW c
    PROVE  LET assets == {id \in Active(l) : IsAsset(l[id])}
           IN  /\ {row \in List(l, c) : IsAsset(row)} = RowsOf(l, c, assets)
               /\ {row \in List(l, c) : ~IsAsset(row)} = RowsOf(l, c, Active(l) \ assets)
<1>1. \A id : IsAsset(Row(l, c, id)) <=> IsAsset(l[id])
  BY DEF Row, IsAsset
<1> QED BY <1>1, ListIsRows DEF RowsOf

(* On the last day of the history an account counts for its latest balance *)
(* of all, and for what the summary says, unless a rate has changed since. *)
LEMMA CountsAsShown ==
    ASSUME NEW l \in [Ids -> Accounts \cup {Null}], NEW c \in Currencies, NEW id \in Active(l),
           NEW last \in Points(l, Active(l)), \A day \in Points(l, Active(l)) : day <= last,
           RatesHeld(l[id], c)
    PROVE  CountsFor(l[id], c, last) = OrZero(Convert(Own(l[id]), l[id].currency, c, Today))
<1> DEFINE a == l[id]
           own == a.currency
           dated == Dated(a, own, Today)
<1>1. last \in Days /\ last \in Int /\ last <= Today /\ Today \in Int /\ HistoryStart \in Int
      /\ HistoryStart <= last /\ Days \subseteq Int
  BY ApiAssumption DEF Points
<1>2. Dated(a, own, last) = dated
  <2>1. ASSUME NEW d \in Days, d <= Today, a.balance[own][d] # Null PROVE d <= last
    <3>1. d \in Int
      BY <1>1
    <3>2. CASE d >= HistoryStart
      BY <2>1, <3>2 DEF Points
    <3>3. CASE ~(d >= HistoryStart)
      BY <1>1, <3>1, <3>3
    <3> QED BY <3>2, <3>3
  <2>2. \A d \in Days : d <= last => d <= Today
    BY <1>1
  <2> QED BY <2>1, <2>2 DEF Dated
<1>3. Latest(a, own, last) = Own(a)
  BY <1>2 DEF Latest, Own
<1>4. CASE dated = {}
  <2>1. CountsFor(a, c, last) = 0
    BY <1>2, <1>4 DEF CountsFor
  <2>2. Own(a) = Null
    BY <1>4 DEF Own, Latest
  <2> QED BY <2>1, <2>2 DEF Convert, OrZero
<1>5. CASE dated # {}
  <2> DEFINE day == RateDay(Max(dated))
  <2>1. CountsFor(a, c, last) = OrZero(Convert(Own(a), own, c, day))
    BY <1>2, <1>3, <1>5 DEF CountsFor
  <2>2. own # c => PerUsd[own][day] = PerUsd[own][Today] /\ PerUsd[c][day] = PerUsd[c][Today]
    BY <1>5 DEF RatesHeld
  <2>3. Convert(Own(a), own, c, day) = Convert(Own(a), own, c, Today)
    BY <2>2 DEF Convert
  <2> QED BY <2>1, <2>3
<1> QED BY <1>4, <1>5

(* The summary and the last point of the growth chart.                     *)
LEMMA HistoryAgrees ==
    ASSUME NEW l \in [Ids -> Accounts \cup {Null}], NEW c \in Currencies,
           DOMAIN History(l, c) # {}, \A id \in Active(l) : RatesHeld(l[id], c)
    PROVE  History(l, c)[Max(DOMAIN History(l, c))] =
               [assets |-> TotalAssets(List(l, c)), liabilities |-> TotalLiabilities(List(l, c))]
<1> DEFINE assets == {id \in Active(l) : IsAsset(l[id])}
           others == Active(l) \ assets
           points == Points(l, Active(l))
           last == Max(points)
           Counts(S) == [id \in S |-> CountsFor(l[id], c, last)]
<1>1. TotalAssets(List(l, c)) = SumFunctionOnSet(Worth(l, c, assets), assets)
  <2>1. Sum(RowsOf(l, c, assets)) = SumFunctionOnSet(Worth(l, c, assets), assets)
    BY RowsAddUp
  <2>2. {row \in List(l, c) : IsAsset(row)} = RowsOf(l, c, assets)
    BY AssetRows
  <2> HIDE DEF assets
  <2> QED BY <2>1, <2>2 DEF TotalAssets
<1>2. TotalLiabilities(List(l, c)) = SumFunctionOnSet(Worth(l, c, others), others)
  <2>1. Sum(RowsOf(l, c, others)) = SumFunctionOnSet(Worth(l, c, others), others)
    BY RowsAddUp
  <2>2. {row \in List(l, c) : ~IsAsset(row)} = RowsOf(l, c, others)
    BY AssetRows
  <2> HIDE DEF others
  <2> QED BY <2>1, <2>2 DEF TotalLiabilities
<1>3. last \in points /\ \A day \in points : day <= last
  <2>1. points \in SUBSET Int /\ points \in SUBSET Days
    BY ApiAssumption DEF Points
  <2>2. IsFiniteSet(points)
    BY <2>1, NamesAssumption, FS_Subset
  <2>3. points # {}
    BY DEF History
  <2> HIDE DEF points
  <2> QED BY <2>1, <2>2, <2>3, Greatest
<1>4. \A id \in Active(l) : CountsFor(l[id], c, last) = OrZero(Convert(Own(l[id]), l[id].currency, c, Today))
  <2> HIDE DEF last
  <2> QED BY <1>3, CountsAsShown
<1>5. \A S \in SUBSET Active(l) : Counts(S) = Worth(l, c, S)
  <2> HIDE DEF last
  <2> QED BY <1>4 DEF Worth
<1>6. History(l, c)[last] = Totals(l, Active(l), c, last) /\ DOMAIN History(l, c) = points
  <2> HIDE DEF last
  <2> QED BY <1>3 DEF History
<1>7. Totals(l, Active(l), c, last) = [assets |-> SumFunctionOnSet(Counts(assets), assets),
                                       liabilities |-> SumFunctionOnSet(Counts(others), others)]
  BY DEF Totals, SumFunction
<1>8. Counts(assets) = Worth(l, c, assets) /\ Counts(others) = Worth(l, c, others)
  <2> HIDE DEF Counts
  <2> QED BY <1>5
<1> HIDE DEF Counts, last, points
<1>9. History(l, c)[Max(DOMAIN History(l, c))] = Totals(l, Active(l), c, last)
  BY <1>6 DEF last
<1> HIDE DEF assets, others
<1> QED BY <1>1, <1>2, <1>7, <1>8, <1>9

(* The summary and the allocation chart, without foreign balances.         *)
LEMMA AllocationAgrees ==
    ASSUME NEW l \in [Ids -> Accounts \cup {Null}], NEW c \in Currencies,
           \A id \in Active(l) : \A d \in Currencies \ {l[id].currency} : Latest(l[id], d, Today) = Null
    PROVE  Allocation(l, c) = TotalAssets(List(l, c))
<1> DEFINE assets == {id \in Active(l) : IsAsset(l[id])}
           InAll(id) == [d \in Currencies |-> OrZero(Convert(Latest(l[id], d, Today), d, c, Today))]
           held == [id \in assets |-> SumFunctionOnSet(InAll(id), Currencies)]
<1>1. ASSUME NEW id \in assets PROVE held[id] = Worth(l, c, assets)[id]
  <2> DEFINE f == InAll(id)
             own == l[id].currency
  <2>1. id \in Active(l) /\ l[id] \in Accounts /\ own \in Currencies
    BY OwnIsAmount
  <2>2. \A d \in Currencies : Latest(l[id], d, Today) \in Int \cup {Null}
    BY <2>1, LatestIsAmount
  <2>3. \A d \in Currencies : f[d] \in Int
    <3>1. \A d \in Currencies : Convert(Latest(l[id], d, Today), d, c, Today) \in Int \cup {Null}
      BY <2>2, ConvertIsAmount, ApiAssumption
    <3> QED BY <3>1, OrZeroIsInt
  <2>4. \A d \in Currencies \ {own} : f[d] = 0
    BY <2>1 DEF Convert, OrZero
  <2>5. f[own] = Worth(l, c, assets)[id]
    BY <2>1 DEF Worth, Own
  <2>6. held[id] = SumFunctionOnSet(f, Currencies)
    OBVIOUS
  <2>7. Summable(f, Currencies)
    BY <2>3, NamesAssumption DEF Summable
  <2> HIDE DEF f, held, own
  <2> QED BY <2>1, <2>4, <2>5, <2>6, <2>7, SumOfOne
<1>2. Allocation(l, c) = SumFunctionOnSet(held, assets)
  BY DEF Allocation, SumFunction
<1> HIDE DEF held
<1>3. SumFunctionOnSet(held, assets) = SumFunctionOnSet(Worth(l, c, assets), assets)
  <2>1. Summable(Worth(l, c, assets), assets)
    BY WorthIsSummable
  <2> HIDE DEF assets
  <2> QED BY <1>1, <2>1, SumSame
<1>4. TotalAssets(List(l, c)) = SumFunctionOnSet(Worth(l, c, assets), assets)
  <2>1. Sum(RowsOf(l, c, assets)) = SumFunctionOnSet(Worth(l, c, assets), assets)
    BY RowsAddUp
  <2>2. {row \in List(l, c) : IsAsset(row)} = RowsOf(l, c, assets)
    BY AssetRows
  <2> HIDE DEF assets
  <2> QED BY <2>1, <2>2 DEF TotalAssets
<1> QED BY <1>2, <1>3, <1>4

-----------------------------------------------------------------------------
(* The tree of accounts                                                    *)

(* The parts of a name.                                                    *)
Part == STRING \cup {"Assets", "Liabilities"}

(* Rows as the server lists them: finitely many, each of its own name.     *)
Tidy(rows) ==
    /\ IsFiniteSet(rows) /\ ~Nested(rows)
    /\ \A row \in rows : /\ row.name \in Seq(Part) /\ Len(row.name) >= 1
                         /\ OrZero(row.shown) \in Int

LEMMA Starts ==
    ASSUME NEW s \in Seq(Part), NEW n \in 0..Len(s)
    PROVE  /\ SubSeq(s, 1, n) \in Seq(Part) /\ Len(SubSeq(s, 1, n)) = n
           /\ \A i \in 1..n : SubSeq(s, 1, n)[i] = s[i]
OBVIOUS

LEMMA PrefixAt ==
    ASSUME NEW s \in Seq(Part), NEW t \in Seq(Part)
    PROVE  IsPrefix(s, t) <=> Len(s) <= Len(t) /\ \A i \in 1..Len(s) : s[i] = t[i]
<1>1. SubSeq(s, 1, Len(s)) \in Seq(Part) /\ Len(SubSeq(s, 1, Len(s))) = Len(s)
      /\ \A i \in 1..Len(s) : SubSeq(s, 1, Len(s))[i] = s[i]
  BY Starts
<1>2. Len(s) <= Len(t) => /\ SubSeq(t, 1, Len(s)) \in Seq(Part) /\ Len(SubSeq(t, 1, Len(s))) = Len(s)
                          /\ \A i \in 1..Len(s) : SubSeq(t, 1, Len(s))[i] = t[i]
  BY Starts
<1> DEFINE a == SubSeq(s, 1, Len(s))
           b == SubSeq(t, 1, Len(s))
<1> HIDE DEF a, b
<1>3. a \in Seq(Part) /\ Len(a) = Len(s) /\ \A i \in 1..Len(s) : a[i] = s[i]
  BY <1>1 DEF a
<1>4. Len(s) <= Len(t) => b \in Seq(Part) /\ Len(b) = Len(s) /\ \A i \in 1..Len(s) : b[i] = t[i]
  BY <1>2 DEF b
<1>5. Len(s) <= Len(t) => (a = b <=> \A i \in 1..Len(s) : s[i] = t[i])
  <2> SUFFICES ASSUME Len(s) <= Len(t) PROVE a = b <=> \A i \in 1..Len(s) : s[i] = t[i]
    OBVIOUS
  <2>1. ASSUME \A i \in 1..Len(s) : s[i] = t[i] PROVE a = b
    <3>1. \A i \in 1..Len(s) : a[i] = b[i]
      BY <1>3, <1>4, <2>1
    <3>2. DOMAIN a = 1..Len(s) /\ DOMAIN b = 1..Len(s)
      BY <1>3, <1>4
    <3> QED BY <1>3, <1>4, <3>1, <3>2
  <2>2. ASSUME a = b PROVE \A i \in 1..Len(s) : s[i] = t[i]
    BY <1>3, <1>4, <2>2
  <2> QED BY <2>1, <2>2
<1> QED BY <1>5 DEF IsPrefix, a, b

(* A node is the start of a row's name, and every start is a node.         *)
LEMMA PathsAreStarts ==
    ASSUME NEW rows, Tidy(rows)
    PROVE  /\ \A path \in Paths(rows) :
                 /\ path \in Seq(Part) /\ Len(path) >= 1
                 /\ \E row \in rows : IsPrefix(path, row.name)
           /\ \A row \in rows : \A n \in 1..Len(row.name) :
                 SubSeq(row.name, 1, n) \in Paths(rows)
<1>1. ASSUME NEW path \in Paths(rows)
      PROVE  path \in Seq(Part) /\ Len(path) >= 1 /\ \E row \in rows : IsPrefix(path, row.name)
  <2>1. PICK row \in rows : \E n \in 1..Len(row.name) : path = SubSeq(row.name, 1, n)
    BY DEF Paths
  <2>2. PICK n \in 1..Len(row.name) : path = SubSeq(row.name, 1, n)
    BY <2>1
  <2>3. PICK name \in Seq(Part) : name = row.name /\ n \in 0..Len(name) /\ n >= 1
    BY DEF Tidy
  <2>4. path \in Seq(Part) /\ Len(path) = n /\ \A i \in 1..n : path[i] = name[i]
    BY <2>2, <2>3, Starts
  <2>5. IsPrefix(path, name)
    BY <2>3, <2>4, PrefixAt
  <2> QED BY <2>3, <2>4, <2>5
<1>2. \A row \in rows : \A n \in 1..Len(row.name) : SubSeq(row.name, 1, n) \in Paths(rows)
  BY DEF Paths
<1> QED BY <1>1, <1>2

LEMMA PathsAreFinite ==
    ASSUME NEW rows, Tidy(rows)
    PROVE  IsFiniteSet(Paths(rows))
<1> DEFINE Nodes(row) == {SubSeq(row.name, 1, n) : n \in 1..Len(row.name)}
           All == {Nodes(row) : row \in rows}
<1>1. ASSUME NEW row \in rows PROVE IsFiniteSet(Nodes(row))
  <2> DEFINE e == [n \in 1..Len(row.name) |-> SubSeq(row.name, 1, n)]
  <2>1. IsFiniteSet(1..Len(row.name))
    BY FS_Interval DEF Tidy
  <2>2. e \in Surjection(1..Len(row.name), Nodes(row))
    BY DEF Surjection
  <2> HIDE DEF e, Nodes
  <2> QED BY <2>1, <2>2, FS_Surjection
<1>2. IsFiniteSet(All)
  <2> DEFINE e == [row \in rows |-> Nodes(row)]
  <2> HIDE DEF Nodes
  <2>1. e \in Surjection(rows, All)
    BY DEF Surjection
  <2> HIDE DEF e, All
  <2> QED BY <2>1, FS_Surjection DEF Tidy
<1>3. IsFiniteSet(UNION All)
  <2>1. \A T \in All : IsFiniteSet(T)
    BY <1>1
  <2> HIDE DEF All
  <2> QED BY <1>2, <2>1, FS_UNION
<1>4. Paths(rows) = UNION All
  BY DEF Paths
<1> QED BY <1>3, <1>4

LEMMA NoneDeeper ==
    ASSUME NEW rows, Tidy(rows)
    PROVE  Deepest(rows) \in Nat /\ \A path \in Paths(rows) : Len(path) <= Deepest(rows)
<1> DEFINE lens == {Len(path) : path \in Paths(rows)}
<1>1. IsFiniteSet(lens)
  <2> DEFINE e == [path \in Paths(rows) |-> Len(path)]
  <2>1. e \in Surjection(Paths(rows), lens)
    BY DEF Surjection
  <2> HIDE DEF e, lens
  <2> QED BY <2>1, PathsAreFinite, FS_Surjection
<1>2. lens \in SUBSET Nat
  BY PathsAreStarts
<1> HIDE DEF lens
<1>3. IsFiniteSet({0} \cup lens) /\ {0} \cup lens \in SUBSET Nat /\ {0} \cup lens # {}
  <2>1. IsFiniteSet(lens \cup {0})
    BY <1>1, FS_AddElement
  <2>2. lens \cup {0} = {0} \cup lens
    OBVIOUS
  <2>3. {0} \cup lens \in SUBSET Nat /\ {0} \cup lens # {}
    BY <1>2
  <2> QED BY <2>1, <2>2, <2>3
<1> DEFINE all == {0} \cup lens
<1> HIDE DEF all
<1>5. IsFiniteSet(all) /\ all \in SUBSET Nat /\ all # {}
  BY <1>3 DEF all
<1>4. Max({0} \cup lens) \in Nat /\ \A n \in lens : n <= Max({0} \cup lens)
  <2>1. Max(all) \in all /\ \A n \in all : n <= Max(all)
    BY <1>5, Greatest
  <2> QED BY <1>5, <2>1 DEF all
<1> QED BY <1>4 DEF Deepest, lens

(* What the rows below a node are worth.                                   *)
Shown(rows) == [row \in rows |-> OrZero(row.shown)]
Below(rows, path) == {row \in rows : IsPrefix(path, row.name)}

LEMMA ShownIsSummable ==
    ASSUME NEW rows, Tidy(rows), NEW S \in SUBSET rows
    PROVE  Summable(Shown(rows), S) /\ Sum(S) = SumFunctionOnSet(Shown(rows), S)
<1>1. Summable(Shown(rows), rows)
  BY DEF Summable, Shown, Tidy
<1>2. Summable(Shown(rows), S)
  BY <1>1, Parts
<1> DEFINE f == Shown(rows)
           g == [row \in S |-> OrZero(row.shown)]
<1>3. \A x \in S : g[x] = f[x]
  BY DEF Shown
<1>4. Sum(S) = SumFunctionOnSet(g, S)
  BY DEF Sum, SumFunction
<1> HIDE DEF f, g
<1>5. SumFunctionOnSet(g, S) = SumFunctionOnSet(f, S)
  BY <1>2, <1>3, SumSame DEF f
<1> QED BY <1>2, <1>4, <1>5 DEF f

(* A node without an account: its children share out the rows below it.    *)
LEMMA ChildrenShare ==
    ASSUME NEW rows, Tidy(rows), NEW path \in Paths(rows),
           \A row \in rows : row.name # path
    PROVE  LET child == [row \in Below(rows, path) |-> SubSeq(row.name, 1, Len(path) + 1)]
           IN  /\ \A row \in Below(rows, path) : child[row] \in Children(rows, path)
               /\ \A k \in Children(rows, path) :
                     {row \in Below(rows, path) : child[row] = k} = Below(rows, k)
<1> DEFINE child == [row \in Below(rows, path) |-> SubSeq(row.name, 1, Len(path) + 1)]
<1>1. path \in Seq(Part) /\ Len(path) \in Nat /\ Len(path) >= 1
  BY PathsAreStarts
<1>2. ASSUME NEW row \in Below(rows, path)
      PROVE  /\ child[row] \in Children(rows, path)
             /\ child[row] \in Seq(Part) /\ Len(child[row]) = Len(path) + 1
             /\ IsPrefix(child[row], row.name)
  <2>1. PICK name \in Seq(Part) : name = row.name
    BY DEF Below, Tidy
  <2>2. Len(path) <= Len(name) /\ \A i \in 1..Len(path) : path[i] = name[i]
    BY <1>1, <2>1, PrefixAt DEF Below
  <2>3. Len(path) # Len(name)
    <3>1. name # path
      BY <2>1 DEF Below
    <3>2. Len(path) = Len(name) => path = name
      BY <1>1, <2>2
    <3> QED BY <3>1, <3>2
  <2>4. Len(path) + 1 \in 0..Len(name) /\ Len(path) + 1 \in 1..Len(name)
    BY <1>1, <2>2, <2>3
  <2> DEFINE c == SubSeq(name, 1, Len(path) + 1)
  <2>5. c \in Seq(Part) /\ Len(c) = Len(path) + 1 /\ \A i \in 1..(Len(path) + 1) : c[i] = name[i]
    BY <2>4, Starts
  <2>6. c \in Paths(rows)
    BY <2>1, <2>4, PathsAreStarts DEF Below
  <2>7. child[row] = c
    BY <2>1
  <2> HIDE DEF c, child
  <2>8. IsPrefix(path, c) /\ IsPrefix(c, name)
    BY <1>1, <2>2, <2>4, <2>5, PrefixAt
  <2> QED BY <2>1, <2>5, <2>6, <2>7, <2>8 DEF Children
<1>3. ASSUME NEW k \in Children(rows, path), NEW row \in rows
      PROVE  row \in Below(rows, k) <=> row \in Below(rows, path) /\ child[row] = k
  <2>1. k \in Seq(Part) /\ Len(k) = Len(path) + 1 /\ IsPrefix(path, k)
    BY PathsAreStarts DEF Children
  <2>2. PICK name \in Seq(Part) : name = row.name
    BY DEF Tidy
  <2>3. ASSUME row \in Below(rows, k) PROVE row \in Below(rows, path) /\ child[row] = k
    <3>1. IsPrefix(k, name)
      BY <2>2, <2>3 DEF Below
    <3>2. IsPrefix(path, name)
      BY <1>1, <2>1, <2>2, <3>1, PrefixAt
    <3>3. row \in Below(rows, path)
      BY <2>2, <3>2 DEF Below
    <3>4. IsPrefix(child[row], name) /\ child[row] \in Seq(Part) /\ Len(child[row]) = Len(k)
      BY <1>2, <2>1, <2>2, <3>3
    <3> HIDE DEF child
    <3>5. \A i \in 1..Len(k) : child[row][i] = name[i] /\ k[i] = name[i]
      BY <2>1, <2>2, <3>1, <3>4, PrefixAt
    <3>6. child[row] = k
      BY <2>1, <3>4, <3>5
    <3> QED BY <3>3, <3>6
  <2>4. ASSUME row \in Below(rows, path), child[row] = k PROVE row \in Below(rows, k)
    BY <1>2, <2>4 DEF Below
  <2> QED BY <2>3, <2>4
<1>4. \A k \in Children(rows, path) : {row \in Below(rows, path) : child[row] = k} = Below(rows, k)
  <2> HIDE DEF child
  <2> QED BY <1>3 DEF Below
<1> QED BY <1>2, <1>4

(* The total of one node, from the right totals of its children.           *)
LEMMA NodeAddsUp ==
    ASSUME NEW rows, Tidy(rows), NEW path \in Paths(rows), NEW below,
           \A k \in Children(rows, path) : below[k] = SumFunctionOnSet(Shown(rows), Below(rows, k)),
           NEW depth, Len(path) > depth
    PROVE  NodeTotals(rows, depth, below)[path] = SumFunctionOnSet(Shown(rows), Below(rows, path))
<1> DEFINE own == {row \in rows : row.name = path}
           sums == [k \in Children(rows, path) |-> below[k]]
           child == [row \in Below(rows, path) |-> SubSeq(row.name, 1, Len(path) + 1)]
           f == Shown(rows)
<1>1. NodeTotals(rows, depth, below)[path] = IF own # {} THEN Sum(own) ELSE SumFunction(sums)
  BY DEF NodeTotals
<1>2. Below(rows, path) \in SUBSET rows
  BY DEF Below
<1>3. CASE own # {}
  <2>1. PICK r \in rows : r.name = path
    BY <1>3
  <2>2. path \in Seq(Part)
    BY PathsAreStarts
  <2>3. \A row \in rows : row.name = path => IsPrefix(path, row.name)
    BY <2>2, PrefixAt
  <2>4. \A row \in rows : IsPrefix(path, row.name) => row = r
    BY <2>1 DEF Tidy, Nested
  <2>5. own = Below(rows, path)
    BY <2>1, <2>3, <2>4 DEF Below
  <2> HIDE DEF own
  <2> QED BY <1>1, <1>2, <1>3, <2>5, ShownIsSummable
<1>4. CASE own = {}
  <2>1. \A row \in rows : row.name # path
    BY <1>4
  <2>2. /\ \A row \in Below(rows, path) : child[row] \in Children(rows, path)
        /\ \A k \in Children(rows, path) : {row \in Below(rows, path) : child[row] = k} = Below(rows, k)
    BY <2>1, ChildrenShare
  <2>3. IsFiniteSet(Children(rows, path))
    BY PathsAreFinite, FS_Subset DEF Children
  <2>4. Summable(f, Below(rows, path))
    BY <1>2, ShownIsSummable
  <2>5. SumFunction(sums) = SumFunctionOnSet(sums, Children(rows, path))
    BY DEF SumFunction
  <2>6. \A k \in Children(rows, path) : sums[k] = SumFunctionOnSet(f, {row \in Below(rows, path) : child[row] = k})
    BY <2>2
  <2> HIDE DEF sums, child, f, own
  <2> DEFINE S == Below(rows, path)
             K == Children(rows, path)
  <2>8. /\ \A x \in S : child[x] \in K
        /\ \A k \in K : sums[k] = SumFunctionOnSet(f, {x \in S : child[x] = k})
    BY <2>2, <2>6
  <2>9. Summable(f, S) /\ IsFiniteSet(K)
    BY <2>3, <2>4
  <2>7. SumFunctionOnSet(f, S) = SumFunctionOnSet(sums, K)
    <3> HIDE DEF S, K
    <3>1. Bundled(f, S, child, sums, K)
      BY <2>8, <2>9 DEF Bundled
    <3> QED BY <3>1, SumOfSums
  <2> QED BY <1>1, <1>4, <2>5, <2>7 DEF f
<1> QED BY <1>3, <1>4

(* The totals from the deepest nodes upwards exist: each depth uses only   *)
(* the one below it.                                                       *)
Leaf == [path \in {} |-> 0]
Upwards(rows, deepest, t) ==
    t = [height \in 0..deepest |->
           IF height = 0 THEN Leaf ELSE NodeTotals(rows, deepest - height, t[height - 1])]

LEMMA TotalsExist ==
    ASSUME NEW rows, NEW deepest \in Nat
    PROVE  \E t : Upwards(rows, deepest, t)
<1> DEFINE Solved(t, n) == \A h \in 0..deepest : h <= n =>
               t[h] = IF h = 0 THEN Leaf ELSE NodeTotals(rows, deepest - h, t[h - 1])
           Good == {n \in Nat : \E t : t = [h \in 0..deepest |-> t[h]] /\ Solved(t, n)}
<1> HIDE DEF Leaf
<1>1. 0 \in Good
  <2> DEFINE t == [h \in 0..deepest |-> Leaf]
  <2>1. t = [h \in 0..deepest |-> t[h]] /\ Solved(t, 0)
    OBVIOUS
  <2> HIDE DEF t, Solved
  <2> QED BY <2>1
<1>2. ASSUME NEW n \in Nat, n \in Good PROVE n + 1 \in Good
  <2>1. PICK t : t = [h \in 0..deepest |-> t[h]] /\ Solved(t, n)
    BY <1>2
  <2> DEFINE u == [h \in 0..deepest |->
                     IF h <= n THEN t[h]
                     ELSE IF h = 0 THEN Leaf ELSE NodeTotals(rows, deepest - h, t[h - 1])]
  <2>2. u = [h \in 0..deepest |-> u[h]]
    OBVIOUS
  <2>3. ASSUME NEW h \in 0..deepest, h <= n + 1
        PROVE  u[h] = IF h = 0 THEN Leaf ELSE NodeTotals(rows, deepest - h, u[h - 1])
    <3>1. u[h] = IF h = 0 THEN Leaf ELSE NodeTotals(rows, deepest - h, t[h - 1])
      BY <2>1
    <3>2. h # 0 => u[h - 1] = t[h - 1]
      BY <2>3
    <3> HIDE DEF u
    <3> QED BY <3>1, <3>2
  <2>4. Solved(u, n + 1)
    BY <2>3
  <2> HIDE DEF u, Solved
  <2> QED BY <2>2, <2>4
<1>3. deepest \in Good
  <2> HIDE DEF Good
  <2> QED BY <1>1, <1>2, Induction
<1>4. PICK t : t = [h \in 0..deepest |-> t[h]] /\ Solved(t, deepest)
  BY <1>3
<1>5. \A h \in 0..deepest : t[h] = IF h = 0 THEN Leaf ELSE NodeTotals(rows, deepest - h, t[h - 1])
  BY <1>4
<1> DEFINE v == [h \in 0..deepest |-> IF h = 0 THEN Leaf ELSE NodeTotals(rows, deepest - h, t[h - 1])]
<1>6. t = v
  <2>1. \A h \in 0..deepest : t[h] = v[h]
    BY <1>5
  <2>2. v = [h \in 0..deepest |-> v[h]]
    OBVIOUS
  <2> HIDE DEF v
  <2> QED BY <1>4, <2>1, <2>2
<1> QED BY <1>6 DEF Upwards

LEMMA TotalsAddUp ==
    ASSUME NEW rows, Tidy(rows), NEW t, Upwards(rows, Deepest(rows), t)
    PROVE  \A path \in Paths(rows) :
             t[Deepest(rows)][path] = SumFunctionOnSet(Shown(rows), Below(rows, path))
<1> DEFINE D == Deepest(rows)
           Good == {n \in Nat : n <= D => \A path \in Paths(rows) :
                       Len(path) > D - n => t[n][path] = SumFunctionOnSet(Shown(rows), Below(rows, path))}
<1>0. D \in Nat /\ \A path \in Paths(rows) : Len(path) \in Nat /\ Len(path) >= 1 /\ Len(path) <= D
  BY NoneDeeper, PathsAreStarts
<1>a. \A h \in 0..D : h # 0 => t[h] = NodeTotals(rows, D - h, t[h - 1])
  <2> HIDE DEF D
  <2> QED BY DEF Upwards, D
<1> HIDE DEF D
<1>1. 0 \in Good
  BY <1>0
<1>2. ASSUME NEW n \in Nat, n \in Good PROVE n + 1 \in Good
  <2> SUFFICES ASSUME n + 1 <= D, NEW path \in Paths(rows), Len(path) > D - (n + 1)
               PROVE  t[n + 1][path] = SumFunctionOnSet(Shown(rows), Below(rows, path))
    OBVIOUS
  <2>1. \A k \in Children(rows, path) : t[n][k] = SumFunctionOnSet(Shown(rows), Below(rows, k))
    BY <1>0, <1>2 DEF Children
  <2>2. t[n + 1] = NodeTotals(rows, D - (n + 1), t[n])
    <3>1. n + 1 \in 0..D /\ n + 1 # 0 /\ (n + 1) - 1 = n
      BY <1>0
    <3> QED BY <1>a, <3>1
  <2> DEFINE below == t[n]
             depth == D - (n + 1)
  <2> HIDE DEF below, depth
  <2>3. NodeTotals(rows, depth, below)[path] = SumFunctionOnSet(Shown(rows), Below(rows, path))
    BY <2>1, NodeAddsUp DEF below, depth
  <2> QED BY <2>2, <2>3 DEF below, depth
<1>3. D \in Good
  <2> HIDE DEF Good
  <2> QED BY <1>0, <1>1, <1>2, Induction
<1> QED BY <1>0, <1>3 DEF D

LEMMA Singleton ==
    \A S : \A x \in S : <<x>> \in Seq(S) /\ Len(<<x>>) = 1 /\ <<x>>[1] = x
OBVIOUS

(* The total of a root is what the rows under it are worth.                *)
LEMMA RootAddsUp ==
    ASSUME NEW rows, Tidy(rows), NEW root \in Part
    PROVE  NodeTotal(rows, root) = Sum({row \in rows : Head(row.name) = root})
<1> DEFINE mine == {row \in rows : Head(row.name) = root}
           D == Deepest(rows)
           total == CHOOSE t : t = [height \in 0..D |->
                      IF height = 0 THEN [path \in {} |-> 0] ELSE NodeTotals(rows, D - height, t[height - 1])]
<1>1. Upwards(rows, D, total)
  <2>1. D \in Nat
    BY NoneDeeper
  <2>2. \E t : Upwards(rows, D, t)
    BY <2>1, TotalsExist
  <2> HIDE DEF D
  <2> QED BY <2>2 DEF Upwards, Leaf
<1>2. NodeTotal(rows, root) = IF <<root>> \in Paths(rows) THEN total[D][<<root>>] ELSE 0
  BY DEF NodeTotal
<1> HIDE DEF total
<1>3. <<root>> \in Seq(Part) /\ Len(<<root>>) = 1 /\ <<root>>[1] = root
  BY Singleton
<1>4. ASSUME NEW row \in rows
      PROVE  /\ Head(row.name) = root <=> IsPrefix(<<root>>, row.name)
             /\ Head(row.name) = root => <<root>> \in Paths(rows)
  <2>1. PICK name \in Seq(Part) : name = row.name /\ Len(name) >= 1
    BY DEF Tidy
  <2>2. Head(name) = name[1]
    BY <2>1
  <2> DEFINE first == <<root>>
  <2> HIDE DEF first
  <2>3. first \in Seq(Part) /\ Len(first) = 1 /\ first[1] = root
    BY <1>3 DEF first
  <2>8. IsPrefix(first, name) <=> Len(first) <= Len(name) /\ \A i \in 1..Len(first) : first[i] = name[i]
    BY <2>3, PrefixAt
  <2>4. IsPrefix(first, name) <=> first[1] = name[1]
    BY <2>1, <2>3, <2>8
  <2>5. SubSeq(name, 1, 1) \in Paths(rows)
    BY <2>1, PathsAreStarts
  <2> DEFINE s == SubSeq(name, 1, 1)
  <2>6. s \in Seq(Part) /\ Len(s) = 1 /\ s[1] = name[1]
    BY <2>1, Starts
  <2> HIDE DEF s
  <2>7. name[1] = root => s = first
    <3> SUFFICES ASSUME name[1] = root PROVE s = first
      OBVIOUS
    <3>4. s[1] = first[1]
      BY <2>3, <2>6
    <3>1. \A i \in 1..1 : s[i] = first[i]
      <4>1. \A i \in 1..1 : i = 1
        OBVIOUS
      <4> QED BY <3>4, <4>1
    <3>2. DOMAIN s = 1..1 /\ DOMAIN first = 1..1
      BY <2>3, <2>6
    <3>3. s = [i \in DOMAIN s |-> s[i]] /\ first = [i \in DOMAIN first |-> first[i]]
      BY <2>3, <2>6
    <3> QED BY <3>1, <3>2, <3>3
  <2> QED BY <2>1, <2>2, <2>3, <2>4, <2>5, <2>7 DEF first, s
<1>5. mine = Below(rows, <<root>>)
  BY <1>4 DEF Below
<1>6. Sum(mine) = SumFunctionOnSet(Shown(rows), mine)
  BY ShownIsSummable
<1>7. CASE <<root>> \in Paths(rows)
  BY <1>1, <1>2, <1>5, <1>6, <1>7, TotalsAddUp
<1>8. CASE <<root>> \notin Paths(rows)
  <2>1. mine = {}
    BY <1>4, <1>8
  <2>2. Sum(mine) = 0
    <3> HIDE DEF mine
    <3> QED BY <1>6, <2>1, SumOfNone
  <2> QED BY <1>2, <1>8, <2>2
<1> QED BY <1>7, <1>8

-----------------------------------------------------------------------------
(* The page and the ledger                                                 *)

(* The accounts that rows, dialogs and saves speak of exist.               *)
Exists(l, id) == id \in Ids /\ l[id] # Null

Listed(l, rows) == \A row \in rows : Exists(l, row.id)

Found(l, dialog) == dialog.editing # Null => Exists(l, dialog.editing)

(* A save knows its account once the first request has been answered.      *)
SoundOp(l, op) ==
    /\ Found(l, op.dialog)
    /\ op.target # Null => Exists(l, op.target)
    /\ op.stage # "account" => op.target # Null

Existence ==
    /\ Listed(ledger, accounts.rows)
    /\ \A i \in 1..Len(fetches) : Listed(ledger, fetches[i].rows)
    /\ form # Null => Found(ledger, form)
    /\ \A op \in ops : SoundOp(ledger, op)

(* One thing at a time, in the currency that is selected, as long as the   *)
(* visitor waits for answers.                                              *)
OneAtATime ==
    /\ \A a, b \in ops : a = b
    /\ \A op \in ops : op.currency = selected
    /\ Len(fetches) <= 1
    /\ ops # {} => fetches = <<>>

(* A load under way will answer what the ledger holds; without one, and    *)
(* without a save under way, the page shows it already.                    *)
Fresh ==
    /\ \A i \in DOMAIN fetches :
         fetches[i] = [currency |-> selected, rows |-> List(ledger, selected)]
    /\ ops = {} /\ fetches = <<>> /\ ~error =>
         /\ accounts = [currency |-> selected, rows |-> List(ledger, selected)]
         /\ charts.state \in {"asking", "shown"} =>
              charts = [AskCharts(selected) EXCEPT !.state = charts.state]

Current == ~hasty => OneAtATime /\ (~unseen => Fresh)

IInv == TypeOK /\ Existence /\ Current
-----------------------------------------------------------------------------
USE ApiAssumption, DashboardAssumption, DialogAssumption

LEMMA LeastOfNaturals ==
    ASSUME NEW S \in SUBSET Nat, S # {}
    PROVE  Min(S) \in S
<1> DEFINE R == OpToRel(<, Nat)
<1>1. \A m, n \in Nat : m < n => <<m, n>> \in R
  BY DEF OpToRel
<1> HIDE DEF R
<1>2. IsWellFoundedOn(R, Nat)
  BY NatLessThanWellFounded, Zenon DEF R
<1>3. PICK x \in S : \A y \in S : ~(<<y, x>> \in R)
  BY <1>2, WFMin
<1>4. ASSUME NEW y \in S PROVE x =< y
  <2>1. x \in Nat /\ y \in Nat /\ ~(y < x)
    BY <1>1, <1>3
  <2> QED BY <2>1
<1> QED BY <1>4 DEF Min

(* A sequence r of one element less than s, all of them elements of s.     *)
Shorter(T, s, r) ==
    /\ r \in Seq(T) /\ Len(r) = Len(s) - 1
    /\ \A j \in 1..Len(r) : \E k \in 1..Len(s) : r[j] = s[k]

LEMMA Removed ==
    ASSUME NEW T, NEW s \in Seq(T), NEW i \in DOMAIN s
    PROVE  Shorter(T, s, RemoveAt(s, i))
<1> DEFINE a == SubSeq(s, 1, i - 1)
           b == SubSeq(s, i + 1, Len(s))
<1>1. i \in 1..Len(s)
  OBVIOUS
<1>2. a \in Seq(T) /\ Len(a) = i - 1 /\ \A j \in 1..(i - 1) : a[j] = s[j]
  BY <1>1
<1>3. b \in Seq(T) /\ Len(b) = Len(s) - i /\ \A j \in 1..(Len(s) - i) : b[j] = s[i + j]
  BY <1>1
<1> HIDE DEF a, b
<1>4. a \o b \in Seq(T) /\ Len(a \o b) = Len(s) - 1
  BY <1>1, <1>2, <1>3
<1>5. \A j \in 1..(Len(s) - 1) : (a \o b)[j] = IF j < i THEN s[j] ELSE s[j + 1]
  BY <1>1, <1>2, <1>3
<1>6. RemoveAt(s, i) = a \o b
  BY DEF RemoveAt, a, b
<1>7. ASSUME NEW j \in 1..(Len(s) - 1) PROVE \E k \in 1..Len(s) : (a \o b)[j] = s[k]
  <2>1. j \in 1..Len(s) /\ j + 1 \in 1..Len(s)
    BY <1>1
  <2> QED BY <1>5, <2>1
<1>8. PICK r : r = a \o b
  OBVIOUS
<1>9. /\ r \in Seq(T) /\ Len(r) = Len(s) - 1
      /\ \A j \in 1..(Len(s) - 1) : \E k \in 1..Len(s) : r[j] = s[k]
  BY <1>4, <1>7, <1>8
<1>10. Shorter(T, s, r)
  BY <1>9 DEF Shorter
<1> QED BY <1>6, <1>8, <1>10
-----------------------------------------------------------------------------
(* The ledger: its accounts have types and names of their own.             *)
GoodLedger(l) ==
    /\ l \in [Ids -> Accounts \cup {Null}]
    /\ \A a, b \in Ids : a # b /\ l[a] # Null /\ l[b] # Null => l[a].name # l[b].name

Keeps(l, m) == \A id \in Ids : l[id] # Null => m[id] # Null

LEMMA Listing ==
    \A l \in [Ids -> Accounts \cup {Null}], c \in Currencies :
        List(l, c) \in SUBSET Rows /\ Listed(l, List(l, c))
<1> SUFFICES ASSUME NEW l \in [Ids -> Accounts \cup {Null}], NEW c \in Currencies,
                    NEW row \in List(l, c)
             PROVE  row \in Rows /\ row.id \in Ids /\ l[row.id] # Null
  BY DEF Listed, Exists
<1>1. PICK id \in Active(l) :
        row = [id |-> id, name |-> l[id].name, currency |-> l[id].currency,
               balance |-> Own(l[id]), shown |-> Convert(Own(l[id]), l[id].currency, c, Today)]
  BY DEF List
<1>2. id \in Ids /\ l[id] # Null /\ l[id] \in Accounts
  BY DEF Active
<1>3. l[id].name \in Names /\ l[id].currency \in Currencies /\ Own(l[id]) \in Int \cup {Null}
  BY OwnIsAmount
<1>4. \A amount \in Int \cup {Null}, from, to \in Currencies :
        Convert(amount, from, to, Today) \in Int \cup {Null}
  BY ConvertIsAmount
<1>5. row \in Rows
  BY <1>1, <1>2, <1>3, <1>4 DEF Rows
<1> QED BY <1>1, <1>2, <1>5

LEMMA Created ==
    ASSUME NEW l, GoodLedger(l), NEW id \in Ids, l[id] = Null,
           NEW name \in Names, NEW currency \in Currencies, ~Taken(l, name, Null)
    PROVE  /\ GoodLedger(Create(l, id, name, currency)) /\ Keeps(l, Create(l, id, name, currency))
           /\ Create(l, id, name, currency)[id] # Null
<1>1. Account(name, currency) \in Accounts /\ Account(name, currency).name = name
  BY DEF Account, Accounts
<1>2. \A other \in Ids : l[other] # Null => l[other].name # name
  BY DEF Taken
<1> QED BY <1>1, <1>2 DEF Create, GoodLedger, Keeps

(* Writing another account in the place of one, under the same name or one *)
(* that is free.                                                           *)
LEMMA Replaced ==
    ASSUME NEW l, GoodLedger(l), NEW id \in Ids, l[id] # Null, NEW a \in Accounts,
           \A other \in Ids \ {id} : l[other] # Null => l[other].name # a.name
    PROVE  GoodLedger([l EXCEPT ![id] = a]) /\ Keeps(l, [l EXCEPT ![id] = a])
BY DEF GoodLedger, Keeps

LEMMA Renamed ==
    ASSUME NEW l, GoodLedger(l), NEW id \in Ids, l[id] # Null,
           NEW name \in Names, ~Taken(l, name, id)
    PROVE  GoodLedger(Rename(l, id, name)) /\ Keeps(l, Rename(l, id, name))
<1> DEFINE a == [l[id] EXCEPT !.name = name]
<1>1. l[id] \in Accounts
  BY DEF GoodLedger
<1>2. a \in Accounts /\ a.name = name
  BY <1>1 DEF Accounts
<1>3. Rename(l, id, name) = [l EXCEPT ![id] = a]
  BY DEF Rename
<1> HIDE DEF a
<1>4. \A other \in Ids \ {id} : l[other] # Null => l[other].name # a.name
  BY <1>2 DEF Taken
<1>5. GoodLedger([l EXCEPT ![id] = a]) /\ Keeps(l, [l EXCEPT ![id] = a])
  BY <1>2, <1>4, Replaced
<1> QED BY <1>3, <1>5

LEMMA BalanceWritten ==
    ASSUME NEW l, GoodLedger(l), NEW id \in Ids, l[id] # Null,
           NEW currency \in Currencies, NEW day \in Days, NEW amount \in Int \cup {Null}
    PROVE  /\ GoodLedger(SetBalance(l, id, currency, day, amount))
           /\ Keeps(l, SetBalance(l, id, currency, day, amount))
<1> DEFINE a == [l[id] EXCEPT !.balance[currency][day] = amount]
<1>1. l[id] \in Accounts
  BY DEF GoodLedger
<1>2. a \in Accounts /\ a.name = l[id].name
  BY <1>1 DEF Accounts
<1>3. SetBalance(l, id, currency, day, amount) = [l EXCEPT ![id] = a]
  BY DEF SetBalance
<1> HIDE DEF a
<1>4. \A other \in Ids \ {id} : l[other] # Null => l[other].name # a.name
  BY <1>2 DEF GoodLedger
<1>5. GoodLedger([l EXCEPT ![id] = a]) /\ Keeps(l, [l EXCEPT ![id] = a])
  BY <1>2, <1>4, Replaced
<1> QED BY <1>3, <1>5

LEMMA Closed ==
    ASSUME NEW l, GoodLedger(l), NEW id \in Ids, l[id] # Null
    PROVE  GoodLedger(Close(l, id)) /\ Keeps(l, Close(l, id))
<1> DEFINE a == [l[id] EXCEPT !.active = FALSE]
<1>1. l[id] \in Accounts
  BY DEF GoodLedger
<1>2. a \in Accounts /\ a.name = l[id].name
  BY <1>1 DEF Accounts
<1>3. Close(l, id) = [l EXCEPT ![id] = a]
  BY DEF Close
<1> HIDE DEF a
<1>4. \A other \in Ids \ {id} : l[other] # Null => l[other].name # a.name
  BY <1>2 DEF GoodLedger
<1>5. GoodLedger([l EXCEPT ![id] = a]) /\ Keeps(l, [l EXCEPT ![id] = a])
  BY <1>2, <1>4, Replaced
<1> QED BY <1>3, <1>5
-----------------------------------------------------------------------------
(* What exists in a ledger exists in one that keeps its accounts.          *)
LEMMA StillThere ==
    ASSUME IInv, Keeps(ledger, ledger')
    PROVE  /\ Listed(ledger', accounts.rows)
           /\ \A i \in 1..Len(fetches) : Listed(ledger', fetches[i].rows)
           /\ form # Null => Found(ledger', form)
           /\ \A op \in ops : SoundOp(ledger', op)
<1>1. \A id : Exists(ledger, id) => Exists(ledger', id)
  BY DEF Keeps, Exists
<1>2. \A rows : Listed(ledger, rows) => Listed(ledger', rows)
  BY <1>1 DEF Listed
<1>3. \A dialog : Found(ledger, dialog) => Found(ledger', dialog)
  BY <1>1 DEF Found
<1>4. \A op : SoundOp(ledger, op) => SoundOp(ledger', op)
  BY <1>1, <1>3 DEF SoundOp
<1> QED BY <1>2, <1>3, <1>4, Zenon DEF IInv, Existence

LEMMA Unwritten ==
    ASSUME IInv, UNCHANGED ledger
    PROVE  GoodLedger(ledger') /\ Keeps(ledger, ledger')
BY DEF IInv, TypeOK, GoodLedger, Keeps

(* A load that starts is the last under way.                               *)
LEMMA LoadStarts ==
    ASSUME IInv, GoodLedger(ledger'), Keeps(ledger, ledger'), NEW c \in Currencies, StartLoad(c)
    PROVE  /\ fetches' \in Seq(Loads) /\ fetches' # <<>>
           /\ Len(fetches') = Len(fetches) + 1
           /\ fetches'[Len(fetches')] = [currency |-> c, rows |-> List(ledger', c)]
           /\ \A i \in 1..Len(fetches') : Listed(ledger', fetches'[i].rows)
<1> DEFINE f == [currency |-> c, rows |-> List(ledger', c)]
<1>1. List(ledger', c) \in SUBSET Rows /\ Listed(ledger', List(ledger', c))
  BY Listing DEF GoodLedger
<1>2. f \in Loads
  BY <1>1 DEF Loads
<1>3. fetches' = Append(fetches, f) /\ fetches \in Seq(Loads)
  BY DEF StartLoad, IInv, TypeOK
<1>4. \A i \in 1..Len(fetches) : Listed(ledger', fetches[i].rows)
  BY StillThere
<1>5. f.rows = List(ledger', c)
  OBVIOUS
<1> HIDE DEF f
<1>6. /\ fetches' \in Seq(Loads) /\ fetches' # <<>> /\ Len(fetches') = Len(fetches) + 1
      /\ fetches'[Len(fetches')] = f
      /\ \A i \in 1..Len(fetches) : fetches'[i] = fetches[i]
  BY <1>2, <1>3
<1>7. ASSUME NEW i \in 1..Len(fetches') PROVE Listed(ledger', fetches'[i].rows)
  <2>1. CASE i = Len(fetches')
    BY <2>1, <1>1, <1>5, <1>6
  <2>2. CASE i # Len(fetches')
    <3>1. i \in 1..Len(fetches)
      BY <2>2, <1>3, <1>6
    <3> QED BY <3>1, <1>4, <1>6
  <2> QED BY <2>1, <2>2
<1> QED BY <1>6, <1>7 DEF f

(* A load that starts when nothing else is under way, in the currency that *)
(* is selected, leaves everything current.                                 *)
LEMMA CurrentAfterLoad ==
    ASSUME IInv, GoodLedger(ledger'), Keeps(ledger, ledger'), NEW c \in Currencies, StartLoad(c),
           ~hasty' => c = selected' /\ fetches = <<>> /\ ops' = {}
    PROVE  Current'
<1> SUFFICES ASSUME ~hasty' PROVE OneAtATime' /\ Fresh'
  BY DEF Current
<1>1. Len(fetches') = 1 /\ fetches'[1] = [currency |-> selected', rows |-> List(ledger', selected')]
  BY LoadStarts
<1>2. fetches' # <<>> /\ fetches' \in Seq(Loads)
  BY LoadStarts, Zenon
<1>3. OneAtATime'
  BY <1>1, <1>2 DEF OneAtATime
<1>4. DOMAIN fetches' = {1}
  <2>1. \A s \in Seq(Loads) : Len(s) = 1 => DOMAIN s = {1}
    OBVIOUS
  <2> QED BY <1>1, <1>2, <2>1, Zenon
<1>5. Fresh'
  BY <1>1, <1>2, <1>4, Zenon DEF Fresh
<1> QED BY <1>3, <1>5

(* The rest of the invariant after a load has started.                     *)
LEMMA TypesAfterLoad ==
    ASSUME IInv, GoodLedger(ledger'), Keeps(ledger, ledger'), NEW c \in Currencies, StartLoad(c),
           selected' \in Currencies, UNCHANGED accounts,
           hasty' \in BOOLEAN, acts' \in 0..MaxActs,
           form' \in {form, Null}, ops' \subseteq ops
    PROVE  TypeOK' /\ Existence'
<1>1. fetches' \in Seq(Loads) /\ fetches' # <<>> /\ \A i \in 1..Len(fetches') : Listed(ledger', fetches'[i].rows)
  BY LoadStarts
<1>2. loading' = TRUE /\ error' = FALSE /\ charts' = Absent /\ unseen' = FALSE
  BY DEF StartLoad
<1>3. TypeOK'
  BY <1>1, <1>2 DEF IInv, TypeOK, GoodLedger
<1>4. Existence'
  BY <1>1, StillThere DEF Existence
<1> QED BY <1>3, <1>4

LEMMA InvInit == Init => IInv
<1> SUFFICES ASSUME Init PROVE IInv
  OBVIOUS
<1> USE DEF Init
<1>1. GoodLedger(ledger)
  BY DEF GoodLedger
<1>2. List(ledger, "INR") \in SUBSET Rows /\ Listed(ledger, List(ledger, "INR"))
  BY <1>1, Listing DEF GoodLedger
<1>3. fetches[1] = [currency |-> "INR", rows |-> List(ledger, "INR")] /\ DOMAIN fetches = {1} /\ Len(fetches) = 1
  OBVIOUS
<1>4. [currency |-> "INR", rows |-> List(ledger, "INR")] \in Loads /\ accounts \in Loads
  BY <1>2 DEF Loads
<1>5. fetches \in Seq(Loads) /\ fetches # <<>>
  BY <1>4
<1>6. TypeOK
  <2>1. acts \in 0..MaxActs /\ form \in Dialogs \cup {Null} /\ ops \subseteq Saves /\ selected \in Currencies
    OBVIOUS
  <2>2. charts = Absent /\ error \in BOOLEAN /\ loading \in BOOLEAN /\ unseen \in BOOLEAN /\ hasty \in BOOLEAN
    OBVIOUS
  <2> HIDE DEF Init
  <2> QED BY <1>1, <1>4, <1>5, <2>1, <2>2, Zenon DEF TypeOK, GoodLedger
<1>7. Existence
  BY <1>2, <1>3 DEF Existence, Listed
<1>8. Current
  BY <1>3, <1>5 DEF Current, OneAtATime, Fresh
<1> QED BY <1>6, <1>7, <1>8 DEF IInv
-----------------------------------------------------------------------------
(* One lemma per action.                                                   *)

LEMMA SelectCurrencyStep == ASSUME IInv, SelectCurrency PROVE IInv'
<1>1. GoodLedger(ledger') /\ Keeps(ledger, ledger') /\ selected' \in Currencies /\ StartLoad(selected')
  BY Unwritten DEF SelectCurrency
<1>2. TypeOK' /\ Existence'
  <2>1. hasty' \in BOOLEAN /\ acts' \in 0..MaxActs
    BY DEF SelectCurrency, Act, IInv, TypeOK, Waiting
  <2>2. form' \in {form, Null} /\ ops' \subseteq ops /\ UNCHANGED accounts
    BY DEF SelectCurrency
  <2> QED BY <1>1, <2>1, <2>2, TypesAfterLoad
<1>3. ~hasty' => fetches = <<>> /\ ops' = {}
  BY DEF SelectCurrency, Waiting
<1>4. Current'
  BY <1>1, <1>3, CurrentAfterLoad
<1> QED BY <1>2, <1>4 DEF IInv

LEMMA OnImportedStep == ASSUME IInv, OnImported PROVE IInv'
<1>1. GoodLedger(ledger') /\ Keeps(ledger, ledger') /\ selected' \in Currencies /\ StartLoad(selected')
  BY Unwritten DEF OnImported, StartLoad, IInv, TypeOK
<1>2. TypeOK' /\ Existence'
  <2>1. hasty' \in BOOLEAN /\ acts' \in 0..MaxActs
    BY DEF OnImported, Act, IInv, TypeOK, Waiting
  <2>2. form' \in {form, Null} /\ ops' \subseteq ops /\ UNCHANGED accounts
    BY DEF OnImported
  <2> QED BY <1>1, <2>1, <2>2, TypesAfterLoad
<1>3. ~hasty' => fetches = <<>> /\ ops' = {}
  BY DEF OnImported, Waiting
<1>4. Current'
  BY <1>1, <1>3, CurrentAfterLoad
<1> QED BY <1>2, <1>4 DEF IInv

(* An answer to the only load under way is what the ledger holds.          *)
LEMMA LoadAnswersStep == ASSUME IInv, LoadAnswers PROVE IInv'
<1> USE DEF IInv
<1>1. PICK i \in DOMAIN fetches :
        /\ fetches' = RemoveAt(fetches, i)
        /\ \/ \E rows \in {fetches[i].rows, List(ledger, fetches[i].currency)} :
                /\ accounts' = [currency |-> fetches[i].currency, rows |-> rows]
                /\ charts' = AskCharts(selected)
                /\ UNCHANGED error
           \/ /\ error' = TRUE
              /\ charts' = IF loading THEN AskCharts(selected) ELSE charts
              /\ UNCHANGED accounts
  BY DEF LoadAnswers
<1>2. UNCHANGED <<ledger, selected, form, ops, unseen, hasty, acts>> /\ loading' = FALSE
  BY DEF LoadAnswers
<1>3. fetches \in Seq(Loads) /\ i \in 1..Len(fetches) /\ fetches[i] \in Loads
  BY <1>1 DEF TypeOK
<1>4. fetches[i].currency \in Currencies /\ fetches[i].rows \in SUBSET Rows
  BY <1>3 DEF Loads
<1>5. /\ fetches' \in Seq(Loads) /\ Len(fetches') = Len(fetches) - 1
      /\ \A j \in 1..Len(fetches') : \E k \in 1..Len(fetches) : fetches'[j] = fetches[k]
  <2>1. Shorter(Loads, fetches, RemoveAt(fetches, i))
    BY <1>3, Removed
  <2> QED BY <1>1, <2>1 DEF Shorter
<1>6. \A rows \in {fetches[i].rows, List(ledger, fetches[i].currency)} :
        rows \in SUBSET Rows /\ Listed(ledger, rows)
  BY <1>3, <1>4, Listing DEF TypeOK, Existence
<1>7. accounts' \in Loads /\ Listed(ledger, accounts'.rows)
  <2>1. CASE UNCHANGED accounts
    BY <2>1 DEF TypeOK, Existence
  <2>2. CASE \E rows \in {fetches[i].rows, List(ledger, fetches[i].currency)} :
                accounts' = [currency |-> fetches[i].currency, rows |-> rows]
    BY <2>2, <1>4, <1>6 DEF Loads
  <2> QED BY <1>1, <2>1, <2>2
<1>8. TypeOK'
  <2>1. error' \in BOOLEAN
    BY <1>1 DEF TypeOK
  <2> QED BY <1>2, <1>5, <1>7, <2>1 DEF TypeOK
<1>9. Existence'
  BY <1>2, <1>5, <1>7 DEF Existence
<1>10. Current'
  <2> SUFFICES ASSUME ~hasty' PROVE OneAtATime' /\ (~unseen' => Fresh')
    BY DEF Current
  <2>1. OneAtATime /\ (~unseen => Fresh)
    BY <1>2 DEF Current
  <2>2. Len(fetches) = 1 /\ i = 1 /\ fetches' = <<>>
    BY <1>3, <1>5, <2>1 DEF OneAtATime
  <2>3. OneAtATime'
    BY <1>2, <2>1, <2>2 DEF OneAtATime
  <2>4. ASSUME ~unseen' PROVE Fresh'
    <3>1. Fresh
      BY <2>1, <2>4, <1>2
    <3>2. fetches[i] = [currency |-> selected, rows |-> List(ledger, selected)]
      BY <1>1, <3>1 DEF Fresh
    <3>3. \A rows \in {fetches[i].rows, List(ledger, fetches[i].currency)} : rows = List(ledger, selected)
      BY <3>2
    <3>4. ~error' => accounts' = [currency |-> selected, rows |-> List(ledger, selected)]
                       /\ charts' = AskCharts(selected)
      BY <1>1, <3>2, <3>3
    <3>5. [AskCharts(selected) EXCEPT !.state = AskCharts(selected).state] = AskCharts(selected)
      BY DEF AskCharts
    <3>6. AskCharts(selected)' = AskCharts(selected)
      BY <1>2 DEF AskCharts
    <3>7. \A j \in DOMAIN fetches' : FALSE
      BY <2>2
    <3> QED BY <1>2, <2>2, <3>4, <3>5, <3>6, <3>7 DEF Fresh
  <2> QED BY <2>3, <2>4
<1> QED BY <1>8, <1>9, <1>10

LEMMA ChartsAnswerStep == ASSUME IInv, ChartsAnswer PROVE IInv'
<1> USE DEF IInv
<1>1. UNCHANGED <<ledger, selected, accounts, loading, error, fetches, form, ops, unseen, hasty, acts>>
      /\ charts.state = "asking"
  BY DEF ChartsAnswer
<1>2. TypeOK'
  <2>1. ~loading
    BY <1>1 DEF TypeOK, Absent
  <2> QED BY <1>1, <2>1 DEF TypeOK
<1>3. Existence'
  BY <1>1 DEF Existence
<1>4. Current'
  <2> SUFFICES ASSUME ~hasty' PROVE OneAtATime' /\ (~unseen' => Fresh')
    BY DEF Current
  <2>1. OneAtATime'
    BY <1>1 DEF Current, OneAtATime
  <2>2. ASSUME ~unseen', ops = {}, fetches = <<>>, ~error
        PROVE  charts'.state \in {"asking", "shown"} =>
                 charts' = [AskCharts(selected) EXCEPT !.state = charts'.state]
    <3>1. charts = [AskCharts(selected) EXCEPT !.state = "asking"]
      BY <1>1, <2>2 DEF Current, Fresh
    <3>2. charts = AskCharts(selected) /\ charts.currency = selected
      BY <3>1 DEF AskCharts
    <3>3. PICK d : AskCharts(selected) = [state |-> "asking", currency |-> selected, data |-> d]
      BY DEF AskCharts
    <3>4. AskCharts(selected).data = d
      BY <3>3
    <3>5. CASE \E data \in {charts.data, AskCharts(charts.currency).data} :
                 charts' = [charts EXCEPT !.state = "shown", !.data = data]
      <4>1. charts' = [charts EXCEPT !.state = "shown", !.data = d]
        BY <3>2, <3>4, <3>5
      <4>2. charts' = [state |-> "shown", currency |-> selected, data |-> d]
        BY <3>2, <3>3, <4>1
      <4> QED BY <3>3, <4>2
    <3>6. CASE charts' = [charts EXCEPT !.state = "error"]
      BY <3>2, <3>3, <3>6
    <3> QED BY <3>5, <3>6 DEF ChartsAnswer
  <2>3. AskCharts(selected)' = AskCharts(selected)
    BY <1>1 DEF AskCharts
  <2>4. ~unseen' => Fresh'
    BY <1>1, <2>2, <2>3 DEF Current, Fresh
  <2> QED BY <2>1, <2>4
<1> QED BY <1>2, <1>3, <1>4

(* Rows to open the dialog on are rows of accounts that exist.             *)
LEMMA OpenAccountModalStep == ASSUME IInv, OpenAccountModal PROVE IInv'
<1> USE DEF IInv
<1>1. UNCHANGED <<ledger, pageVars, ops, unseen, hasty>> /\ acts' \in 0..MaxActs
  BY DEF OpenAccountModal, Act, TypeOK
<1>2. form' \in Dialogs /\ Found(ledger, form')
  <2>1. ASSUME NEW row \in accounts.rows, NEW currency \in Currencies, NEW name \in Names,
               NEW amount \in Typed \cup {row.balance, Null},
               form' = Dialog(row.id, name, currency, amount, Text(row.balance))
        PROVE  form' \in Dialogs /\ Found(ledger, form')
    <3>1. row \in Rows /\ Exists(ledger, row.id)
      BY DEF TypeOK, Loads, Existence, Listed
    <3>2. row.balance \in Int \cup {Null} /\ row.id \in Ids
      BY <3>1 DEF Rows
    <3>3. Text(row.balance) \in [text : Int] \cup {Null}
      BY <3>2 DEF Text
    <3> QED BY <2>1, <3>1, <3>2, <3>3 DEF Dialog, Dialogs, Found
  <2>2. ASSUME NEW currency \in Currencies, NEW name \in Names, NEW amount \in Typed \cup {Null},
               form' = Dialog(Null, name, currency, amount, Null)
        PROVE  form' \in Dialogs /\ Found(ledger, form')
    BY <2>2 DEF Dialog, Dialogs, Found
  <2> QED BY <2>1, <2>2 DEF OpenAccountModal
<1>3. TypeOK'
  BY <1>1, <1>2 DEF TypeOK, pageVars
<1>4. Existence'
  BY <1>1, <1>2 DEF Existence, pageVars
<1>5. Current'
  BY <1>1 DEF Current, OneAtATime, Fresh, pageVars, AskCharts
<1> QED BY <1>3, <1>4, <1>5

LEMMA CancelStep == ASSUME IInv, Cancel PROVE IInv'
<1> USE DEF IInv, Cancel, pageVars
<1>1. TypeOK'
  BY DEF TypeOK
<1>2. Existence'
  BY DEF Existence
<1>3. Current'
  BY DEF Current, OneAtATime, Fresh, AskCharts
<1> QED BY <1>1, <1>2, <1>3
-----------------------------------------------------------------------------
(* Saves *)

(* The first request of a save, or a closing, is sent.                     *)
LEMMA OpStarts ==
    ASSUME IInv, NEW op \in Saves, SoundOp(ledger, op), op.currency = selected, Start(op),
           form' \in {form, Null}
    PROVE  IInv'
<1> USE DEF IInv
<1>1. UNCHANGED <<ledger, pageVars, unseen>> /\ ops' = ops \cup {op} /\ hasty' = (hasty \/ Waiting)
  BY DEF Start
<1>2. acts' \in 0..MaxActs
  BY DEF Start, Act, TypeOK
<1>3. TypeOK'
  BY <1>1, <1>2 DEF TypeOK, pageVars, Waiting
<1>4. Existence'
  BY <1>1 DEF Existence, pageVars
<1>5. Current'
  <2> SUFFICES ASSUME ~hasty' PROVE OneAtATime' /\ Fresh'
    BY DEF Current
  <2>1. ops = {} /\ fetches = <<>> /\ ops' = {op}
    BY <1>1 DEF Waiting
  <2> QED BY <1>1, <2>1 DEF OneAtATime, Fresh, pageVars
<1> QED BY <1>3, <1>4, <1>5

LEMMA SaveStep == ASSUME IInv, Save PROVE IInv'
<1> DEFINE op == [id |-> acts, stage |-> "account", target |-> form.editing, dialog |-> form,
                  currency |-> selected]
<1>1. form \in Dialogs /\ Found(ledger, form) /\ form.editing \in Ids \cup {Null}
  BY DEF IInv, TypeOK, Existence, Save, Dialogs
<1>2. op \in Saves
  BY <1>1 DEF IInv, TypeOK, Saves
<1>3. SoundOp(ledger, op)
  BY <1>1 DEF SoundOp, Found
<1>4. Start(op) /\ form' \in {form, Null} /\ op.currency = selected
  BY DEF Save
<1> QED BY <1>2, <1>3, <1>4, OpStarts

LEMMA CloseAccountStep == ASSUME IInv, CloseAccount PROVE IInv'
<1> DEFINE op == [id |-> acts, stage |-> "close", target |-> form.editing, dialog |-> form,
                  currency |-> selected]
<1>1. form \in Dialogs /\ Found(ledger, form) /\ form.editing \in Ids /\ form.editing # Null
  BY DEF IInv, TypeOK, Existence, CloseAccount, Dialogs
<1>2. op \in Saves
  BY <1>1 DEF IInv, TypeOK, Saves
<1>3. SoundOp(ledger, op)
  BY <1>1 DEF SoundOp, Found
<1>4. Start(op) /\ form' \in {form, Null} /\ op.currency = selected
  BY DEF CloseAccount
<1> QED BY <1>2, <1>3, <1>4, OpStarts

(* An alert leaves the page behind the ledger.                             *)
LEMMA AlertRaised ==
    ASSUME IInv, NEW op \in ops, NEW changed, GoodLedger(changed), Keeps(ledger, changed),
           Alert(op, changed)
    PROVE  IInv'
<1>1. GoodLedger(ledger') /\ Keeps(ledger, ledger')
  BY DEF Alert, GoodLedger, Keeps, IInv, TypeOK
<1>2. UNCHANGED <<pageVars, form, hasty, acts>> /\ ops' = ops \ {op} /\ unseen' = TRUE
  BY DEF Alert
<1>3. TypeOK'
  BY <1>1, <1>2 DEF IInv, TypeOK, pageVars, GoodLedger
<1>4. Existence'
  BY <1>1, <1>2, StillThere DEF Existence, pageVars
<1>5. Current'
  BY <1>2 DEF IInv, Current, OneAtATime, pageVars
<1> QED BY <1>3, <1>4, <1>5 DEF IInv

(* The last request has been answered: the page loads in the currency that *)
(* was selected when the save began.                                       *)
LEMMA Finished ==
    ASSUME IInv, NEW op \in ops, GoodLedger(ledger'), Keeps(ledger, ledger'), Finish(op)
    PROVE  IInv'
<1> USE DEF IInv
<1>1. op.currency \in Currencies /\ StartLoad(op.currency)
  BY DEF Finish, TypeOK, Saves
<1>2. UNCHANGED <<selected, accounts, hasty, acts>> /\ ops' = ops \ {op}
  BY DEF Finish
<1>3. TypeOK' /\ Existence'
  <2>1. selected' \in Currencies /\ hasty' \in BOOLEAN /\ acts' \in 0..MaxActs /\ UNCHANGED accounts
    BY <1>2 DEF TypeOK
  <2>2. form' \in {form, Null} /\ ops' \subseteq ops
    BY DEF Finish
  <2> HIDE DEF IInv
  <2> QED BY <1>1, <2>1, <2>2, TypesAfterLoad
<1>4. ~hasty' => op.currency = selected' /\ fetches = <<>> /\ ops' = {}
  BY <1>2 DEF Current, OneAtATime
<1>5. Current'
  <2> HIDE DEF IInv
  <2> QED BY <1>1, <1>4, CurrentAfterLoad
<1> QED BY <1>3, <1>5

(* The account is written, the balance is still to come.                   *)
LEMMA Proceeds ==
    ASSUME IInv, NEW op \in ops, NEW target \in Ids, NEW changed,
           GoodLedger(changed), Keeps(ledger, changed), changed[target] # Null,
           Proceed(op, target, changed)
    PROVE  IInv'
<1>1. CASE Alert(op, changed)
  BY <1>1, AlertRaised
<1>2. CASE ledger' = changed /\ Finish(op)
  BY <1>2, Finished
<1>3. CASE /\ ledger' = changed
           /\ ops' = (ops \ {op}) \cup {[op EXCEPT !.stage = "balance", !.target = target]}
           /\ UNCHANGED <<pageVars, form, unseen, hasty, acts>>
  <2> DEFINE next == [op EXCEPT !.stage = "balance", !.target = target]
  <2>1. op \in Saves
    BY DEF IInv, TypeOK
  <2>2. next \in Saves /\ next.dialog = op.dialog /\ next.target = target /\ next.currency = op.currency
    BY <2>1 DEF Saves
  <2> HIDE DEF next
  <2>3. SoundOp(ledger', op)
    BY <1>3, StillThere
  <2>4. SoundOp(ledger', next)
    BY <1>3, <2>2, <2>3 DEF SoundOp, Exists
  <2>5. ops' = (ops \ {op}) \cup {next}
    BY <1>3 DEF next
  <2>6. TypeOK'
    BY <1>3, <2>2, <2>5 DEF IInv, TypeOK, pageVars, GoodLedger
  <2>7. Existence'
    BY <1>3, <2>4, <2>5, StillThere DEF Existence, pageVars
  <2>8. Current'
    BY <1>3, <2>2, <2>5 DEF IInv, Current, OneAtATime, Fresh, pageVars
  <2> QED BY <2>6, <2>7, <2>8 DEF IInv
<1> QED BY <1>1, <1>2, <1>3 DEF Proceed

LEMMA AccountAnswersStep == ASSUME IInv, AccountAnswers PROVE IInv'
<1>1. PICK op \in ops :
        /\ op.stage = "account"
        /\ IF Taken(ledger, op.dialog.name, op.target)
           THEN Alert(op, ledger)
           ELSE IF op.target # Null
           THEN Proceed(op, op.target, Rename(ledger, op.target, op.dialog.name))
           ELSE LET free == {id \in Ids : ledger[id] = Null}
                IN  /\ free # {}
                    /\ Proceed(op, Min(free), Create(ledger, Min(free), op.dialog.name, op.dialog.currency))
  BY DEF AccountAnswers
<1>2. GoodLedger(ledger) /\ Keeps(ledger, ledger)
  BY DEF IInv, TypeOK, GoodLedger, Keeps
<1>3. op \in Saves /\ SoundOp(ledger, op)
  BY DEF IInv, TypeOK, Existence
<1>4. op.dialog.name \in Names /\ op.dialog.currency \in Currencies
  BY <1>3 DEF Saves, Dialogs
<1>5. CASE Taken(ledger, op.dialog.name, op.target)
  BY <1>1, <1>2, <1>5, AlertRaised
<1>6. CASE ~Taken(ledger, op.dialog.name, op.target) /\ op.target # Null
  <2> DEFINE changed == Rename(ledger, op.target, op.dialog.name)
  <2>1. op.target \in Ids /\ ledger[op.target] # Null
    BY <1>3, <1>6 DEF SoundOp, Exists
  <2>2. GoodLedger(changed) /\ Keeps(ledger, changed)
    BY <1>2, <1>4, <1>6, <2>1, Renamed
  <2>3. Proceed(op, op.target, changed)
    BY <1>1, <1>6
  <2>4. changed[op.target] # Null
    BY <2>1, <2>2 DEF Keeps
  <2> HIDE DEF changed
  <2> QED BY <2>1, <2>2, <2>3, <2>4, Proceeds
<1>7. CASE ~Taken(ledger, op.dialog.name, op.target) /\ op.target = Null
  <2> DEFINE free == {id \in Ids : ledger[id] = Null}
             new(id) == Create(ledger, id, op.dialog.name, op.dialog.currency)
  <2>1. free # {} /\ Proceed(op, Min(free), new(Min(free)))
    BY <1>1, <1>7
  <2>2. PICK id \in free : id = Min(free)
    BY <2>1, LeastOfNaturals
  <2>3. id \in Ids /\ ledger[id] = Null
    OBVIOUS
  <2>4. Proceed(op, id, new(id))
    BY <2>1, <2>2
  <2> HIDE DEF free
  <2>5. ~Taken(ledger, op.dialog.name, Null)
    BY <1>7
  <2>6. GoodLedger(new(id)) /\ Keeps(ledger, new(id)) /\ new(id)[id] # Null
    BY <1>2, <1>4, <2>3, <2>5, Created
  <2> HIDE DEF new
  <2> QED BY <2>3, <2>4, <2>6, Proceeds
<1> QED BY <1>5, <1>6, <1>7

LEMMA BalanceAnswersStep == ASSUME IInv, BalanceAnswers PROVE IInv'
<1>1. PICK op \in ops :
        /\ op.stage = "balance"
        /\ \/ /\ ledger' = SetBalance(ledger, op.target, op.dialog.currency, Today, op.dialog.amount)
              /\ Finish(op)
           \/ Alert(op, SetBalance(ledger, op.target, op.dialog.currency, Today, op.dialog.amount))
  BY DEF BalanceAnswers
<1> DEFINE changed == SetBalance(ledger, op.target, op.dialog.currency, Today, op.dialog.amount)
<1>2. op \in Saves /\ SoundOp(ledger, op) /\ GoodLedger(ledger)
  BY DEF IInv, TypeOK, Existence, GoodLedger
<1>3. op.dialog.currency \in Currencies /\ op.dialog.amount \in Int \cup {Null}
  BY <1>2 DEF Saves, Dialogs
<1>4. op.target \in Ids /\ ledger[op.target] # Null
  BY <1>1, <1>2 DEF SoundOp, Exists
<1>5. GoodLedger(changed) /\ Keeps(ledger, changed)
  BY <1>2, <1>3, <1>4, BalanceWritten
<1>6. (ledger' = changed /\ Finish(op)) \/ Alert(op, changed)
  BY <1>1
<1> HIDE DEF changed
<1> QED BY <1>5, <1>6, Finished, AlertRaised

LEMMA CloseAnswersStep == ASSUME IInv, CloseAnswers PROVE IInv'
<1>1. PICK op \in ops :
        /\ op.stage = "close"
        /\ (ledger' = Close(ledger, op.target) /\ Finish(op)) \/ Alert(op, Close(ledger, op.target))
  BY DEF CloseAnswers
<1>2. op \in Saves /\ SoundOp(ledger, op) /\ GoodLedger(ledger)
  BY DEF IInv, TypeOK, Existence, GoodLedger
<1>3. op.target \in Ids /\ ledger[op.target] # Null
  BY <1>1, <1>2 DEF SoundOp, Exists
<1>4. GoodLedger(Close(ledger, op.target)) /\ Keeps(ledger, Close(ledger, op.target))
  BY <1>2, <1>3, Closed
<1> QED BY <1>1, <1>4, Finished, AlertRaised

LEMMA ImportWritesStep == ASSUME IInv, ImportWrites PROVE IInv'
<1>1. PICK id \in Active(ledger), amount \in Imports, day \in Days :
        ledger' = SetBalance(ledger, id, ledger[id].currency, day, amount)
  BY DEF ImportWrites
<1>2. GoodLedger(ledger) /\ id \in Ids /\ ledger[id] # Null /\ ledger[id] \in Accounts /\ amount \in Int
  BY DEF IInv, TypeOK, GoodLedger, Active
<1>3. ledger[id].currency \in Currencies
  BY <1>2 DEF Accounts
<1>4. GoodLedger(ledger') /\ Keeps(ledger, ledger')
  BY <1>1, <1>2, <1>3, BalanceWritten
<1>5. UNCHANGED <<pageVars, form, ops, hasty>> /\ unseen' = TRUE /\ acts' \in 0..MaxActs
  BY DEF ImportWrites, Act, IInv, TypeOK
<1>6. TypeOK'
  BY <1>4, <1>5 DEF IInv, TypeOK, pageVars, GoodLedger
<1>7. Existence'
  BY <1>4, <1>5, StillThere DEF Existence, pageVars
<1>8. Current'
  BY <1>5 DEF IInv, Current, OneAtATime, pageVars
<1> QED BY <1>6, <1>7, <1>8 DEF IInv
-----------------------------------------------------------------------------
LEMMA InvStep == IInv /\ [Next]_vars => IInv'
<1> SUFFICES ASSUME IInv, [Next]_vars PROVE IInv'
  OBVIOUS
<1>1. CASE UNCHANGED vars
  BY <1>1 DEF vars, pageVars, IInv, TypeOK, Existence, Current, OneAtATime, Fresh, AskCharts
<1>2. CASE Next
  BY <1>2, SelectCurrencyStep, LoadAnswersStep, ChartsAnswerStep, OpenAccountModalStep, CancelStep,
     SaveStep, CloseAccountStep, AccountAnswersStep, BalanceAnswersStep, CloseAnswersStep,
     ImportWritesStep, OnImportedStep DEF Next
<1> QED BY <1>1, <1>2

(* The page is never behind what the ledger holds, save where a visitor    *)
(* who did not wait, a failure or an import made it so.                    *)
THEOREM Invariance == Spec => []IInv
<1> QED BY InvInit, InvStep, PTL DEF Spec

(* The ledger and the page keep their types, no two accounts ever share a  *)
(* name, and the page says that it loads only while a load is under way.   *)
THEOREM TypeCorrect == Spec => []TypeOK
<1>1. IInv => TypeOK
  BY DEF IInv
<1> QED BY <1>1, Invariance, PTL

(* At rest the dashboard shows what the server holds, in the currency it   *)
(* names, with charts of the same moment.                                  *)
THEOREM RestIsCurrent == Spec => []DashboardIsCurrent
<1>1. IInv => DashboardIsCurrent
  <2> SUFFICES ASSUME IInv, AtRest, ~hasty, ~unseen
               PROVE  /\ accounts = [currency |-> selected, rows |-> List(ledger, selected)]
                      /\ charts = [AskCharts(selected) EXCEPT !.state = "shown"]
    BY DEF DashboardIsCurrent
  <2>1. Fresh
    BY DEF IInv, Current
  <2> QED BY <2>1 DEF Fresh, AtRest
<1> QED BY <1>1, Invariance, PTL

(* The rows the server lists are such rows, unless an account is nested.   *)
LEMMA ListIsTidy ==
    ASSUME NEW l \in [Ids -> Accounts \cup {Null}], NEW c \in Currencies, ~Nested(List(l, c))
    PROVE  /\ Tidy(List(l, c))
           /\ \A row \in List(l, c) : Head(row.name) \in {"Assets", "Liabilities"}
<1>1. IsFiniteSet(List(l, c))
  <2> DEFINE e == [id \in Active(l) |-> Row(l, c, id)]
  <2>1. IsFiniteSet(Active(l))
    BY NamesAssumption, FS_Subset DEF Active
  <2>2. e \in Surjection(Active(l), List(l, c))
    <3>1. List(l, c) = RowsOf(l, c, Active(l))
      BY ListIsRows
    <3> QED BY <3>1 DEF Surjection, RowsOf
  <2> HIDE DEF e
  <2> QED BY <2>1, <2>2, FS_Surjection
<1>2. ASSUME NEW row \in List(l, c)
      PROVE  /\ row.name \in Seq(Part) /\ row.name # <<>> /\ OrZero(row.shown) \in Int
             /\ Head(row.name) \in {"Assets", "Liabilities"}
  <2>1. row \in Rows
    BY Listing
  <2>2. row.name \in Names /\ row.shown \in Int \cup {Null}
    BY <2>1 DEF Rows
  <2>3. OrZero(row.shown) \in Int
    BY <2>2, OrZeroIsInt
  <2>4. row.name \in Seq(STRING) /\ row.name # <<>> /\ Head(row.name) \in {"Assets", "Liabilities"}
    BY <2>2, NamesAssumption
  <2>5. row.name \in Seq(Part)
    <3>1. \A s \in Seq(STRING) : s \in Seq(Part)
      BY DEF Part
    <3> QED BY <2>4, <3>1
  <2> QED BY <2>3, <2>4, <2>5
<1>3. \A row \in List(l, c) : Len(row.name) >= 1
  <2> SUFFICES ASSUME NEW row \in List(l, c) PROVE Len(row.name) >= 1
    OBVIOUS
  <2>1. PICK name \in Seq(Part) : name = row.name /\ name # <<>>
    BY <1>2
  <2> QED BY <2>1
<1> QED BY <1>1, <1>2, <1>3 DEF Tidy

LEMMA TreeAgrees ==
    ASSUME NEW l \in [Ids -> Accounts \cup {Null}], NEW c \in Currencies, ~Nested(List(l, c))
    PROVE  /\ NodeTotal(List(l, c), "Assets") = TotalAssets(List(l, c))
           /\ NodeTotal(List(l, c), "Liabilities") = TotalLiabilities(List(l, c))
<1> DEFINE rows == List(l, c)
<1>1. Tidy(rows) /\ \A row \in rows : Head(row.name) \in {"Assets", "Liabilities"}
  BY ListIsTidy
<1> HIDE DEF rows
<1>2. {row \in rows : IsAsset(row)} = {row \in rows : Head(row.name) = "Assets"}
  BY DEF IsAsset
<1>3. {row \in rows : ~IsAsset(row)} = {row \in rows : Head(row.name) = "Liabilities"}
  BY <1>1 DEF IsAsset
<1>4. /\ NodeTotal(rows, "Assets") = Sum({row \in rows : Head(row.name) = "Assets"})
      /\ NodeTotal(rows, "Liabilities") = Sum({row \in rows : Head(row.name) = "Liabilities"})
  <2>1. \A root \in Part : NodeTotal(rows, root) = Sum({row \in rows : Head(row.name) = root})
    BY <1>1, RootAddsUp
  <2>2. "Assets" \in Part /\ "Liabilities" \in Part
    BY DEF Part
  <2> QED BY <2>1, <2>2
<1> QED BY <1>2, <1>3, <1>4 DEF TotalAssets, TotalLiabilities, rows

(* The tree, the summary and the two charts show the same sums, for any    *)
(* accounts, names, currencies and days of the balances, where NumbersAgree*)
(* says they do: a growth chart with a point in it, and rates that have    *)
(* not changed since the latest balances.                                  *)
THEOREM AllSumsAgree == Spec => []NumbersAgree
<1>1. IInv => NumbersAgree
  <2> DEFINE rows == accounts.rows
             chart == charts.data.history
  <2> SUFFICES ASSUME IInv, AtRest, ~hasty, ~unseen
               PROVE  /\ ~Nested(rows) => /\ NodeTotal(rows, "Assets") = TotalAssets(rows)
                                          /\ NodeTotal(rows, "Liabilities") = TotalLiabilities(rows)
                      /\ DOMAIN chart # {} /\ (\A id \in Active(ledger) : RatesHeld(ledger[id], selected)) =>
                            chart[Max(DOMAIN chart)] =
                                [assets |-> TotalAssets(rows), liabilities |-> TotalLiabilities(rows)]
                      /\ ~HasForeign => charts.data.allocation = TotalAssets(rows)
    BY DEF NumbersAgree
  <2>1. Fresh /\ ledger \in [Ids -> Accounts \cup {Null}] /\ selected \in Currencies
    BY DEF IInv, Current, TypeOK
  <2>2. /\ accounts = [currency |-> selected, rows |-> List(ledger, selected)]
        /\ charts = [AskCharts(selected) EXCEPT !.state = "shown"]
    BY <2>1 DEF Fresh, AtRest
  <2>3. /\ rows = List(ledger, selected)
        /\ chart = History(ledger, selected)
        /\ charts.data.allocation = Allocation(ledger, selected)
    BY <2>2 DEF AskCharts
  <2> HIDE DEF rows, chart
  <2>4. ~HasForeign => Allocation(ledger, selected) = TotalAssets(List(ledger, selected))
    BY <2>1, AllocationAgrees DEF HasForeign
  <2>5. DOMAIN chart # {} /\ (\A id \in Active(ledger) : RatesHeld(ledger[id], selected)) =>
          chart[Max(DOMAIN chart)] =
              [assets |-> TotalAssets(rows), liabilities |-> TotalLiabilities(rows)]
    BY <2>1, <2>3, HistoryAgrees
  <2>6. ~Nested(rows) => /\ NodeTotal(rows, "Assets") = TotalAssets(rows)
                         /\ NodeTotal(rows, "Liabilities") = TotalLiabilities(rows)
    BY <2>1, <2>3, TreeAgrees
  <2> QED BY <2>3, <2>4, <2>5, <2>6
<1> QED BY <1>1, Invariance, PTL
=============================================================================
