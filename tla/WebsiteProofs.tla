--------------------------- MODULE WebsiteProofs ----------------------------
(***************************************************************************)
(* Proofs that the questionnaire never skips a question, whatever numbers  *)
(* and detours, and that the website hears its visitors: for any defaults, *)
(* cities, rates and typed values, what a page computes with is what the   *)
(* visitor answered, typed, chose or was sent, and what it advises is      *)
(* enough and no more than enough.                                         *)
(***************************************************************************)
EXTENDS WebsiteRequirements, TLAPS, WellFoundedInduction

-----------------------------------------------------------------------------
(* The arithmetic of a year                                                *)

(* What holds of 0 and with n of n + 1 holds of every natural number, or   *)
(* there would be a least counterexample.                                  *)
LEMMA Induction ==
    ASSUME NEW S, 0 \in S, \A n \in Nat : n \in S => n + 1 \in S
    PROVE  Nat \subseteq S
<1> DEFINE T == Nat \ S
           R == OpToRel(<, Nat)
<1>1. \A m, n \in Nat : m < n => <<m, n>> \in R
  BY DEF OpToRel
<1>2. SUFFICES ASSUME T # {} PROVE FALSE
  OBVIOUS
<1> HIDE DEF R
<1>3. IsWellFoundedOn(R, Nat)
  BY NatLessThanWellFounded, Zenon DEF R
<1>4. PICK x \in T : \A y \in T : ~(<<y, x>> \in R)
  <2> T \subseteq Nat OBVIOUS
  <2> HIDE DEF T
  <2> QED BY <1>2, <1>3, WFMin
<1>5. x # 0 /\ x \in Nat
  BY <1>4
<1>6. x - 1 \in T /\ x - 1 \in Nat /\ x - 1 < x
  BY <1>5, <1>4
<1>7. <<x - 1, x>> \in R
  BY <1>1, <1>5, <1>6
<1> QED BY <1>4, <1>6, <1>7

(* The same, from the first to the last year of a span.                    *)
LEMMA YearByYear ==
    ASSUME NEW a \in Int, NEW b \in Int, NEW S, a \in S,
           \A n \in (a + 1)..b : n - 1 \in S => n \in S
    PROVE  a..b \subseteq S
<1> DEFINE T == {k \in Nat : a + k <= b => a + k \in S}
<1>1. 0 \in T
  OBVIOUS
<1>2. ASSUME NEW k \in Nat, k \in T PROVE k + 1 \in T
  <2> SUFFICES ASSUME a + (k + 1) <= b PROVE a + (k + 1) \in S
    OBVIOUS
  <2>1. a + k \in S
    BY <1>2
  <2>2. a + (k + 1) \in (a + 1)..b /\ (a + (k + 1)) - 1 = a + k
    OBVIOUS
  <2> QED BY <2>1, <2>2
<1>3. Nat \subseteq T
  <2> HIDE DEF T
  <2> QED BY <1>1, <1>2, Induction
<1>4. ASSUME NEW n \in a..b PROVE n \in S
  <2>1. n - a \in Nat /\ a + (n - a) = n
    OBVIOUS
  <2>2. n - a \in T
    BY <1>3, <2>1
  <2> QED BY <2>1, <2>2
<1> QED BY <1>4

(* A year's growth: of whole numbers, of nothing, at no rate, of more, at  *)
(* a gain.                                                                 *)
LEMMA GrowIsInt == ASSUME NEW x \in Int, NEW p \in Int PROVE Grow(x, p) \in Int
BY DEF Grow

LEMMA GrowFacts ==
    /\ \A p \in Int : Grow(0, p) = 0
    /\ \A x \in Int : Grow(x, 0) = x
    /\ \A x \in Int : Grow(x, 100) = 2 * x
BY DEF Grow

LEMMA GrowMore ==
    ASSUME NEW x \in Int, NEW y \in Int, NEW p \in Int, p >= -100, x <= y
    PROVE  Grow(x, p) <= Grow(y, p)
<1> DEFINE q == 100 + p
<1>1. q \in Nat /\ x * q <= y * q /\ x * q \in Int /\ y * q \in Int
  OBVIOUS
<1> QED BY <1>1 DEF Grow

LEMMA GrowStrict ==
    ASSUME NEW x \in Int, NEW y \in Int, NEW p \in Nat, x < y
    PROVE  Grow(x, p) < Grow(y, p)
<1>1. x * p <= y * p /\ x * p \in Int /\ y * p \in Int
  OBVIOUS
<1>2. x * (100 + p) = 100 * x + x * p /\ y * (100 + p) = 100 * y + y * p
  OBVIOUS
<1> QED BY <1>1, <1>2 DEF Grow

LEMMA GrowGains ==
    ASSUME NEW x \in Nat, NEW p \in Nat
    PROVE  Grow(x, p) >= x
<1>1. x * p \in Nat /\ x * (100 + p) = 100 * x + x * p
  OBVIOUS
<1> QED BY <1>1 DEF Grow

(* The least amount that grows to y.                                       *)
LEMMA LeastToGrow ==
    ASSUME NEW x \in Int, NEW y \in Int, NEW p \in Int, p > -100
    PROVE  LET least == (100 * y + 99 + p) \div (100 + p)
           IN  least \in Int /\ (Grow(x, p) >= y <=> x >= least)
<1> DEFINE q == 100 + p
           least == (100 * y + 99 + p) \div q
<1>1. q \in Nat \ {0} /\ x * q \in Int
  OBVIOUS
<1>2. Grow(x, p) >= y <=> x * q >= 100 * y
  <2> HIDE DEF q
  <2> DEFINE z == x * q
  <2>1. Grow(x, p) = z \div 100
    BY DEF Grow, q
  <2>2. z \in Int
    BY <1>1
  <2> HIDE DEF z
  <2>3. z \div 100 >= y <=> z >= 100 * y
    BY <2>2
  <2> QED BY <2>1, <2>3 DEF z
<1>3. least \in Int /\ least * q <= 100 * y + q - 1 /\ 100 * y + q - 1 < least * q + q
  OBVIOUS
<1> HIDE DEF least
<1>4. x >= least => x * q >= 100 * y
  <2> SUFFICES ASSUME x >= least PROVE x * q >= 100 * y
    OBVIOUS
  <2>1. x * q >= least * q
    BY <1>1, <1>3
  <2> QED BY <1>1, <1>3, <2>1
<1>5. x < least => x * q < 100 * y
  <2> SUFFICES ASSUME x < least PROVE x * q < 100 * y
    OBVIOUS
  <2>1. (x + 1) * q <= least * q /\ (x + 1) * q = x * q + q
    BY <1>1, <1>3
  <2> QED BY <1>1, <1>3, <2>1
<1> QED BY <1>1, <1>2, <1>3, <1>4, <1>5 DEF least

-----------------------------------------------------------------------------
(* Balances                                                                *)

(* f runs from start over a..b, by a turn from value to value.              *)
Runs(f, a, b, start, turn) ==
    f = [n \in a..b |-> IF n = a THEN start ELSE turn[<<n, f[n - 1]>>]]

(* Every recursion over a span of years has a solution.                    *)
LEMMA RunExists ==
    ASSUME NEW a \in Int, NEW b \in Int, NEW V, NEW start \in V, NEW turn,
           \A n \in (a + 1)..b : \A v \in V : turn[<<n, v>>] \in V
    PROVE  \E f : /\ Runs(f, a, b, start, turn)
                  /\ \A n \in a..b : f[n] \in V
<1> DEFINE Next1(f, n) == IF n = a THEN start ELSE turn[<<n, f[n - 1]>>]
           Solved(f, k) == \A n \in a..b : n <= a + k => f[n] = Next1(f, n) /\ f[n] \in V
           T == {k \in Nat : \E f : Solved(f, k)}
<1>1. 0 \in T
  <2>1. Solved([n \in a..b |-> start], 0)
    OBVIOUS
  <2> HIDE DEF Solved
  <2> QED BY <2>1
<1>2. ASSUME NEW k \in Nat, k \in T PROVE k + 1 \in T
  <2>1. PICK f : Solved(f, k)
    BY <1>2
  <2> DEFINE g == [n \in a..b |-> IF n <= a + k THEN f[n] ELSE turn[<<n, f[n - 1]>>]]
  <2>2. ASSUME NEW n \in a..b, n <= a + (k + 1) PROVE g[n] = Next1(g, n) /\ g[n] \in V
    <3>1. CASE n <= a + k
      <4>1. n # a => n - 1 \in a..b /\ n - 1 <= a + k
        BY <3>1
      <4>2. g[n] = f[n] /\ (n # a => g[n - 1] = f[n - 1])
        BY <3>1, <4>1
      <4>3. f[n] = Next1(f, n) /\ f[n] \in V
        BY <2>1, <3>1
      <4> HIDE DEF g
      <4> QED BY <4>2, <4>3
    <3>2. CASE n > a + k
      <4>1. n # a /\ n - 1 \in a..b /\ n - 1 <= a + k /\ n \in (a + 1)..b
        BY <3>2, <2>2
      <4>2. f[n - 1] \in V
        BY <2>1, <4>1
      <4>3. g[n] = turn[<<n, f[n - 1]>>] /\ g[n - 1] = f[n - 1]
        BY <3>2, <4>1
      <4> HIDE DEF g
      <4> QED BY <4>1, <4>2, <4>3
    <3> QED BY <3>1, <3>2
  <2>3. Solved(g, k + 1)
    <3> HIDE DEF g, Next1
    <3> QED BY <2>2
  <2> HIDE DEF g, Solved
  <2> QED BY <2>3
<1>3. Nat \subseteq T
  <2> HIDE DEF T
  <2> QED BY <1>1, <1>2, Induction
<1>4. PICK k \in Nat : b <= a + k
  <2>1. CASE b <= a
    BY <2>1
  <2>2. CASE b > a
    <3>1. b - a \in Nat /\ b <= a + (b - a)
      BY <2>2
    <3> QED BY <3>1
  <2> QED BY <2>1, <2>2
<1>5. PICK f : Solved(f, k)
  BY <1>3
<1>6. \A n \in a..b : f[n] = Next1(f, n) /\ f[n] \in V
  <2> HIDE DEF Next1
  <2> QED BY <1>4, <1>5
<1> DEFINE g == [n \in a..b |-> f[n]]
<1>7. ASSUME NEW n \in a..b PROVE g[n] = Next1(g, n)
  <2>1. n # a => n - 1 \in a..b /\ g[n - 1] = f[n - 1]
    OBVIOUS
  <2>2. g[n] = f[n]
    OBVIOUS
  <2> HIDE DEF g
  <2> QED BY <1>6, <2>1, <2>2
<1>8. g = [n \in a..b |-> Next1(g, n)]
  <2> HIDE DEF Next1
  <2> QED BY <1>7
<1>9. \A n \in a..b : g[n] \in V
  BY <1>6
<1> HIDE DEF g
<1>10. Runs(g, a, b, start, turn)
  BY <1>8 DEF Runs
<1> QED BY <1>9, <1>10

(* A ledger: the balances of a span of years.                              *)
IsLedger(f, a, b, start, rate, flow) ==
    f = [n \in a..b |-> IF n = a THEN start ELSE Grow(f[n - 1], rate[n]) + flow[n]]

Books(a, b, start, rate, flow) ==
    /\ a \in Int /\ b \in Int /\ start \in Int
    /\ \A n \in (a + 1)..b : rate[n] \in Int /\ flow[n] \in Int

(* Every books have a ledger, and Balances is it.                          *)
LEMMA LedgerExists ==
    ASSUME NEW a, NEW b, NEW start, NEW rate, NEW flow, Books(a, b, start, rate, flow)
    PROVE  \E f : IsLedger(f, a, b, start, rate, flow)
<1> DEFINE turn == [p \in Int \X Int |-> Grow(p[2], rate[p[1]]) + flow[p[1]]]
<1>1. \A n \in (a + 1)..b : \A v \in Int :
         turn[<<n, v>>] = Grow(v, rate[n]) + flow[n] /\ turn[<<n, v>>] \in Int
  <2> SUFFICES ASSUME NEW n \in (a + 1)..b, NEW v \in Int
               PROVE  turn[<<n, v>>] = Grow(v, rate[n]) + flow[n] /\ turn[<<n, v>>] \in Int
    OBVIOUS
  <2>3. n \in Int /\ rate[n] \in Int /\ flow[n] \in Int
    BY DEF Books
  <2>1. n \in Int /\ flow[n] \in Int /\ Grow(v, rate[n]) \in Int
    BY <2>3, GrowIsInt
  <2>2. turn[<<n, v>>] = Grow(v, rate[n]) + flow[n]
    BY <2>1
  <2> QED BY <2>1, <2>2
<1> HIDE DEF turn
<1>2. PICK f : Runs(f, a, b, start, turn) /\ \A n \in a..b : f[n] \in Int
  BY <1>1, RunExists DEF Books
<1>3. \A n \in a..b : n # a => turn[<<n, f[n - 1]>>] = Grow(f[n - 1], rate[n]) + flow[n]
  <2> SUFFICES ASSUME NEW n \in a..b, n # a PROVE turn[<<n, f[n - 1]>>] = Grow(f[n - 1], rate[n]) + flow[n]
    OBVIOUS
  <2>1. n - 1 \in a..b /\ n \in (a + 1)..b
    BY DEF Books
  <2> QED BY <1>1, <1>2, <2>1
<1>4. IsLedger(f, a, b, start, rate, flow)
  BY <1>2, <1>3 DEF Runs, IsLedger
<1> QED BY <1>4

LEMMA BalancesAreLedger ==
    ASSUME NEW a, NEW b, NEW start, NEW rate, NEW flow, Books(a, b, start, rate, flow)
    PROVE  IsLedger(Balances(a, b, start, rate, flow), a, b, start, rate, flow)
<1>1. \E f : IsLedger(f, a, b, start, rate, flow)
  BY LedgerExists
<1>2. Balances(a, b, start, rate, flow) = CHOOSE f : IsLedger(f, a, b, start, rate, flow)
  BY Zenon DEF Balances, IsLedger
<1> QED BY <1>1, <1>2

(* What a ledger says of each year, in whole numbers.                      *)
LEMMA LedgerFacts ==
    ASSUME NEW a, NEW b, NEW start, NEW rate, NEW flow, Books(a, b, start, rate, flow),
           NEW f, IsLedger(f, a, b, start, rate, flow)
    PROVE  /\ DOMAIN f = a..b
           /\ a <= b => f[a] = start
           /\ \A n \in (a + 1)..b : f[n - 1] \in Int /\ f[n] = Grow(f[n - 1], rate[n]) + flow[n]
           /\ \A n \in a..b : f[n] \in Int
<1>1. DOMAIN f = a..b /\ (a <= b => f[a] = start)
  BY DEF IsLedger, Books
<1>2. \A n \in (a + 1)..b : n - 1 \in a..b /\ f[n] = Grow(f[n - 1], rate[n]) + flow[n]
  <2> SUFFICES ASSUME NEW n \in (a + 1)..b
               PROVE  n - 1 \in a..b /\ f[n] = Grow(f[n - 1], rate[n]) + flow[n]
    OBVIOUS
  <2>1. n \in a..b /\ n # a /\ n - 1 \in a..b
    BY DEF Books
  <2> QED BY <2>1 DEF IsLedger
<1>3. \A n \in a..b : f[n] \in Int
  <2> DEFINE S == {n \in a..b : f[n] \in Int}
  <2>1. ASSUME NEW n \in (a + 1)..b, n - 1 \in S PROVE n \in S
    <3>1. f[n - 1] \in Int /\ rate[n] \in Int /\ flow[n] \in Int /\ n \in a..b
      BY <2>1 DEF Books
    <3>2. Grow(f[n - 1], rate[n]) \in Int
      BY <3>1, GrowIsInt
    <3> QED BY <1>2, <3>1, <3>2
  <2>2. CASE a <= b
    <3>1. a \in S /\ a \in Int /\ b \in Int
      BY <1>1, <2>2 DEF Books
    <3> HIDE DEF S
    <3>2. a..b \subseteq S
      BY <2>1, <3>1, YearByYear
    <3> QED BY <3>2 DEF S
  <2>3. CASE ~(a <= b)
    BY <2>3 DEF Books
  <2> QED BY <2>2, <2>3
<1> QED BY <1>1, <1>2, <1>3

(* What the books say of the years up to e, these others say k years later. *)
SameEntries(rate, flow, a, e, rate2, flow2, k) ==
    \A n \in (a + 1)..e : rate[n] = rate2[n + k] /\ flow[n] = flow2[n + k]

(* Equal books are equal balances.                                         *)
LEMMA LedgersAgree ==
    ASSUME NEW a, NEW b, NEW start, NEW rate, NEW flow, Books(a, b, start, rate, flow),
           NEW f, IsLedger(f, a, b, start, rate, flow),
           NEW c, NEW d, NEW rate2, NEW flow2, Books(c, d, start, rate2, flow2),
           NEW g, IsLedger(g, c, d, start, rate2, flow2),
           NEW k \in Int, c = a + k, NEW e \in Int, e <= b, e + k <= d,
           SameEntries(rate, flow, a, e, rate2, flow2, k)
    PROVE  \A n \in a..e : f[n] = g[n + k]
<1>1. a \in Int /\ b \in Int /\ c \in Int /\ d \in Int
  BY DEF Books
<1>2. /\ a <= b => f[a] = start
      /\ \A n \in (a + 1)..b : f[n] = Grow(f[n - 1], rate[n]) + flow[n]
  BY LedgerFacts
<1>3. /\ c <= d => g[c] = start
      /\ \A n \in (c + 1)..d : g[n] = Grow(g[n - 1], rate2[n]) + flow2[n]
  BY LedgerFacts
<1> DEFINE S == {n \in Int : f[n] = g[n + k]}
<1>4. ASSUME NEW n \in (a + 1)..e, n - 1 \in S PROVE n \in S
  <2>1. n \in (a + 1)..b /\ n + k \in (c + 1)..d /\ (n - 1) + k = (n + k) - 1
    BY <1>1
  <2>2. f[n - 1] = g[(n + k) - 1]
    BY <1>4, <2>1
  <2>3. f[n] = Grow(f[n - 1], rate[n]) + flow[n]
    BY <1>2, <2>1
  <2>4. g[n + k] = Grow(g[(n + k) - 1], rate2[n + k]) + flow2[n + k]
    BY <1>3, <2>1
  <2>5. rate[n] = rate2[n + k] /\ flow[n] = flow2[n + k]
    BY DEF SameEntries
  <2> QED BY <1>1, <2>2, <2>3, <2>4, <2>5
<1>5. CASE a <= e
  <2>1. a \in S
    BY <1>1, <1>2, <1>3, <1>5
  <2> HIDE DEF S
  <2>2. a..e \subseteq S
    BY <1>1, <1>4, <2>1, YearByYear
  <2> QED BY <2>2 DEF S
<1>6. CASE ~(a <= e)
  BY <1>1, <1>6
<1> QED BY <1>5, <1>6

(* The same, of the same years.                                            *)
LEMMA SameBooks ==
    ASSUME NEW a, NEW b, NEW start,
           NEW rate, NEW flow, Books(a, b, start, rate, flow),
           NEW f, IsLedger(f, a, b, start, rate, flow),
           NEW rate2, NEW flow2, Books(a, b, start, rate2, flow2),
           NEW g, IsLedger(g, a, b, start, rate2, flow2),
           \A n \in (a + 1)..b : rate[n] = rate2[n] /\ flow[n] = flow2[n]
    PROVE  \A n \in a..b : f[n] = g[n]
<1>1. a \in Int /\ b \in Int /\ \A n \in Int : n + 0 = n
  BY DEF Books
<1>2. PICK k \in Int : k = 0
  OBVIOUS
<1>3. /\ a = a + k /\ b <= b /\ b + k <= b
      /\ SameEntries(rate, flow, a, b, rate2, flow2, k)
  BY <1>1, <1>2 DEF SameEntries
<1>4. \A n \in a..b : f[n] = g[n + k]
  BY <1>1, <1>3, LedgersAgree
<1> QED BY <1>1, <1>2, <1>4

(* More money, earlier or later, is never less at the end: strictly more   *)
(* with a last payment that is more, or with more to start from and no     *)
(* losses.                                                                 *)
LEMMA LedgersOrdered ==
    ASSUME NEW a, NEW b, NEW rate,
           NEW start, NEW flow, Books(a, b, start, rate, flow),
           NEW f, IsLedger(f, a, b, start, rate, flow),
           NEW start2, NEW flow2, Books(a, b, start2, rate, flow2),
           NEW g, IsLedger(g, a, b, start2, rate, flow2),
           start <= start2,
           \A n \in (a + 1)..b : rate[n] >= -100 /\ flow[n] <= flow2[n]
    PROVE  /\ \A n \in a..b : f[n] <= g[n]
           /\ a < b /\ flow[b] < flow2[b] => f[b] < g[b]
           /\ start < start2 /\ (\A n \in (a + 1)..b : rate[n] >= 0) => \A n \in a..b : f[n] < g[n]
<1>1. a \in Int /\ b \in Int /\ start \in Int /\ start2 \in Int
      /\ \A n \in (a + 1)..b : rate[n] \in Int /\ flow[n] \in Int /\ flow2[n] \in Int
  BY DEF Books
<1>2. /\ a <= b => f[a] = start
      /\ \A n \in (a + 1)..b : f[n - 1] \in Int /\ f[n] = Grow(f[n - 1], rate[n]) + flow[n]
      /\ \A n \in a..b : f[n] \in Int
  BY LedgerFacts
<1>3. /\ a <= b => g[a] = start2
      /\ \A n \in (a + 1)..b : g[n - 1] \in Int /\ g[n] = Grow(g[n - 1], rate[n]) + flow2[n]
      /\ \A n \in a..b : g[n] \in Int
  BY LedgerFacts
<1>4. ASSUME NEW n \in (a + 1)..b, f[n - 1] <= g[n - 1]
      PROVE  f[n] <= g[n] /\ (flow[n] < flow2[n] => f[n] < g[n])
  <2>1. /\ f[n - 1] \in Int /\ g[n - 1] \in Int /\ rate[n] \in Int /\ rate[n] >= -100
        /\ flow[n] \in Int /\ flow2[n] \in Int /\ flow[n] <= flow2[n]
    BY <1>1, <1>2, <1>3
  <2>2. Grow(f[n - 1], rate[n]) <= Grow(g[n - 1], rate[n])
    BY <1>4, <2>1, GrowMore
  <2>3. Grow(f[n - 1], rate[n]) \in Int /\ Grow(g[n - 1], rate[n]) \in Int
    BY <2>1, GrowIsInt
  <2>4. f[n] = Grow(f[n - 1], rate[n]) + flow[n] /\ g[n] = Grow(g[n - 1], rate[n]) + flow2[n]
    BY <1>2, <1>3
  <2> QED BY <2>1, <2>2, <2>3, <2>4
<1>5. \A n \in a..b : f[n] <= g[n]
  <2> DEFINE S == {n \in Int : f[n] <= g[n]}
  <2>1. \A n \in (a + 1)..b : n - 1 \in S => n \in S
    BY <1>4
  <2>2. CASE a <= b
    <3>1. a \in S
      BY <1>1, <1>2, <1>3, <2>2
    <3> HIDE DEF S
    <3>2. a..b \subseteq S
      BY <1>1, <2>1, <3>1, YearByYear
    <3> QED BY <3>2 DEF S
  <2>3. CASE ~(a <= b)
    BY <1>1, <2>3
  <2> QED BY <2>2, <2>3
<1>6. a < b /\ flow[b] < flow2[b] => f[b] < g[b]
  <2> SUFFICES ASSUME a < b, flow[b] < flow2[b] PROVE f[b] < g[b]
    OBVIOUS
  <2>1. b \in (a + 1)..b /\ b - 1 \in a..b
    BY <1>1
  <2> QED BY <1>4, <1>5, <2>1
<1>7. ASSUME start < start2, \A n \in (a + 1)..b : rate[n] >= 0
      PROVE  \A n \in a..b : f[n] < g[n]
  <2> DEFINE S == {n \in Int : f[n] < g[n]}
  <2>1. ASSUME NEW n \in (a + 1)..b, n - 1 \in S PROVE n \in S
    <3>1. /\ f[n - 1] \in Int /\ g[n - 1] \in Int /\ rate[n] \in Nat
          /\ flow[n] \in Int /\ flow2[n] \in Int /\ flow[n] <= flow2[n] /\ f[n - 1] < g[n - 1]
      BY <1>1, <1>2, <1>3, <1>7, <2>1
    <3>2. Grow(f[n - 1], rate[n]) < Grow(g[n - 1], rate[n])
      BY <3>1, GrowStrict
    <3>5. rate[n] \in Int
      BY <1>1
    <3>6. Grow(f[n - 1], rate[n]) \in Int
      BY <3>1, <3>5, GrowIsInt
    <3>3. Grow(f[n - 1], rate[n]) \in Int /\ Grow(g[n - 1], rate[n]) \in Int
      BY <3>1, <3>5, <3>6, GrowIsInt
    <3>4. f[n] = Grow(f[n - 1], rate[n]) + flow[n] /\ g[n] = Grow(g[n - 1], rate[n]) + flow2[n]
      BY <1>2, <1>3
    <3> QED BY <1>1, <3>1, <3>2, <3>3, <3>4
  <2>2. CASE a <= b
    <3>1. a \in S
      BY <1>1, <1>2, <1>3, <1>7, <2>2
    <3> HIDE DEF S
    <3>2. a..b \subseteq S
      BY <1>1, <2>1, <3>1, YearByYear
    <3> QED BY <3>2 DEF S
  <2>3. CASE ~(a <= b)
    BY <1>1, <2>3
  <2> QED BY <2>2, <2>3
<1> QED BY <1>5, <1>6, <1>7

(* Compound growth: of whole numbers, of nothing, at no rate, of a sum     *)
(* that is not negative, and a year at a time.                             *)
LEMMA CompoundFacts ==
    ASSUME NEW x \in Int, NEW p \in Int, NEW n \in Nat
    PROVE  /\ Compound(x, p, n) \in Int
           /\ Compound(x, p, 0) = x
           /\ Compound(x, p, n + 1) = Grow(Compound(x, p, n), p)
           /\ x = 0 \/ p = 0 => Compound(x, p, n) = x
           /\ x >= 0 /\ p >= -100 => Compound(x, p, n) >= 0
<1> DEFINE f(m) == Balances(0, m, x, Yearly(p), Yearly(0))
<1>1. \A m \in Nat : Books(0, m, x, Yearly(p), Yearly(0))
  BY DEF Books, Yearly
<1>2. \A m \in Nat : IsLedger(f(m), 0, m, x, Yearly(p), Yearly(0))
  BY <1>1, BalancesAreLedger
<1> HIDE DEF f
<1>3. /\ \A m \in Nat : f(m)[0] = x
      /\ \A m \in Nat : \A i \in 1..m : f(m)[i] = Grow(f(m)[i - 1], p) /\ f(m)[i - 1] \in Int
      /\ \A m \in Nat : \A i \in 0..m : f(m)[i] \in Int
  <2> SUFFICES ASSUME NEW m \in Nat
               PROVE  /\ f(m)[0] = x
                      /\ \A i \in 1..m : f(m)[i] = Grow(f(m)[i - 1], p) /\ f(m)[i - 1] \in Int
                      /\ \A i \in 0..m : f(m)[i] \in Int
    OBVIOUS
  <2>1. /\ 0 <= m => f(m)[0] = x
        /\ \A i \in (0 + 1)..m : f(m)[i - 1] \in Int /\ f(m)[i] = Grow(f(m)[i - 1], Yearly(p)[i]) + Yearly(0)[i]
        /\ \A i \in 0..m : f(m)[i] \in Int
    <3>1. Books(0, m, x, Yearly(p), Yearly(0)) /\ IsLedger(f(m), 0, m, x, Yearly(p), Yearly(0))
      BY <1>1, <1>2
    <3>2. PICK g, z : g = f(m) /\ z = 0
      OBVIOUS
    <3>3. Books(z, m, x, Yearly(p), Yearly(0)) /\ IsLedger(g, z, m, x, Yearly(p), Yearly(0))
      BY <3>1, <3>2
    <3>4. /\ z <= m => g[z] = x
          /\ \A i \in (z + 1)..m : g[i - 1] \in Int /\ g[i] = Grow(g[i - 1], Yearly(p)[i]) + Yearly(0)[i]
          /\ \A i \in z..m : g[i] \in Int
      BY <3>3, LedgerFacts
    <3> QED BY <3>2, <3>4
  <2>2. \A i \in Int : Yearly(p)[i] = p /\ Yearly(0)[i] = 0
    BY DEF Yearly
  <2>3. ASSUME NEW i \in 1..m PROVE f(m)[i] = Grow(f(m)[i - 1], p) /\ f(m)[i - 1] \in Int
    <3>2. f(m)[i - 1] \in Int
      BY <2>1
    <3>1. Grow(f(m)[i - 1], p) \in Int
      BY <3>2, GrowIsInt
    <3> QED BY <2>1, <2>2, <3>1
  <2> QED BY <2>1, <2>3
<1>4. \A m \in Nat : Compound(x, p, m) = f(m)[m]
  BY DEF Compound, f
<1>5. Compound(x, p, n) \in Int /\ Compound(x, p, 0) = x
  BY <1>3, <1>4
<1>6. Compound(x, p, n + 1) = Grow(Compound(x, p, n), p)
  <2>1. n + 1 \in Nat /\ n + 1 \in 1..(n + 1) /\ (n + 1) - 1 = n
    OBVIOUS
  <2>2. f(n + 1)[n + 1] = Grow(f(n + 1)[n], p)
    BY <1>3, <2>1
  <2>3. f(n)[n] = f(n + 1)[n]
    <3> DEFINE g == f(n)
               h == f(n + 1)
    <3>1. /\ Books(0, n, x, Yearly(p), Yearly(0)) /\ IsLedger(g, 0, n, x, Yearly(p), Yearly(0))
          /\ Books(0, n + 1, x, Yearly(p), Yearly(0)) /\ IsLedger(h, 0, n + 1, x, Yearly(p), Yearly(0))
      BY <1>1, <1>2, <2>1
    <3> HIDE DEF g, h
    <3>2. PICK k \in Int : k = 0
      OBVIOUS
    <3>3. /\ k \in Int /\ 0 = 0 + k /\ n \in Int /\ n <= n /\ n + k <= n + 1 /\ n + k = n
          /\ SameEntries(Yearly(p), Yearly(0), 0, n, Yearly(p), Yearly(0), k)
      BY <3>2 DEF SameEntries
    <3>4. \A m \in 0..n : g[m] = h[m + k]
      BY <3>1, <3>3, LedgersAgree
    <3> QED BY <3>3, <3>4 DEF g, h
  <2> QED BY <1>4, <2>1, <2>2, <2>3
<1>7. ASSUME NEW S, x \in S, \A y \in Int : y \in S => Grow(y, p) \in S
      PROVE  Compound(x, p, n) \in S
  <2>1. \A i \in (0 + 1)..n : f(n)[i - 1] \in S => f(n)[i] \in S
    BY <1>3, <1>7
  <2> DEFINE T == {i \in Int : f(n)[i] \in S}
  <2>2. 0 \in T /\ \A i \in (0 + 1)..n : i - 1 \in T => i \in T
    BY <1>3, <1>7, <2>1
  <2> HIDE DEF T
  <2>3. 0..n \subseteq T
    BY <2>2, YearByYear
  <2> QED BY <1>4, <2>3 DEF T
<1>8. x = 0 \/ p = 0 => Compound(x, p, n) = x
  <2> SUFFICES ASSUME x = 0 \/ p = 0 PROVE Compound(x, p, n) \in {x}
    OBVIOUS
  <2>1. \A y \in Int : y \in {x} => Grow(y, p) \in {x}
    BY GrowFacts
  <2> QED BY <1>7, <2>1
<1>9. x >= 0 /\ p >= -100 => Compound(x, p, n) >= 0
  <2> SUFFICES ASSUME x >= 0, p >= -100 PROVE Compound(x, p, n) \in Nat
    OBVIOUS
  <2>1. ASSUME NEW y \in Nat PROVE Grow(y, p) \in Nat
    <3>1. Grow(y, p) \in Int /\ Grow(0, p) = 0
      BY GrowFacts, GrowIsInt
    <3>2. Grow(0, p) <= Grow(y, p)
      BY GrowMore
    <3> QED BY <3>1, <3>2
  <2>2. x \in Nat /\ \A y \in Int : y \in Nat => Grow(y, p) \in Nat
    BY <2>1
  <2> QED BY <1>7, <2>2, Zenon
<1> QED BY <1>5, <1>6, <1>8, <1>9

-----------------------------------------------------------------------------
(* The search                                                              *)

Brackets == [lo : Int, hi : Int]

Middle(v) == (v.lo + v.hi) \div 2

Halved(v, enough) == IF Middle(v) \in enough THEN [v EXCEPT !.hi = Middle(v)] ELSE [v EXCEPT !.lo = Middle(v)]

(* What a bracket keeps while it is halved, and how wide it still is.      *)
Bracketing(v, enough, low, high, width) ==
    /\ v \in Brackets
    /\ low <= v.lo /\ v.lo <= v.hi /\ v.hi <= high
    /\ v.hi = high \/ v.hi \in enough
    /\ v.lo = low \/ v.lo \notin enough
    /\ v.lo < v.hi \/ v.hi = low
    /\ v.hi - v.lo <= width

(* Halving a bracket keeps it one, of half the width.                      *)
LEMMA HalvedFacts ==
    ASSUME NEW v \in Brackets, NEW enough
    PROVE  /\ Halved(v, enough) \in Brackets /\ Middle(v) \in Int
           /\ Middle(v) \in enough => Halved(v, enough).lo = v.lo /\ Halved(v, enough).hi = Middle(v)
           /\ Middle(v) \notin enough => Halved(v, enough).lo = Middle(v) /\ Halved(v, enough).hi = v.hi
<1>1. v.lo \in Int /\ v.hi \in Int
  BY DEF Brackets
<1>2. Middle(v) \in Int
  BY <1>1 DEF Middle
<1> QED BY <1>1, <1>2 DEF Halved, Brackets

(* Each iteration of the search does so.                                   *)
LEMMA HalvingBrackets ==
    ASSUME NEW v, NEW enough, NEW low \in Int, NEW high \in Int, NEW width \in Int,
           Bracketing(v, enough, low, high, 2 * width)
    PROVE  Bracketing(Halved(v, enough), enough, low, high, width)
<1> DEFINE w == Halved(v, enough)
           mid == Middle(v)
<1>1. /\ w \in Brackets /\ mid \in Int /\ v \in Brackets
      /\ mid \in enough => w.lo = v.lo /\ w.hi = mid
      /\ mid \notin enough => w.lo = mid /\ w.hi = v.hi
  BY HalvedFacts DEF Bracketing
<1>2. v.lo \in Int /\ v.hi \in Int /\ 2 * mid <= v.lo + v.hi /\ v.lo + v.hi <= 2 * mid + 1
  BY <1>1 DEF Brackets, Middle
<1> HIDE DEF w, mid
<1>3. /\ low <= v.lo /\ v.lo <= v.hi /\ v.hi <= high
      /\ v.hi = high \/ v.hi \in enough
      /\ v.lo = low \/ v.lo \notin enough
      /\ v.lo < v.hi \/ v.hi = low
      /\ v.hi - v.lo <= 2 * width
  BY DEF Bracketing
<1>4. CASE mid \in enough
  <2>1. w.lo = v.lo /\ w.hi = mid
    BY <1>1, <1>4
  <2>2. v.lo = mid => v.lo = low
    BY <1>3, <1>4
  <2>3. v.lo <= mid /\ mid <= v.hi /\ mid - v.lo <= width
    BY <1>1, <1>2, <1>3
  <2> QED BY <1>1, <1>2, <1>3, <1>4, <2>1, <2>2, <2>3 DEF Bracketing, w
<1>5. CASE mid \notin enough
  <2>1. w.lo = mid /\ w.hi = v.hi
    BY <1>1, <1>5
  <2>2. v.lo <= mid /\ mid <= v.hi /\ v.hi - mid <= width /\ (v.lo < v.hi => mid < v.hi)
    BY <1>1, <1>2, <1>3
  <2> QED BY <1>1, <1>2, <1>3, <1>5, <2>1, <2>2 DEF Bracketing, w
<1> QED BY <1>4, <1>5

(* The search ends within a unit of its cap or of a sum that is enough, at *)
(* a sum that is not, or where it began.                                   *)
LEMMA SearchFacts ==
    ASSUME NEW enough, NEW low \in Int, NEW high \in Int, low <= high,
           high - low <= Compound(1, 100, Iterations)
    PROVE  LET x == Bisect(enough, low, high)
           IN  /\ x \in low..high
               /\ x = low \/ x \notin enough
               /\ x = high \/ x \in enough \/ x + 1 = high \/ x + 1 \in enough
<1> DEFINE start == [lo |-> low, hi |-> high]
           turn == [p \in Int \X Brackets |-> Halved(p[2], enough)]
           Solution(f) == f = [i \in 0..Iterations |-> IF i = 0 THEN start ELSE Halved(f[i - 1], enough)]
<1>1. Iterations \in Nat
  BY ProjectionsAssumption
<1>2. start \in Brackets
  BY DEF Brackets
<1>3. \E f : Solution(f)
  <2>1. \A n \in (0 + 1)..Iterations : \A v \in Brackets :
           turn[<<n, v>>] = Halved(v, enough) /\ turn[<<n, v>>] \in Brackets
    BY HalvedFacts
  <2> HIDE DEF turn, start
  <2>2. PICK f : Runs(f, 0, Iterations, start, turn) /\ \A n \in 0..Iterations : f[n] \in Brackets
    <3>1. 0 \in Int /\ Iterations \in Int
      BY <1>1
    <3> QED BY <1>2, <2>1, <3>1, RunExists
  <2>3. \A n \in 0..Iterations : n # 0 => turn[<<n, f[n - 1]>>] = Halved(f[n - 1], enough)
    BY <1>1, <2>1, <2>2
  <2>4. Solution(f)
    BY <2>2, <2>3 DEF Runs
  <2> QED BY <2>4
<1> DEFINE b == CHOOSE f : Solution(f)
<1>4. Bisect(enough, low, high) = (b[Iterations].lo + b[Iterations].hi) \div 2
  BY Zenon DEF Bisect, Halved, Middle
<1>5. Solution(b)
  BY <1>3
<1> HIDE DEF b
<1>6. b[0] = start /\ \A i \in (0 + 1)..Iterations : b[i] = Halved(b[i - 1], enough)
  BY <1>1, <1>5
<1> HIDE DEF start
<1> DEFINE width(i) == Compound(1, 100, Iterations - i)
           T == {i \in 0..Iterations : Bracketing(b[i], enough, low, high, width(i))}
<1>7. 0 \in T
  <2>1. start.lo = low /\ start.hi = high /\ width(0) = Compound(1, 100, Iterations)
    BY <1>1 DEF start
  <2>2. Bracketing(start, enough, low, high, width(0))
    <3> HIDE DEF width
    <3> QED BY <1>2, <2>1 DEF Bracketing
  <2> QED BY <1>1, <1>6, <2>2
<1>8. ASSUME NEW i \in (0 + 1)..Iterations, i - 1 \in T PROVE i \in T
  <2>1. Iterations - i \in Nat /\ Iterations - (i - 1) = (Iterations - i) + 1 /\ i \in 0..Iterations
    BY <1>1
  <2>2. width(i) \in Int /\ width(i - 1) = Grow(width(i), 100)
    <3>1. PICK k \in Nat : k = Iterations - i
      BY <2>1
    <3>2. PICK x \in Int, p \in Int : x = 1 /\ p = 100
      OBVIOUS
    <3>3. Compound(x, p, k) \in Int /\ Compound(x, p, k + 1) = Grow(Compound(x, p, k), p)
      BY CompoundFacts, Zenon
    <3> QED BY <2>1, <3>1, <3>2, <3>3
  <2>3. width(i - 1) = 2 * width(i)
    <3> HIDE DEF width
    <3> QED BY <2>2, GrowFacts
  <2>4. Bracketing(b[i - 1], enough, low, high, 2 * width(i))
    <3> HIDE DEF width
    <3> QED BY <1>8, <2>3
  <2>5. Bracketing(Halved(b[i - 1], enough), enough, low, high, width(i))
    <3> HIDE DEF width
    <3> QED BY <2>2, <2>4, HalvingBrackets
  <2> QED BY <1>6, <2>1, <2>5
<1>9. 0..Iterations \subseteq T
  <2> HIDE DEF T
  <2> QED BY <1>1, <1>7, <1>8, YearByYear
<1>10. Bracketing(b[Iterations], enough, low, high, 1)
  <2>1. Iterations \in T /\ Iterations - Iterations = 0
    BY <1>1, <1>9
  <2>2. width(Iterations) = 1
    BY <2>1, CompoundFacts
  <2> HIDE DEF width
  <2> QED BY <2>1, <2>2
<1> DEFINE lo == b[Iterations].lo
           hi == b[Iterations].hi
<1>11. /\ lo \in Int /\ hi \in Int
       /\ low <= lo /\ lo <= hi /\ hi <= high
       /\ hi = high \/ hi \in enough
       /\ lo = low \/ lo \notin enough
       /\ lo < hi \/ hi = low
       /\ hi - lo <= 1
  BY <1>10 DEF Bracketing, Brackets
<1> HIDE DEF lo, hi
<1>12. Bisect(enough, low, high) = (lo + hi) \div 2
  BY <1>4 DEF lo, hi
<1>13. (lo + hi) \div 2 = lo /\ (hi = lo \/ hi = lo + 1)
  BY <1>11
<1> QED BY <1>11, <1>12, <1>13

(* Where more is enough too, and a unit less than what the search found    *)
(* wanting is not, the search separates the sums that are enough from      *)
(* those that are not.                                                     *)
LEMMA SearchSeparates ==
    ASSUME NEW enough, NEW good, NEW low \in Int, NEW high \in Int, low <= high,
           high - low <= Compound(1, 100, Iterations),
           low = 0 \/ low \notin good, high \in good,
           \A s \in Int : s \in enough => s \in good,
           \A s, t \in Int : s <= t /\ s \in good => t \in good,
           \A s \in Int : s \notin enough => s - 1 \notin good
    PROVE  LET x == Bisect(enough, low, high)
           IN  /\ x \in low..high /\ x + 1 \in good
               /\ \A s \in Nat : s < x => s \notin good
<1> DEFINE x == Bisect(enough, low, high)
<1>1. /\ x \in low..high
      /\ x = low \/ x \notin enough
      /\ x = high \/ x \in enough \/ x + 1 = high \/ x + 1 \in enough
  BY SearchFacts
<1> HIDE DEF x
<1>2. x \in Int /\ x + 1 \in Int /\ x <= x + 1 /\ x - 1 \in Int
  BY <1>1
<1>3. x + 1 \in good
  BY <1>1, <1>2
<1>4. ASSUME NEW s \in Nat, s < x PROVE s \notin good
  <2>1. CASE x = low
    BY <1>4, <2>1
  <2>2. CASE x \notin enough
    <3>1. x - 1 \notin good /\ s <= x - 1
      BY <1>2, <1>4, <2>2
    <3> QED BY <1>2, <3>1
  <2> QED BY <1>1, <2>1, <2>2
<1> QED BY <1>1, <1>3, <1>4 DEF x

(* The rupees shown are within half a rupee of the amount.                 *)
LEMMA RoundedFacts ==
    ASSUME NEW x \in Int
    PROVE  /\ Rupee \in Nat \ {0} /\ Rounded(x) \in Int
           /\ 2 * x - Rupee < 2 * Rounded(x) /\ 2 * Rounded(x) <= 2 * x + Rupee
           /\ x >= 0 => Rounded(x) >= 0
           /\ Rounded(0) = 0
<1>1. Rupee \in Nat \ {0}
  BY ProjectionsAssumption
<1>2. ASSUME NEW y \in Int
      PROVE  /\ Rounded(y) \in Int
             /\ 2 * y - Rupee < 2 * Rounded(y) /\ 2 * Rounded(y) <= 2 * y + Rupee
             /\ y >= 0 => Rounded(y) >= 0
  <2> DEFINE d == 2 * Rupee
             n == 2 * y + Rupee
             q == n \div d
  <2>1. d \in Nat \ {0} /\ n \in Int
    BY <1>1
  <2> HIDE DEF d, n
  <2>2. q \in Int /\ q * d <= n /\ n < (q + 1) * d /\ (n >= 0 => q >= 0)
    BY <2>1
  <2> HIDE DEF q
  <2>3. q * Rupee \in Int /\ q * d = 2 * (q * Rupee) /\ (q + 1) * d = 2 * (q * Rupee) + 2 * Rupee
    BY <1>1, <2>2 DEF d
  <2>4. q >= 0 => q * Rupee >= 0
    BY <1>1, <2>2
  <2>5. Rounded(y) = q * Rupee
    BY DEF Rounded, q, n, d
  <2>6. n = 2 * y + Rupee
    BY DEF n
  <2> QED BY <1>1, <2>2, <2>3, <2>4, <2>5, <2>6
<1>3. Rounded(0) = 0
  <2>1. 0 \in Int /\ Rounded(0) \in Int
    BY <1>2
  <2>2. (2 * 0 + Rupee) \div (2 * Rupee) = 0
    BY <1>1
  <2> QED BY <1>1, <2>2 DEF Rounded
<1> QED BY <1>1, <1>2, <1>3

(* A rupee more than what is shown is more than the amount, a rupee less   *)
(* is less.                                                                *)
LEMMA RupeeBeside ==
    ASSUME NEW x \in Int
    PROVE  x + 1 <= Rounded(x) + Rupee /\ Rounded(x) - Rupee < x
<1> DEFINE a == Rounded(x)
<1>1. /\ Rupee \in Nat \ {0} /\ a \in Int
      /\ 2 * x - Rupee < 2 * a /\ 2 * a <= 2 * x + Rupee
  BY RoundedFacts
<1> HIDE DEF a
<1>2. x + 1 <= a + Rupee /\ a - Rupee < x
  BY <1>1
<1> QED BY <1>2 DEF a

(* A sum that was searched, and rounded, is right to the rupee.            *)
LEMMA SearchIsRight ==
    ASSUME NEW good, NEW x \in Int, x + 1 \in good,
           \A s \in Nat : s < x => s \notin good,
           \A s, t \in Int : s <= t /\ s \in good => t \in good
    PROVE  /\ Rounded(x) \in Int /\ Rounded(x) + Rupee \in good
           /\ Rounded(x) >= Rupee => Rounded(x) - Rupee \notin good
<1> DEFINE a == Rounded(x)
<1>1. a \in Int /\ Rupee \in Nat \ {0} /\ x + 1 <= a + Rupee /\ a - Rupee < x
  BY RoundedFacts, RupeeBeside
<1> HIDE DEF a
<1>2. x + 1 \in Int /\ a + Rupee \in Int
  BY <1>1
<1>3. a + Rupee \in good
  BY <1>1, <1>2
<1>4. ASSUME a >= Rupee PROVE a - Rupee \notin good
  <2>1. a - Rupee \in Nat
    BY <1>1, <1>4
  <2> QED BY <1>1, <2>1
<1> QED BY <1>1, <1>3, <1>4 DEF a

-----------------------------------------------------------------------------
(* Simulated lives                                                         *)

(* The rate of two investments lies between theirs.                        *)
LEMMA BlendedFacts ==
    ASSUME NEW equity \in Int, NEW debt \in Int, NEW allocation \in Allocations
    PROVE  /\ Blended(equity, debt, allocation) \in Int
           /\ equity >= -100 /\ debt >= -100 => Blended(equity, debt, allocation) >= -100
           /\ equity >= 0 /\ debt >= 0 => Blended(equity, debt, allocation) >= 0
<1>1. EquityWeight[allocation] \in {80, 60, 30}
  BY DEF Allocations, EquityWeight
<1>2. PICK w \in Int : w = EquityWeight[allocation] /\ w \in {80, 60, 30}
  BY <1>1
<1>3. Blended(equity, debt, allocation) = (w * equity + (100 - w) * debt) \div 100
  BY <1>2 DEF Blended
<1>4. CASE w = 80
  BY <1>3, <1>4
<1>5. CASE w = 60
  BY <1>3, <1>5
<1>6. CASE w = 30
  BY <1>3, <1>6
<1> QED BY <1>2, <1>4, <1>5, <1>6

(* The inputs of a simulation.                                             *)
Life(in) ==
    /\ in.currentAge \in Int /\ in.contributionEndAge \in Int /\ in.retirementAge \in Int
    /\ in.lifeExpectancy \in Int /\ in.monthlyExpenseToday \in Int /\ in.currentSavings \in Int
    /\ in.inflationPct \in Int /\ in.equityReturnPct \in Int /\ in.debtReturnPct \in Int
    /\ in.preRetirementAllocation \in Allocations /\ in.postRetirementAllocation \in Allocations
    /\ in.stepUpEnabled \in BOOLEAN /\ in.stepUpPct \in Int

RateOf(in) == [age \in Int |-> RateInYear(in, age)]

FlowOf(in, sip) == [age \in Int |-> FlowInYear(in, sip, age)]

BalanceOf(in, sip) == Balances(in.currentAge, in.lifeExpectancy, in.currentSavings, RateOf(in), FlowOf(in, sip))

(* What is invested in a year: nothing of nothing, every year the same if  *)
(* it does not rise.                                                       *)
LEMMA SipFacts ==
    ASSUME NEW in, Life(in), NEW sip \in Int, NEW age \in Int, age > in.currentAge
    PROVE  /\ SipInYear(in, sip, age) \in Int
           /\ sip = 0 => SipInYear(in, sip, age) = 0
           /\ ~in.stepUpEnabled /\ age <= in.contributionEndAge => SipInYear(in, sip, age) = sip
<1>1. PICK n \in Nat, p \in Int :
         n = age - in.currentAge - 1 /\ p = IF in.stepUpEnabled THEN in.stepUpPct ELSE 0
  <2>1. age - in.currentAge - 1 \in Nat /\ (IF in.stepUpEnabled THEN in.stepUpPct ELSE 0) \in Int
    BY DEF Life
  <2> QED BY <2>1
<1>2. SipInYear(in, sip, age) = IF age <= in.contributionEndAge THEN Compound(sip, p, n) ELSE 0
  BY <1>1, Zenon DEF SipInYear
<1>3. Compound(sip, p, n) \in Int /\ (sip = 0 \/ p = 0 => Compound(sip, p, n) = sip)
  BY CompoundFacts
<1> QED BY <1>1, <1>2, <1>3

(* A simulation is a ledger.                                               *)
LEMMA SimulationIs ==
    ASSUME NEW in, Life(in), NEW sip \in Int
    PROVE  /\ Books(in.currentAge, in.lifeExpectancy, in.currentSavings, RateOf(in), FlowOf(in, sip))
           /\ IsLedger(BalanceOf(in, sip), in.currentAge, in.lifeExpectancy, in.currentSavings,
                       RateOf(in), FlowOf(in, sip))
           /\ Simulate(in, sip).finalBalance = BalanceOf(in, sip)[in.lifeExpectancy]
           /\ Simulate(in, sip).corpus = BalanceOf(in, sip)[in.retirementAge]
<1>1. ASSUME NEW n \in (in.currentAge + 1)..in.lifeExpectancy
      PROVE  RateOf(in)[n] \in Int /\ FlowOf(in, sip)[n] \in Int
  <2>1. n \in Int /\ n > in.currentAge
    BY DEF Life
  <2>2. RateOf(in)[n] \in Int
    <3>1. PICK allocation \in Allocations :
            allocation = IF n <= in.retirementAge THEN in.preRetirementAllocation ELSE in.postRetirementAllocation
      BY DEF Life
    <3>2. RateOf(in)[n] = Blended(in.equityReturnPct, in.debtReturnPct, allocation)
      BY <2>1, <3>1, Zenon DEF RateOf, RateInYear
    <3>3. in.equityReturnPct \in Int /\ in.debtReturnPct \in Int
      BY DEF Life
    <3> QED BY <3>2, <3>3, BlendedFacts
  <2>3. Withdrawal(in, n) \in Int
    <3>1. PICK k \in Nat, x \in Int : k = n - in.currentAge - 1 /\ x = 12 * in.monthlyExpenseToday
      <4>1. n - in.currentAge - 1 \in Nat /\ 12 * in.monthlyExpenseToday \in Int
        BY <2>1 DEF Life
      <4> QED BY <4>1
    <3>2. Withdrawal(in, n) = Compound(x, in.inflationPct, k)
      BY <3>1, Zenon DEF Withdrawal
    <3>3. PICK p \in Int : p = in.inflationPct
      BY DEF Life
    <3>4. Compound(x, p, k) \in Int
      BY CompoundFacts
    <3> QED BY <3>2, <3>3, <3>4
  <2>4. SipInYear(in, sip, n) \in Int
    BY <2>1, SipFacts
  <2>5. FlowInYear(in, sip, n) \in Int
    BY <2>3, <2>4 DEF FlowInYear
  <2>6. FlowOf(in, sip)[n] = FlowInYear(in, sip, n)
    BY <2>1 DEF FlowOf
  <2> QED BY <2>2, <2>5, <2>6
<1>2. Books(in.currentAge, in.lifeExpectancy, in.currentSavings, RateOf(in), FlowOf(in, sip))
  BY <1>1 DEF Books, Life
<1>3. IsLedger(BalanceOf(in, sip), in.currentAge, in.lifeExpectancy, in.currentSavings,
               RateOf(in), FlowOf(in, sip))
  BY <1>2, BalancesAreLedger DEF BalanceOf
<1>4. Simulate(in, sip) = Outcome(in, sip, BalanceOf(in, sip))
  BY DEF Simulate, BalanceOf, RateOf, FlowOf
<1>5. \A balance : Outcome(in, sip, balance).finalBalance = balance[in.lifeExpectancy]
                   /\ Outcome(in, sip, balance).corpus = balance[in.retirementAge]
  BY DEF Outcome
<1> QED BY <1>2, <1>3, <1>4, <1>5

-----------------------------------------------------------------------------
(* The retirement page                                                     *)

(* The inputs of the coast page, which the retirement page has too.        *)
CoastInputs(in) ==
    /\ in.currentAge \in Int /\ in.retirementAge \in Int /\ in.lifeExpectancy \in Int
    /\ in.monthlyExpenseToday \in Int /\ in.currentSavings \in Int /\ in.inflationPct \in Int
    /\ in.equityReturnPct \in Int /\ in.debtReturnPct \in Int
    /\ in.preRetirementAllocation \in Allocations /\ in.postRetirementAllocation \in Allocations

(* Coasting is a life without contributions.                               *)
LEMMA CoastLife ==
    ASSUME NEW in, CoastInputs(in), NEW savings \in Int
    PROVE  Life(ToCoastInputs(in, savings))
BY DEF Life, CoastInputs, ToCoastInputs

(* Nothing is invested: the retirement page simulates what the coast page  *)
(* does.                                                                   *)
LEMMA CoastingIsInvestingNothing ==
    ASSUME NEW in, Life(in), in.currentAge < in.retirementAge, in.retirementAge <= in.lifeExpectancy
    PROVE  Simulate(in, 0).finalBalance = Simulate(ToCoastInputs(in, in.currentSavings), 0).finalBalance
<1> DEFINE coast == ToCoastInputs(in, in.currentSavings)
           a == in.currentAge
           b == in.lifeExpectancy
           f == BalanceOf(in, 0)
           g == BalanceOf(coast, 0)
<1>1. Life(coast)
  BY CoastLife DEF Life, CoastInputs
<1>2. /\ coast.currentAge = a /\ coast.lifeExpectancy = b /\ coast.currentSavings = in.currentSavings
      /\ coast.retirementAge = in.retirementAge /\ coast.monthlyExpenseToday = in.monthlyExpenseToday
      /\ coast.inflationPct = in.inflationPct /\ coast.equityReturnPct = in.equityReturnPct
      /\ coast.debtReturnPct = in.debtReturnPct
      /\ coast.preRetirementAllocation = in.preRetirementAllocation
      /\ coast.postRetirementAllocation = in.postRetirementAllocation
  BY DEF ToCoastInputs
<1> HIDE DEF coast
<1>3. 0 \in Int /\ a \in Int /\ b \in Int /\ a <= b
  BY DEF Life
<1>4. /\ Books(a, b, in.currentSavings, RateOf(in), FlowOf(in, 0))
      /\ IsLedger(f, a, b, in.currentSavings, RateOf(in), FlowOf(in, 0))
      /\ Simulate(in, 0).finalBalance = f[b]
  BY <1>3, SimulationIs
<1>5. /\ Books(a, b, in.currentSavings, RateOf(coast), FlowOf(coast, 0))
      /\ IsLedger(g, a, b, in.currentSavings, RateOf(coast), FlowOf(coast, 0))
      /\ Simulate(coast, 0).finalBalance = g[b]
  BY <1>1, <1>2, <1>3, SimulationIs
<1>6. ASSUME NEW n \in (a + 1)..b
      PROVE  RateOf(in)[n] = RateOf(coast)[n] /\ FlowOf(in, 0)[n] = FlowOf(coast, 0)[n]
  <2>1. n \in Int /\ n > a
    BY <1>3
  <2>2. RateInYear(in, n) = RateInYear(coast, n)
    BY <1>2 DEF RateInYear
  <2>3. Withdrawal(in, n) = Withdrawal(coast, n)
    BY <1>2 DEF Withdrawal
  <2>4. SipInYear(in, 0, n) = 0
    BY <1>3, <2>1, SipFacts
  <2>5. SipInYear(coast, 0, n) = 0
    BY <1>1, <1>2, <1>3, <2>1, SipFacts
  <2>6. FlowInYear(in, 0, n) = FlowInYear(coast, 0, n)
    BY <1>2, <2>3, <2>4, <2>5 DEF FlowInYear
  <2> QED BY <2>1, <2>2, <2>6 DEF RateOf, FlowOf
<1> HIDE DEF f, g, a, b
<1>7. \A n \in a..b : f[n] = g[n]
  BY <1>4, <1>5, <1>6, SameBooks
<1>8. f[b] = g[b]
  BY <1>3, <1>7
<1> QED BY <1>4, <1>5, <1>8 DEF coast

(* A larger sum never compounds to less.                                   *)
LEMMA CompoundMore ==
    ASSUME NEW x \in Int, NEW y \in Int, x <= y, NEW p \in Int, p >= -100, NEW n \in Nat
    PROVE  Compound(x, p, n) <= Compound(y, p, n)
<1> DEFINE T == {m \in Nat : Compound(x, p, m) <= Compound(y, p, m)}
<1>1. \A m \in Nat : /\ Compound(x, p, m) \in Int /\ Compound(y, p, m) \in Int
                     /\ Compound(x, p, m + 1) = Grow(Compound(x, p, m), p)
                     /\ Compound(y, p, m + 1) = Grow(Compound(y, p, m), p)
  <2> TAKE m \in Nat
  <2>1. Compound(x, p, m) \in Int /\ Compound(x, p, m + 1) = Grow(Compound(x, p, m), p)
    BY CompoundFacts, Zenon
  <2>2. Compound(y, p, m) \in Int /\ Compound(y, p, m + 1) = Grow(Compound(y, p, m), p)
    BY CompoundFacts, Zenon
  <2> QED BY <2>1, <2>2
<1>2. Compound(x, p, 0) = x /\ Compound(y, p, 0) = y
  <2>1. 0 \in Nat
    OBVIOUS
  <2> QED BY <2>1, CompoundFacts, Zenon
<1>3. 0 \in T
  BY <1>2
<1>4. ASSUME NEW m \in (0 + 1)..n, m - 1 \in T PROVE m \in T
  <2>1. PICK k \in Nat : k = m - 1 /\ k + 1 = m
    BY <1>4
  <2>2. Grow(Compound(x, p, k), p) <= Grow(Compound(y, p, k), p)
    BY <1>1, <1>4, <2>1, GrowMore
  <2>3. Compound(x, p, k + 1) <= Compound(y, p, k + 1)
    BY <1>1, <2>1, <2>2, Zenon
  <2> QED BY <2>1, <2>3
<1> HIDE DEF T
<1>5. 0..n \subseteq T
  BY <1>3, <1>4, YearByYear
<1> QED BY <1>5 DEF T

(* Whoever invests more every month has no less left, if nothing loses     *)
(* more than all of it.                                                    *)
LEMMA MoreInvestedMoreLeft ==
    ASSUME NEW in, Life(in), in.currentAge <= in.lifeExpectancy,
           in.equityReturnPct >= -100, in.debtReturnPct >= -100,
           in.stepUpEnabled => in.stepUpPct >= -100, NEW s \in Int, NEW t \in Int
    PROVE  /\ Simulate(in, s).finalBalance \in Int
           /\ s <= t => Simulate(in, s).finalBalance <= Simulate(in, t).finalBalance
<1> DEFINE a == in.currentAge
           b == in.lifeExpectancy
           c == in.currentSavings
           f == BalanceOf(in, s)
           g == BalanceOf(in, t)
<1>1. a \in Int /\ b \in Int /\ a <= b /\ c \in Int
  BY DEF Life
<1>2. /\ Books(a, b, c, RateOf(in), FlowOf(in, s)) /\ IsLedger(f, a, b, c, RateOf(in), FlowOf(in, s))
      /\ Books(a, b, c, RateOf(in), FlowOf(in, t)) /\ IsLedger(g, a, b, c, RateOf(in), FlowOf(in, t))
      /\ Simulate(in, s).finalBalance = f[b] /\ Simulate(in, t).finalBalance = g[b]
  BY SimulationIs
<1>3. ASSUME NEW n \in Int, n > a PROVE RateOf(in)[n] >= -100
  <2>1. PICK allocation \in Allocations :
          allocation = IF n <= in.retirementAge THEN in.preRetirementAllocation ELSE in.postRetirementAllocation
    BY DEF Life
  <2>2. RateOf(in)[n] = Blended(in.equityReturnPct, in.debtReturnPct, allocation)
    BY <2>1, Zenon DEF RateOf, RateInYear
  <2>3. in.equityReturnPct \in Int /\ in.debtReturnPct \in Int
    BY DEF Life
  <2> QED BY <2>2, <2>3, BlendedFacts
<1>4. ASSUME NEW n \in Int, n > a, s <= t PROVE FlowOf(in, s)[n] <= FlowOf(in, t)[n]
  <2>1. PICK k \in Nat, p \in Int : /\ k = n - a - 1 /\ p = (IF in.stepUpEnabled THEN in.stepUpPct ELSE 0)
                                    /\ p >= -100
    <3>1. n - a - 1 \in Nat
      BY <1>1, <1>4
    <3>2. (IF in.stepUpEnabled THEN in.stepUpPct ELSE 0) \in Int
      BY DEF Life
    <3>3. (IF in.stepUpEnabled THEN in.stepUpPct ELSE 0) >= -100
      OBVIOUS
    <3> QED BY <3>1, <3>2, <3>3
  <2>2. /\ SipInYear(in, s, n) = (IF n <= in.contributionEndAge THEN Compound(s, p, k) ELSE 0)
        /\ SipInYear(in, t, n) = (IF n <= in.contributionEndAge THEN Compound(t, p, k) ELSE 0)
    BY <2>1, Zenon DEF SipInYear
  <2>3. SipInYear(in, s, n) \in Int /\ SipInYear(in, t, n) \in Int
    BY <1>4, SipFacts
  <2>4. SipInYear(in, s, n) <= SipInYear(in, t, n)
    <3>1. Compound(s, p, k) <= Compound(t, p, k)
      BY <1>4, <2>1, CompoundMore
    <3> QED BY <2>2, <2>3, <3>1
  <2>5. /\ FlowOf(in, s)[n] = (IF n <= in.retirementAge THEN 12 * SipInYear(in, s, n) ELSE -Withdrawal(in, n))
        /\ FlowOf(in, t)[n] = (IF n <= in.retirementAge THEN 12 * SipInYear(in, t, n) ELSE -Withdrawal(in, n))
    BY DEF FlowOf, FlowInYear
  <2>6. CASE n <= in.retirementAge
    BY <2>3, <2>4, <2>5, <2>6
  <2>7. CASE ~(n <= in.retirementAge)
    <3>1. FlowOf(in, s)[n] = FlowOf(in, t)[n]
      BY <2>5, <2>7, Zenon
    <3>2. b < n \/ FlowOf(in, s)[n] \in Int
      BY <1>1, <1>2, <1>4 DEF Books
    <3>3. Withdrawal(in, n) \in Int
      <4>1. PICK x \in Int, q \in Int : x = 12 * in.monthlyExpenseToday /\ q = in.inflationPct
        BY DEF Life
      <4>2. Withdrawal(in, n) = Compound(x, q, k)
        BY <2>1, <4>1, Zenon DEF Withdrawal
      <4>3. Compound(x, q, k) \in Int
        BY CompoundFacts
      <4> QED BY <4>2, <4>3
    <3> QED BY <2>5, <2>7, <3>1, <3>3
  <2> QED BY <2>6, <2>7
<1> HIDE DEF f, g, a, b, c
<1>5. f[b] \in Int
  BY <1>1, <1>2, LedgerFacts
<1>6. ASSUME s <= t PROVE f[b] <= g[b]
  <2>1. \A n \in (a + 1)..b : RateOf(in)[n] >= -100 /\ FlowOf(in, s)[n] <= FlowOf(in, t)[n]
    <3> SUFFICES ASSUME NEW n \in (a + 1)..b
                 PROVE  RateOf(in)[n] >= -100 /\ FlowOf(in, s)[n] <= FlowOf(in, t)[n]
      OBVIOUS
    <3>1. n \in Int /\ n > a
      BY <1>1
    <3> QED BY <1>3, <1>4, <1>6, <3>1
  <2>2. c <= c
    BY <1>1
  <2>3. \A n \in a..b : f[n] <= g[n]
    BY <1>2, <2>1, <2>2, LedgersOrdered
  <2> QED BY <1>1, <2>3
<1> QED BY <1>2, <1>5, <1>6

(* The retirement page: its sum makes the money last, to the rupee, and it *)
(* agrees with the coast page.                                             *)
LEMMA RetirementSound ==
    ASSUME NEW in, Life(in)
    PROVE  RetirementAdvice(in, RetirementPanel(in))
<1> DEFINE lasting == {sip \in Int : Simulate(in, sip).finalBalance > 0}
           onTrack == Simulate(in, 0).finalBalance >= 0
           panel   == RetirementPanel(in)
           warned  == \/ in.retirementAge <= in.currentAge
                      \/ in.lifeExpectancy < in.retirementAge
                      \/ in.contributionEndAge <= in.currentAge
           found   == Bisect(lasting, 0, MaxMonthlySip)
           bounded == /\ in.equityReturnPct >= -100 /\ in.debtReturnPct >= -100
                      /\ in.stepUpEnabled => in.stepUpPct >= -100
<1>1. Retirement(in).isAlreadyOnTrack = onTrack /\ Retirement(in).required = Required(onTrack, lasting)
  BY DEF Retirement
<1>2. warned => panel.kind = "warning"
  BY DEF RetirementPanel, Warning
<1>3. ~warned => panel.kind = IF onTrack THEN "onTrack" ELSE "invest"
  BY <1>1 DEF RetirementPanel
<1>4. ~warned => panel.advice = Rounded(Required(onTrack, lasting))
  BY <1>1 DEF RetirementPanel
<1>5. ASSUME panel.kind # "warning" PROVE in.currentAge < in.retirementAge /\ in.retirementAge <= in.lifeExpectancy
  <2>1. ~warned
    BY <1>2, <1>5
  <2> QED BY <2>1 DEF Life
<1>6. ASSUME panel.kind # "warning" PROVE (panel.kind = "onTrack") = (CoastPanel(in).kind = "onTrack")
  <2>1. ~warned
    BY <1>2, <1>6
  <2>2. in.currentAge < in.retirementAge /\ in.retirementAge <= in.lifeExpectancy
    BY <1>5, <1>6
  <2>3. CoastFire(in).isAlreadyCoastFire = onTrack
    BY <2>2, CoastingIsInvestingNothing DEF CoastFire
  <2>4. CoastPanel(in).kind = IF onTrack THEN "onTrack" ELSE "invest"
    BY <2>1, <2>3 DEF CoastPanel
  <2> QED BY <1>3, <2>1, <2>4
<1>7. ASSUME panel.kind = "invest", bounded, MaxMonthlySip \in lasting
      PROVE  /\ panel.advice \in Int /\ panel.advice + Rupee \in lasting
             /\ panel.advice >= Rupee => panel.advice - Rupee \notin lasting
  <2>1. panel.advice = Rounded(found)
    BY <1>2, <1>3, <1>4, <1>7 DEF Required
  <2>2. /\ 0 \in Int /\ MaxMonthlySip \in Int /\ 0 <= MaxMonthlySip
        /\ MaxMonthlySip - 0 <= Compound(1, 100, Iterations)
    BY ProjectionsAssumption
  <2>3. in.currentAge <= in.lifeExpectancy
    BY <1>5, <1>7 DEF Life
  <2>4. \A s, t \in Int : /\ Simulate(in, s).finalBalance \in Int
                          /\ s <= t => Simulate(in, s).finalBalance <= Simulate(in, t).finalBalance
    BY <1>7, <2>3, MoreInvestedMoreLeft
  <2>5. \A s, t \in Int : s <= t /\ s \in lasting => t \in lasting
    <3> SUFFICES ASSUME NEW s \in Int, NEW t \in Int, s <= t, s \in lasting PROVE t \in lasting
      OBVIOUS
    <3>1. /\ Simulate(in, s).finalBalance \in Int /\ Simulate(in, t).finalBalance \in Int
          /\ Simulate(in, s).finalBalance <= Simulate(in, t).finalBalance
      BY <2>4, Zenon
    <3> QED BY <3>1
  <2> HIDE DEF lasting
  <2>6. \A s \in Int : s \notin lasting => s - 1 \notin lasting
    BY <2>5
  <2>7. found \in 0..MaxMonthlySip /\ found + 1 \in lasting /\ \A s \in Nat : s < found => s \notin lasting
    BY <1>7, <2>2, <2>5, <2>6, SearchSeparates
  <2> HIDE DEF found
  <2>8. /\ Rounded(found) \in Int /\ Rounded(found) + Rupee \in lasting
        /\ Rounded(found) >= Rupee => Rounded(found) - Rupee \notin lasting
    BY <2>5, <2>7, SearchIsRight
  <2> QED BY <2>1, <2>8
<1> HIDE DEF panel, bounded
<1>8. ASSUME panel.kind = "invest", bounded, Simulate(in, MaxMonthlySip).finalBalance > 0
      PROVE  /\ Simulate(in, panel.advice + Rupee).finalBalance > 0
             /\ panel.advice >= Rupee => ~(Simulate(in, panel.advice - Rupee).finalBalance > 0)
  <2>1. MaxMonthlySip \in lasting
    BY <1>8, ProjectionsAssumption
  <2>2. /\ panel.advice \in Int /\ panel.advice + Rupee \in lasting
        /\ panel.advice >= Rupee => panel.advice - Rupee \notin lasting
    BY <1>7, <1>8, <2>1
  <2>3. panel.advice - Rupee \in Int
    BY <2>2, ProjectionsAssumption
  <2> QED BY <2>2, <2>3
<1> QED BY <1>6, <1>8, Zenon DEF RetirementAdvice, ToTheRupee, panel, bounded

-----------------------------------------------------------------------------
(* The coast page                                                          *)

Worth(in, savings) == Simulate(ToCoastInputs(in, savings), 0).finalBalance

(* Without losses, whoever starts with more ends with more.                *)
LEMMA MoreSavingsMoreWorth ==
    ASSUME NEW in, CoastInputs(in), in.currentAge < in.retirementAge, in.retirementAge <= in.lifeExpectancy,
           NEW s \in Int, NEW t \in Int
    PROVE  /\ Worth(in, s) \in Int
           /\ s < t /\ in.equityReturnPct >= 0 /\ in.debtReturnPct >= 0 => Worth(in, s) < Worth(in, t)
<1> DEFINE c == ToCoastInputs(in, s)
           d == ToCoastInputs(in, t)
           a == in.currentAge
           b == in.lifeExpectancy
           f == BalanceOf(c, 0)
           g == BalanceOf(d, 0)
<1>1. Life(c) /\ Life(d)
  BY CoastLife
<1>2. /\ c.currentAge = a /\ c.lifeExpectancy = b /\ c.currentSavings = s
      /\ d.currentAge = a /\ d.lifeExpectancy = b /\ d.currentSavings = t
  BY DEF ToCoastInputs
<1>3. 0 \in Int /\ a \in Int /\ b \in Int /\ a <= b
  BY DEF CoastInputs
<1>4. RateOf(c) = RateOf(d) /\ FlowOf(c, 0) = FlowOf(d, 0)
  <2>1. /\ c.retirementAge = d.retirementAge /\ c.monthlyExpenseToday = d.monthlyExpenseToday
        /\ c.inflationPct = d.inflationPct /\ c.equityReturnPct = d.equityReturnPct
        /\ c.debtReturnPct = d.debtReturnPct /\ c.contributionEndAge = d.contributionEndAge
        /\ c.preRetirementAllocation = d.preRetirementAllocation /\ c.stepUpPct = d.stepUpPct
        /\ c.postRetirementAllocation = d.postRetirementAllocation /\ c.stepUpEnabled = d.stepUpEnabled
    BY DEF ToCoastInputs
  <2> HIDE DEF c, d
  <2>2. \A age : RateInYear(c, age) = RateInYear(d, age)
    BY <2>1, Zenon DEF RateInYear
  <2>3. \A age : SipInYear(c, 0, age) = SipInYear(d, 0, age)
    BY <1>2, <2>1, Zenon DEF SipInYear
  <2>4. \A age : Withdrawal(c, age) = Withdrawal(d, age)
    BY <1>2, <2>1, Zenon DEF Withdrawal
  <2>5. \A age : FlowInYear(c, 0, age) = FlowInYear(d, 0, age)
    BY <2>1, <2>3, <2>4, Zenon DEF FlowInYear
  <2> QED BY <2>2, <2>5 DEF RateOf, FlowOf
<1>5. ASSUME in.equityReturnPct >= 0, in.debtReturnPct >= 0
      PROVE  \A n \in Int : RateOf(c)[n] >= 0
  <2> SUFFICES ASSUME NEW n \in Int PROVE RateOf(c)[n] >= 0
    OBVIOUS
  <2>1. PICK allocation \in Allocations :
          allocation = IF n <= c.retirementAge THEN c.preRetirementAllocation ELSE c.postRetirementAllocation
    BY <1>1 DEF Life
  <2>2. c.equityReturnPct = in.equityReturnPct /\ c.debtReturnPct = in.debtReturnPct
    BY DEF ToCoastInputs
  <2> HIDE DEF c
  <2>3. RateOf(c)[n] = Blended(in.equityReturnPct, in.debtReturnPct, allocation)
    BY <2>1, <2>2 DEF RateOf, RateInYear
  <2> QED BY <1>5, <2>3, BlendedFacts DEF CoastInputs
<1> HIDE DEF c, d
<1>6. /\ Books(a, b, s, RateOf(c), FlowOf(c, 0)) /\ IsLedger(f, a, b, s, RateOf(c), FlowOf(c, 0))
      /\ Worth(in, s) = f[b]
  BY <1>1, <1>2, <1>3, SimulationIs DEF Worth, c
<1>7. /\ Books(a, b, t, RateOf(c), FlowOf(c, 0)) /\ IsLedger(g, a, b, t, RateOf(c), FlowOf(c, 0))
      /\ Worth(in, t) = g[b]
  BY <1>1, <1>2, <1>3, <1>4, SimulationIs DEF Worth, d
<1> HIDE DEF f, g, a, b
<1>8. Worth(in, s) \in Int
  BY <1>3, <1>6, LedgerFacts
<1>9. ASSUME s < t, in.equityReturnPct >= 0, in.debtReturnPct >= 0 PROVE Worth(in, s) < Worth(in, t)
  <2>1. \A n \in (a + 1)..b : /\ RateOf(c)[n] >= -100 /\ RateOf(c)[n] >= 0
                              /\ FlowOf(c, 0)[n] <= FlowOf(c, 0)[n]
    <3>1. \A n \in (a + 1)..b : /\ n \in Int /\ RateOf(c)[n] \in Int /\ FlowOf(c, 0)[n] \in Int
                                /\ RateOf(c)[n] >= 0
      BY <1>3, <1>5, <1>6, <1>9 DEF Books
    <3> QED BY <3>1
  <2>2. s <= t
    BY <1>9
  <2>3. \A n \in a..b : f[n] < g[n]
    BY <1>6, <1>7, <1>9, <2>1, <2>2, LedgersOrdered
  <2> QED BY <1>3, <1>6, <1>7, <2>3
<1> QED BY <1>8, <1>9

(* The coast page: the number is enough and what is missing completes it,  *)
(* to the rupee.                                                           *)
LEMMA CoastSound ==
    ASSUME NEW in, CoastInputs(in), CoastForm \subseteq DOMAIN in
    PROVE  CoastAdvice(in, CoastPanel(in))
<1> DEFINE coasting == {savings \in Int : Worth(in, savings) > 0}
           number == Bisect(coasting, 0, MaxCoastSavings)
           onTrack == Worth(in, in.currentSavings) >= 0
           panel == CoastPanel(in)
           Coasts(savings) == CoastFire([in EXCEPT !.currentSavings = savings]).isAlreadyCoastFire
<1>1. CoastFire(in).isAlreadyCoastFire = onTrack /\ CoastFire(in).coastFireNumber = number
  BY DEF CoastFire, Worth
<1>2. \A savings : Coasts(savings) = (Worth(in, savings) >= 0)
  <2> SUFFICES ASSUME NEW savings PROVE Coasts(savings) = (Worth(in, savings) >= 0)
    OBVIOUS
  <2> DEFINE other == [in EXCEPT !.currentSavings = savings]
  <2>1. /\ other.currentSavings = savings /\ other.currentAge = in.currentAge
        /\ other.retirementAge = in.retirementAge /\ other.lifeExpectancy = in.lifeExpectancy
        /\ other.monthlyExpenseToday = in.monthlyExpenseToday /\ other.inflationPct = in.inflationPct
        /\ other.equityReturnPct = in.equityReturnPct /\ other.debtReturnPct = in.debtReturnPct
        /\ other.preRetirementAllocation = in.preRetirementAllocation
        /\ other.postRetirementAllocation = in.postRetirementAllocation
    BY DEF CoastForm
  <2> HIDE DEF other
  <2>2. ToCoastInputs(other, savings) = ToCoastInputs(in, savings)
    BY <2>1, Zenon DEF ToCoastInputs
  <2>3. CoastFire(other).isAlreadyCoastFire = (Simulate(ToCoastInputs(other, savings), 0).finalBalance >= 0)
    BY <2>1 DEF CoastFire
  <2> QED BY <2>2, <2>3 DEF Worth, other
<1>3. ASSUME in.retirementAge <= in.currentAge \/ in.lifeExpectancy < in.retirementAge
      PROVE  panel.kind = "warning"
  BY <1>3 DEF CoastPanel, Warning
<1> HIDE DEF coasting, number, onTrack
<1>4. ASSUME ~(in.retirementAge <= in.currentAge \/ in.lifeExpectancy < in.retirementAge)
      PROVE  /\ panel.kind = IF onTrack THEN "onTrack" ELSE "invest"
             /\ panel.number = Rounded(number) /\ panel.advice = Rounded(number - in.currentSavings)
  BY <1>1, <1>4 DEF CoastPanel
<1> HIDE DEF panel, Coasts
<1>5. ASSUME panel.kind # "warning", in.equityReturnPct >= 0, in.debtReturnPct >= 0, Coasts(MaxCoastSavings)
      PROVE  /\ Coasts(panel.number + Rupee)
             /\ panel.number >= Rupee => ~Coasts(panel.number - Rupee)
             /\ in.currentSavings >= 0 =>
                  /\ panel.kind = "invest" =>
                       /\ panel.advice >= 0
                       /\ Coasts(in.currentSavings + (panel.advice + Rupee))
                       /\ panel.advice >= Rupee => ~Coasts(in.currentSavings + (panel.advice - Rupee))
                  /\ panel.kind = "onTrack" => panel.number < in.currentSavings + Rupee
  <2> DEFINE good == {s \in Int : Worth(in, s) >= 0}
             cs == in.currentSavings
             more == number - cs
  <2>1. in.currentAge < in.retirementAge /\ in.retirementAge <= in.lifeExpectancy /\ cs \in Int
    BY <1>3, <1>5 DEF CoastInputs
  <2>2. /\ panel.kind = IF onTrack THEN "onTrack" ELSE "invest"
        /\ panel.number = Rounded(number) /\ panel.advice = Rounded(more)
    BY <1>3, <1>4, <1>5
  <2>3. /\ 0 \in Int /\ MaxCoastSavings \in Int /\ 0 <= MaxCoastSavings
        /\ MaxCoastSavings - 0 <= Compound(1, 100, Iterations)
    BY ProjectionsAssumption
  <2>4. \A s, t \in Int : Worth(in, s) \in Int /\ (s < t => Worth(in, s) < Worth(in, t))
    BY <1>5, <2>1, MoreSavingsMoreWorth
  <2>5. \A s \in Int : Coasts(s) <=> s \in good
    BY <1>2
  <2>6. \A s, t \in Int : s <= t /\ s \in good => t \in good
    <3> SUFFICES ASSUME NEW s \in Int, NEW t \in Int, s <= t, s \in good PROVE t \in good
      OBVIOUS
    <3>1. Worth(in, s) \in Int /\ Worth(in, t) \in Int /\ (s < t => Worth(in, s) < Worth(in, t))
      BY <2>4
    <3>2. s = t \/ s < t
      OBVIOUS
    <3> QED BY <3>1, <3>2
  <2>7. \A s \in Int : s \in coasting => s \in good
    <3> SUFFICES ASSUME NEW s \in Int, s \in coasting PROVE s \in good
      OBVIOUS
    <3>1. Worth(in, s) \in Int
      BY <2>4
    <3> QED BY <3>1 DEF coasting
  <2>8. \A s \in Int : s \notin coasting => s - 1 \notin good
    <3> SUFFICES ASSUME NEW s \in Int, s \notin coasting PROVE s - 1 \notin good
      OBVIOUS
    <3>1. s - 1 \in Int /\ s - 1 < s
      OBVIOUS
    <3>2. Worth(in, s) \in Int /\ Worth(in, s - 1) \in Int /\ Worth(in, s - 1) < Worth(in, s)
      BY <2>4, <3>1
    <3> QED BY <3>2 DEF coasting
  <2>9. MaxCoastSavings \in good
    BY <1>5, <2>3, <2>5
  <2>10. onTrack <=> cs \in good
    BY <2>1 DEF onTrack
  <2> HIDE DEF good, cs
  <2>11. number \in 0..MaxCoastSavings /\ number + 1 \in good /\ \A s \in Nat : s < number => s \notin good
    BY <2>3, <2>6, <2>7, <2>8, <2>9, SearchSeparates DEF number
  <2>12. number \in Int /\ more \in Int
    BY <2>1, <2>11
  <2>13. /\ Rounded(number) \in Int /\ Rounded(number) + Rupee \in good
         /\ Rounded(number) >= Rupee => Rounded(number) - Rupee \notin good
    BY <2>6, <2>11, <2>12, SearchIsRight
  <2>14. Coasts(panel.number + Rupee) /\ (panel.number >= Rupee => ~Coasts(panel.number - Rupee))
    <3>1. Rupee \in Int /\ Rounded(number) + Rupee \in Int /\ Rounded(number) - Rupee \in Int
      BY <2>13, ProjectionsAssumption
    <3> QED BY <2>2, <2>5, <2>13, <3>1
  <2>15. ASSUME cs >= 0, panel.kind = "invest"
         PROVE  /\ panel.advice >= 0
                /\ Coasts(cs + (panel.advice + Rupee))
                /\ panel.advice >= Rupee => ~Coasts(cs + (panel.advice - Rupee))
    <3> DEFINE r == Rounded(more)
    <3>1. cs \notin good
      BY <2>2, <2>10, <2>15
    <3>2. cs < number + 1
      BY <2>1, <2>6, <2>11, <2>12, <3>1
    <3>3. more >= 0 /\ cs + more = number
      BY <2>1, <2>12, <3>2
    <3> HIDE DEF more
    <3>4. /\ r \in Int /\ Rupee \in Nat \ {0} /\ r >= 0
          /\ more + 1 <= r + Rupee /\ r - Rupee < more
      BY <2>12, <3>3, RoundedFacts, RupeeBeside
    <3> HIDE DEF r
    <3>5. cs + (r + Rupee) \in Int /\ number + 1 <= cs + (r + Rupee) /\ number + 1 \in Int
      BY <2>1, <2>12, <3>3, <3>4
    <3>6. cs + (r + Rupee) \in good
      BY <2>6, <2>11, <3>5
    <3>7. ASSUME r >= Rupee PROVE cs + (r - Rupee) \in Int /\ cs + (r - Rupee) \notin good
      <4>1. cs + (r - Rupee) \in Nat /\ cs + (r - Rupee) < number
        BY <2>1, <2>12, <2>15, <3>3, <3>4, <3>7
      <4> QED BY <2>11, <4>1
    <3> QED BY <2>2, <2>5, <3>4, <3>5, <3>6, <3>7 DEF r
  <2>16. ASSUME cs >= 0, panel.kind = "onTrack" PROVE panel.number < cs + Rupee
    <3>1. cs \in good
      BY <2>2, <2>10, <2>16
    <3>2. number <= cs
      <4>1. cs \in Nat
        BY <2>1, <2>16
      <4> QED BY <2>11, <2>12, <3>1, <4>1
    <3>3. Rounded(number) - Rupee < number /\ Rounded(number) \in Int /\ Rupee \in Int
      BY <2>12, <2>13, RupeeBeside, ProjectionsAssumption
    <3>4. Rounded(number) < cs + Rupee
      BY <2>1, <2>12, <3>2, <3>3
    <3> QED BY <2>2, <3>4
  <2> QED BY <2>14, <2>15, <2>16 DEF cs
<1>6. in.currentSavings + (MaxCoastSavings - in.currentSavings) = MaxCoastSavings
  BY ProjectionsAssumption DEF CoastInputs
<1>7. CoastAdvice(in, panel)
  <2>1. CoastAdvice(in, panel) <=>
          (panel.kind # "warning" /\ in.equityReturnPct >= 0 /\ in.debtReturnPct >= 0 =>
             /\ Coasts(MaxCoastSavings) =>
                  Coasts(panel.number + Rupee) /\ (panel.number >= Rupee => ~Coasts(panel.number - Rupee))
             /\ Coasts(MaxCoastSavings) /\ in.currentSavings >= 0 =>
                  /\ panel.kind = "invest" =>
                       /\ panel.advice >= 0
                       /\ Coasts(in.currentSavings + (MaxCoastSavings - in.currentSavings)) =>
                            /\ Coasts(in.currentSavings + (panel.advice + Rupee))
                            /\ panel.advice >= Rupee => ~Coasts(in.currentSavings + (panel.advice - Rupee))
                  /\ panel.kind = "onTrack" => panel.number < in.currentSavings + Rupee)
    BY Zenon DEF CoastAdvice, ToTheRupee, Coasts
  <2> QED BY <1>5, <1>6, <2>1, Zenon
<1> QED BY <1>7 DEF panel

-----------------------------------------------------------------------------
(* Monthly plans                                                           *)

(* A monthly plan is a ledger.                                             *)
LEMMA ProjectSipIs ==
    ASSUME NEW a \in Int, NEW b \in Int, NEW start \in Int, NEW sip \in Int, NEW pct \in Int
    PROVE  /\ Books(a, b, start, Yearly(pct), Yearly(12 * sip))
           /\ IsLedger(ProjectSip(a, b, start, sip, pct), a, b, start, Yearly(pct), Yearly(12 * sip))
<1>1. Books(a, b, start, Yearly(pct), Yearly(12 * sip))
  BY DEF Books, Yearly
<1>2. ProjectSip(a, b, start, sip, pct) = Balances(a, b, start, Yearly(pct), Yearly(12 * sip))
  BY DEF ProjectSip
<1> QED BY <1>1, <1>2, BalancesAreLedger

(* Who invests more every month has more at the end, whatever is lost on   *)
(* the way.                                                                *)
LEMMA MoreSipMore ==
    ASSUME NEW a \in Int, NEW b \in Int, a < b, NEW start \in Int, NEW pct \in Int, pct >= -100,
           NEW s \in Int, NEW t \in Int
    PROVE  /\ ProjectSip(a, b, start, s, pct)[b] \in Int
           /\ s < t => ProjectSip(a, b, start, s, pct)[b] < ProjectSip(a, b, start, t, pct)[b]
<1> DEFINE f == ProjectSip(a, b, start, s, pct)
           g == ProjectSip(a, b, start, t, pct)
<1>1. Books(a, b, start, Yearly(pct), Yearly(12 * s)) /\ IsLedger(f, a, b, start, Yearly(pct), Yearly(12 * s))
  BY ProjectSipIs
<1>2. Books(a, b, start, Yearly(pct), Yearly(12 * t)) /\ IsLedger(g, a, b, start, Yearly(pct), Yearly(12 * t))
  BY ProjectSipIs
<1> HIDE DEF f, g
<1>3. f[b] \in Int
  BY <1>1, LedgerFacts
<1>4. ASSUME s < t PROVE f[b] < g[b]
  <2>1. /\ \A n \in (a + 1)..b : Yearly(pct)[n] >= -100 /\ Yearly(12 * s)[n] <= Yearly(12 * t)[n]
        /\ Yearly(12 * s)[b] < Yearly(12 * t)[b] /\ start <= start
    BY <1>4 DEF Yearly
  <2> QED BY <1>1, <1>2, <2>1, LedgersOrdered
<1> QED BY <1>3, <1>4 DEF f, g

SipInputs(plan) ==
    /\ plan.currentAge \in Int /\ plan.targetAge \in Int /\ plan.currentSavings \in Int
    /\ plan.expectedReturnPct \in Int /\ plan.fireNumber \in Int

Reached(plan, sip) ==
    ProjectSip(plan.currentAge, plan.targetAge, plan.currentSavings, sip, plan.expectedReturnPct)[plan.targetAge]

ReachingSips(plan) == {sip \in Int : Reached(plan, sip) > plan.fireNumber}

(* The search for a monthly sum, from one that does not reach the number.  *)
LEMMA SearchedSip ==
    ASSUME NEW plan, SipInputs(plan), plan.currentAge < plan.targetAge, plan.expectedReturnPct >= -100,
           NEW low \in Nat, ~(Reached(plan, low) >= plan.fireNumber),
           Reached(plan, MaxMonthlySip) >= plan.fireNumber,
           NEW advice, advice = Rounded(Bisect(ReachingSips(plan), low, MaxMonthlySip))
    PROVE  /\ Reached(plan, advice + Rupee) >= plan.fireNumber
           /\ advice >= Rupee => ~(Reached(plan, advice - Rupee) >= plan.fireNumber)
<1> DEFINE reaching == ReachingSips(plan)
           N == plan.fireNumber
           good == {s \in Int : Reached(plan, s) >= N}
           found == Bisect(reaching, low, MaxMonthlySip)
<1>1. /\ MaxMonthlySip \in Nat /\ MaxMonthlySip <= Compound(1, 100, Iterations) /\ N \in Int
      /\ Iterations \in Nat /\ Rupee \in Nat \ {0}
  BY ProjectionsAssumption DEF SipInputs
<1>2. \A s, t \in Int : Reached(plan, s) \in Int /\ (s < t => Reached(plan, s) < Reached(plan, t))
  <2> SUFFICES ASSUME NEW s \in Int, NEW t \in Int
               PROVE  Reached(plan, s) \in Int /\ (s < t => Reached(plan, s) < Reached(plan, t))
    OBVIOUS
  <2>1. PICK a \in Int, b \in Int, start \in Int, pct \in Int :
          /\ a = plan.currentAge /\ b = plan.targetAge /\ start = plan.currentSavings
          /\ pct = plan.expectedReturnPct
    BY DEF SipInputs
  <2>2. \A x : Reached(plan, x) = ProjectSip(a, b, start, x, pct)[b]
    BY <2>1 DEF Reached
  <2>3. a < b /\ pct >= -100
    BY <2>1
  <2>4. /\ ProjectSip(a, b, start, s, pct)[b] \in Int
        /\ s < t => ProjectSip(a, b, start, s, pct)[b] < ProjectSip(a, b, start, t, pct)[b]
    BY <2>3, MoreSipMore
  <2> QED BY <2>2, <2>4
<1>3. Compound(1, 100, Iterations) \in Int
  <2>1. PICK x \in Int, p \in Int : x = 1 /\ p = 100
    OBVIOUS
  <2>2. Compound(x, p, Iterations) \in Int
    BY <1>1, CompoundFacts
  <2> QED BY <2>1, <2>2
<1>4. \A s, t \in Int : s <= t /\ s \in good => t \in good
  <2> SUFFICES ASSUME NEW s \in Int, NEW t \in Int, s <= t, s \in good PROVE t \in good
    OBVIOUS
  <2>1. Reached(plan, s) \in Int /\ Reached(plan, t) \in Int /\ (s < t => Reached(plan, s) < Reached(plan, t))
    BY <1>2
  <2>2. s = t \/ s < t
    OBVIOUS
  <2> HIDE DEF N
  <2> QED BY <1>1, <2>1, <2>2
<1>5. \A s \in Int : s \in reaching => s \in good
  <2> SUFFICES ASSUME NEW s \in Int, s \in reaching PROVE s \in good
    OBVIOUS
  <2>1. Reached(plan, s) \in Int
    BY <1>2
  <2> QED BY <1>1, <2>1 DEF ReachingSips
<1>6. \A s \in Int : s \notin reaching => s - 1 \notin good
  <2> SUFFICES ASSUME NEW s \in Int, s \notin reaching PROVE s - 1 \notin good
    OBVIOUS
  <2>1. s - 1 \in Int /\ s - 1 < s
    OBVIOUS
  <2>2. Reached(plan, s) \in Int /\ Reached(plan, s - 1) \in Int /\ Reached(plan, s - 1) < Reached(plan, s)
    BY <1>2, <2>1
  <2>3. ~(Reached(plan, s) > N)
    BY DEF ReachingSips
  <2> HIDE DEF N
  <2> QED BY <1>1, <2>2, <2>3
<1>7. low \notin good /\ MaxMonthlySip \in good
  BY <1>1
<1>8. advice = Rounded(found)
  OBVIOUS
<1>9. \A s \in Int : s \in good <=> Reached(plan, s) >= plan.fireNumber
  OBVIOUS
<1> HIDE DEF good, found, N, reaching
<1>10. low \in Int /\ MaxMonthlySip \in Int /\ low <= MaxMonthlySip
  BY <1>1, <1>4, <1>7
<1>11. MaxMonthlySip - low <= Compound(1, 100, Iterations)
  BY <1>1, <1>3, <1>10
<1>12. found \in low..MaxMonthlySip /\ found + 1 \in good /\ \A s \in Nat : s < found => s \notin good
  BY <1>4, <1>5, <1>6, <1>7, <1>10, <1>11, SearchSeparates DEF found
<1>13. found \in Int
  BY <1>10, <1>12
<1>14. /\ advice \in Int /\ advice + Rupee \in good
       /\ advice >= Rupee => advice - Rupee \notin good
  BY <1>4, <1>8, <1>12, <1>13, SearchIsRight
<1>15. advice + Rupee \in Int /\ advice - Rupee \in Int
  BY <1>1, <1>14
<1> QED BY <1>9, <1>14, <1>15

(* Such a sum, rounded, makes a plan that is not on track one that is.     *)
LEMMA PlanSound ==
    ASSUME NEW plan, SipInputs(plan), SipForm \subseteq DOMAIN plan,
           plan.currentAge < plan.targetAge, plan.expectedReturnPct >= -100, NEW panel,
           panel.kind = "onTrack" <=> Reached(plan, plan.monthlySip) >= plan.fireNumber,
           panel.kind = "invest" =>
             \E low \in Nat : /\ ~(Reached(plan, low) >= plan.fireNumber)
                              /\ panel.advice = Rounded(Bisect(ReachingSips(plan), low, MaxMonthlySip))
    PROVE  PlanIsOnTrack(plan, panel)
<1> DEFINE OnTrack(sip) == SipFire([plan EXCEPT !.monthlySip = sip]).isOnTrack
<1>1. \A sip : OnTrack(sip) = (Reached(plan, sip) >= plan.fireNumber)
  <2> SUFFICES ASSUME NEW sip PROVE OnTrack(sip) = (Reached(plan, sip) >= plan.fireNumber)
    OBVIOUS
  <2> DEFINE other == [plan EXCEPT !.monthlySip = sip]
  <2>1. /\ other.monthlySip = sip /\ other.currentAge = plan.currentAge /\ other.targetAge = plan.targetAge
        /\ other.currentSavings = plan.currentSavings /\ other.fireNumber = plan.fireNumber
        /\ other.expectedReturnPct = plan.expectedReturnPct
    BY DEF SipForm
  <2> HIDE DEF other
  <2>2. SipFire(other).isOnTrack = (SipSeries(other, other.targetAge, other.monthlySip)[other.targetAge] >= other.fireNumber)
    BY DEF SipFire
  <2> QED BY <2>1, <2>2 DEF SipSeries, Reached, other
<1> HIDE DEF OnTrack
<1>2. panel.kind = "onTrack" <=> OnTrack(plan.monthlySip)
  BY <1>1
<1>3. ASSUME panel.kind = "invest", OnTrack(MaxMonthlySip)
      PROVE  OnTrack(panel.advice + Rupee) /\ (panel.advice >= Rupee => ~OnTrack(panel.advice - Rupee))
  <2>1. Reached(plan, MaxMonthlySip) >= plan.fireNumber
    BY <1>1, <1>3
  <2>2. PICK low \in Nat : /\ ~(Reached(plan, low) >= plan.fireNumber)
                           /\ panel.advice = Rounded(Bisect(ReachingSips(plan), low, MaxMonthlySip))
    BY <1>3
  <2>3. /\ Reached(plan, panel.advice + Rupee) >= plan.fireNumber
        /\ panel.advice >= Rupee => ~(Reached(plan, panel.advice - Rupee) >= plan.fireNumber)
    BY <2>1, <2>2, SearchedSip
  <2> QED BY <1>1, <2>3
<1> QED BY <1>2, <1>3, Zenon DEF PlanIsOnTrack, ToTheRupee, OnTrack

(* A life of accumulation is a monthly plan.                               *)
LEMMA AccumulationIsSip ==
    ASSUME NEW in, NEW endAge \in Int, NEW savings \in Int, NEW equity \in Int, NEW debt \in Int,
           in.currentAge \in Int, in.currentAge < endAge, in.inflationPct \in Int,
           in.allocation \in Allocations, NEW sip \in Int
    PROVE  Simulate(ToAccumulation(in, endAge, savings, equity, debt), sip).corpus
             = ProjectSip(in.currentAge, endAge, savings, sip, Blended(equity, debt, in.allocation))[endAge]
<1> DEFINE acc == ToAccumulation(in, endAge, savings, equity, debt)
           a == in.currentAge
           pct == Blended(equity, debt, in.allocation)
           f == BalanceOf(acc, sip)
           g == ProjectSip(a, endAge, savings, sip, pct)
<1>1. /\ acc.currentAge = a /\ acc.lifeExpectancy = endAge /\ acc.retirementAge = endAge
      /\ acc.contributionEndAge = endAge /\ acc.currentSavings = savings
      /\ acc.equityReturnPct = equity /\ acc.debtReturnPct = debt
      /\ acc.preRetirementAllocation = in.allocation /\ ~acc.stepUpEnabled
  BY DEF ToAccumulation
<1>2. Life(acc)
  BY DEF Life, ToAccumulation
<1> HIDE DEF acc
<1>3. pct \in Int
  BY BlendedFacts
<1>4. /\ Books(a, endAge, savings, RateOf(acc), FlowOf(acc, sip))
      /\ IsLedger(f, a, endAge, savings, RateOf(acc), FlowOf(acc, sip))
      /\ Simulate(acc, sip).corpus = f[endAge]
  BY <1>1, <1>2, SimulationIs
<1>5. /\ Books(a, endAge, savings, Yearly(pct), Yearly(12 * sip))
      /\ IsLedger(g, a, endAge, savings, Yearly(pct), Yearly(12 * sip))
  <2> HIDE DEF pct
  <2> QED BY <1>3, ProjectSipIs
<1>6. ASSUME NEW n \in (a + 1)..endAge
      PROVE  RateOf(acc)[n] = Yearly(pct)[n] /\ FlowOf(acc, sip)[n] = Yearly(12 * sip)[n]
  <2>1. n \in Int /\ n <= endAge /\ n > a
    OBVIOUS
  <2>2. RateOf(acc)[n] = pct
    BY <1>1, <2>1 DEF RateOf, RateInYear
  <2>3. SipInYear(acc, sip, n) = sip
    BY <1>1, <1>2, <2>1, SipFacts
  <2>4. FlowOf(acc, sip)[n] = 12 * sip
    BY <1>1, <2>1, <2>3 DEF FlowOf, FlowInYear
  <2> QED BY <2>1, <2>2, <2>4 DEF Yearly
<1> HIDE DEF f, g, a, pct
<1>7. \A n \in a..endAge : f[n] = g[n]
  BY <1>4, <1>5, <1>6, SameBooks
<1>8. f[endAge] = g[endAge]
  BY <1>7 DEF a
<1> QED BY <1>4, <1>8 DEF acc, g, a, pct

(* A panel that shows what a search for a target found shows a plan on     *)
(* track.                                                                  *)
LEMMA TargetSound ==
    ASSUME NEW in, NEW endAge \in Int, NEW savings \in Int, NEW equity \in Int, NEW debt \in Int,
           in.currentAge \in Int, in.currentAge < endAge, in.inflationPct \in Int,
           in.allocation \in Allocations, equity >= -100, debt >= -100, NEW target \in Int,
           NEW found, found = SipForTarget(ToAccumulation(in, endAge, savings, equity, debt), target),
           NEW panel, panel.kind = (IF found.isAlreadyOnTrack THEN "onTrack" ELSE "invest"),
           panel.advice = Rounded(found.required)
    PROVE  PlanIsOnTrack(AsSip(in, endAge, savings, equity, debt, target), panel)
<1> DEFINE acc == ToAccumulation(in, endAge, savings, equity, debt)
           plan == AsSip(in, endAge, savings, equity, debt, target)
           onTrack == Simulate(acc, 0).corpus >= target
           reaching == {sip \in Int : Simulate(acc, sip).corpus > target}
<1>1. /\ plan.currentAge = in.currentAge /\ plan.targetAge = endAge /\ plan.currentSavings = savings
      /\ plan.fireNumber = target /\ plan.expectedReturnPct = Blended(equity, debt, in.allocation)
      /\ plan.monthlySip = 0 /\ SipForm \subseteq DOMAIN plan
  BY DEF AsSip, SipForm
<1>2. found.isAlreadyOnTrack = onTrack /\ found.required = Required(onTrack, reaching)
  BY DEF SipForTarget
<1> HIDE DEF plan, acc
<1>3. \A sip \in Int : Simulate(acc, sip).corpus = Reached(plan, sip)
  BY <1>1, AccumulationIsSip DEF Reached, acc
<1>4. Blended(equity, debt, in.allocation) \in Int /\ Blended(equity, debt, in.allocation) >= -100
  BY BlendedFacts
<1>5. SipInputs(plan) /\ plan.currentAge < plan.targetAge /\ plan.expectedReturnPct >= -100
  BY <1>1, <1>4 DEF SipInputs
<1>6. reaching = ReachingSips(plan)
  BY <1>1, <1>3 DEF ReachingSips
<1>7. onTrack = (Reached(plan, 0) >= plan.fireNumber)
  BY <1>1, <1>3
<1> HIDE DEF onTrack, reaching
<1>8. panel.kind = "onTrack" <=> Reached(plan, plan.monthlySip) >= plan.fireNumber
  BY <1>1, <1>2, <1>7
<1>9. ASSUME panel.kind = "invest"
      PROVE  \E low \in Nat : /\ ~(Reached(plan, low) >= plan.fireNumber)
                              /\ panel.advice = Rounded(Bisect(ReachingSips(plan), low, MaxMonthlySip))
  <2>1. ~onTrack
    BY <1>2, <1>9
  <2>2. panel.advice = Rounded(Bisect(ReachingSips(plan), 0, MaxMonthlySip))
    BY <1>2, <1>6, <2>1 DEF Required
  <2>3. ~(Reached(plan, 0) >= plan.fireNumber)
    BY <1>7, <2>1
  <2> QED BY <2>2, <2>3
<1>10. PlanIsOnTrack(plan, panel)
  BY <1>1, <1>5, <1>8, <1>9, PlanSound
<1> QED BY <1>10 DEF plan

(* The numbers of the city page and of the return page.                    *)
LEMMA FireNumberIsInt ==
    ASSUME NEW expense \in Int, NEW rate \in Int, rate > 0
    PROVE  FireNumberToday(expense, rate) \in Int
BY DEF FireNumberToday

LEMMA CompoundIsInt ==
    ASSUME NEW x \in Int, NEW p \in Int, NEW n \in Int, n >= 0
    PROVE  Compound(x, p, n) \in Int
<1>1. n \in Nat
  OBVIOUS
<1> QED BY <1>1, CompoundFacts

CityInputs(in) ==
    /\ in.currentAge \in Int /\ in.retirementAge \in Int /\ in.currentSavings \in Int
    /\ in.monthlyExpenseToday \in Int /\ in.withdrawalRatePct \in Int /\ in.inflationPct \in Int
    /\ in.equityReturnPct \in Int /\ in.debtReturnPct \in Int /\ in.allocation \in Allocations

(* The city page advises what the SIP page counts as on track.             *)
LEMMA CitySound ==
    ASSUME NEW in, CityInputs(in)
    PROVE  CityAdvice(in, CityPanel(in))
<1> DEFINE panel == CityPanel(in)
           warned == in.retirementAge <= in.currentAge \/ in.withdrawalRatePct <= 0
           today == FireNumberToday(in.monthlyExpenseToday, in.withdrawalRatePct)
           target == Compound(today, in.inflationPct, in.retirementAge - in.currentAge)
           acc == ToAccumulation(in, in.retirementAge, in.currentSavings, in.equityReturnPct, in.debtReturnPct)
<1>1. warned => panel.kind = "warning"
  BY DEF CityPanel, Warning
<1>2. CityFire(in).fireNumberAtRetirement = target /\ CityFire(in).plan = SipForTarget(acc, target)
  BY DEF CityFire
<1> HIDE DEF target, acc
<1>3. ~warned => /\ panel.kind = IF SipForTarget(acc, target).isAlreadyOnTrack THEN "onTrack" ELSE "invest"
                 /\ panel.advice = Rounded(SipForTarget(acc, target).required)
  BY <1>2 DEF CityPanel
<1> HIDE DEF panel
<1>4. ASSUME panel.kind # "warning", in.equityReturnPct >= -100, in.debtReturnPct >= -100
      PROVE  PlanIsOnTrack(AsSip(in, in.retirementAge, in.currentSavings, in.equityReturnPct,
                                 in.debtReturnPct, CityFire(in).fireNumberAtRetirement), panel)
  <2>1. in.currentAge < in.retirementAge /\ in.withdrawalRatePct > 0 /\ ~warned
    BY <1>1, <1>4 DEF CityInputs
  <2>2. target \in Int
    <3>1. today \in Int /\ in.retirementAge - in.currentAge \in Int /\ in.retirementAge - in.currentAge >= 0
      BY <2>1, FireNumberIsInt DEF CityInputs
    <3> HIDE DEF today
    <3>2. PICK n \in Int, p \in Int : n = in.retirementAge - in.currentAge /\ n >= 0 /\ p = in.inflationPct
      BY <3>1 DEF CityInputs
    <3>3. Compound(today, p, n) \in Int
      BY <3>1, <3>2, CompoundIsInt
    <3> QED BY <3>2, <3>3 DEF target
  <2>3. PlanIsOnTrack(AsSip(in, in.retirementAge, in.currentSavings, in.equityReturnPct,
                            in.debtReturnPct, target), panel)
    BY <1>3, <1>4, <2>1, <2>2, TargetSound DEF CityInputs, acc
  <2> QED BY <1>2, <2>3
<1> QED BY <1>4 DEF CityAdvice, panel

ReturnInputs(in) ==
    /\ in.currentAge \in Int /\ in.returnAge \in Int /\ in.currentSavingsUsd \in Int
    /\ in.monthlyExpenseInrToday \in Int /\ in.withdrawalRatePct \in Int /\ in.inflationPct \in Int
    /\ in.exchangeRateInrPerUsd \in Int /\ in.inrDepreciationPct \in Int
    /\ in.usdEquityReturnPct \in Int /\ in.usdDebtReturnPct \in Int /\ in.allocation \in Allocations

(* So does the return page, in dollars.                                    *)
LEMMA ReturnSound ==
    ASSUME NEW in, ReturnInputs(in)
    PROVE  ReturnAdvice(in, ReturnPanel(in))
<1> DEFINE panel == ReturnPanel(in)
           warned == in.returnAge <= in.currentAge \/ in.withdrawalRatePct <= 0 \/ in.exchangeRateInrPerUsd <= 0
           years == in.returnAge - in.currentAge
           today == FireNumberToday(in.monthlyExpenseInrToday, in.withdrawalRatePct)
           atReturn == Compound(today, in.inflationPct, years)
           rate == Compound(in.exchangeRateInrPerUsd, in.inrDepreciationPct, years)
           target == atReturn \div rate
           acc == ToAccumulation(in, in.returnAge, in.currentSavingsUsd, in.usdEquityReturnPct, in.usdDebtReturnPct)
<1>1. warned => panel.kind = "warning"
  BY DEF ReturnPanel, Warning
<1>2. /\ ReturnToIndia(in).fireNumberUsdAtReturn = target /\ ReturnToIndia(in).exchangeRateAtReturn = rate
      /\ ReturnToIndia(in).plan = SipForTarget(acc, target)
  BY DEF ReturnToIndia
<1> HIDE DEF target, acc, rate
<1>3. ~warned => /\ panel.kind = IF SipForTarget(acc, target).isAlreadyOnTrack THEN "onTrack" ELSE "invest"
                 /\ panel.advice = Rounded(SipForTarget(acc, target).required) /\ panel.rate = rate
  BY <1>2 DEF ReturnPanel
<1> HIDE DEF panel
<1>4. ASSUME panel.kind # "warning", panel.rate > 0, in.usdEquityReturnPct >= -100, in.usdDebtReturnPct >= -100
      PROVE  PlanIsOnTrack(AsSip(in, in.returnAge, in.currentSavingsUsd, in.usdEquityReturnPct,
                                 in.usdDebtReturnPct, ReturnToIndia(in).fireNumberUsdAtReturn), panel)
  <2>1. in.currentAge < in.returnAge /\ in.withdrawalRatePct > 0 /\ ~warned
    BY <1>1, <1>4 DEF ReturnInputs
  <2>2. target \in Int
    <3>0. PICK expense \in Int, pct \in Int : expense = in.monthlyExpenseInrToday /\ pct = in.withdrawalRatePct
      BY DEF ReturnInputs
    <3>1. today \in Int
      <4>1. FireNumberToday(expense, pct) \in Int
        BY <2>1, <3>0, FireNumberIsInt
      <4> QED BY <3>0, <4>1
    <3>5. years \in Int /\ years >= 0
      BY <2>1 DEF ReturnInputs
    <3> HIDE DEF today, years
    <3>2. PICK p \in Int, q \in Int, x \in Int :
            p = in.inflationPct /\ q = in.inrDepreciationPct /\ x = in.exchangeRateInrPerUsd
      BY DEF ReturnInputs
    <3>3. Compound(today, p, years) \in Int /\ Compound(x, q, years) \in Int
      BY <3>1, <3>5, CompoundIsInt
    <3>4. atReturn \in Int /\ rate \in Int /\ rate > 0
      BY <1>3, <1>4, <2>1, <3>2, <3>3 DEF rate
    <3> HIDE DEF atReturn
    <3> QED BY <3>4 DEF target
  <2>3. PlanIsOnTrack(AsSip(in, in.returnAge, in.currentSavingsUsd, in.usdEquityReturnPct,
                            in.usdDebtReturnPct, target), panel)
    BY <1>3, <1>4, <2>1, <2>2, TargetSound DEF ReturnInputs, acc
  <2> QED BY <1>2, <2>3
<1> QED BY <1>4 DEF ReturnAdvice, panel

-----------------------------------------------------------------------------
(* Progress towards a number                                               *)

(* x is the first of the years from a to b that reaches the number, or     *)
(* null.                                                                   *)
FirstYear(series, a, b, number, x) ==
    \/ x = Null /\ \A age \in a..b : ~(series[age] >= number)
    \/ /\ x \in a..b /\ series[x] >= number
       /\ \A age \in a..b : age < x => ~(series[age] >= number)

(* That is what the code looks for.                                        *)
LEMMA CrossingIs ==
    ASSUME NEW a \in Int, NEW b \in Int, NEW series, DOMAIN series = a..b, NEW number
    PROVE  FirstYear(series, a, b, number, Crossing(series, number))
<1> DEFINE ages == {age \in a..b : series[age] >= number}
           least == Crossing(series, number)
<1>1. least = IF ages = {} THEN Null ELSE CHOOSE x \in ages : \A y \in ages : x <= y
  BY DEF Crossing, Min
<1>2. CASE ages = {}
  BY <1>1, <1>2 DEF FirstYear
<1>3. CASE ages # {}
  <2>1. \E x \in ages : \A y \in ages : x <= y
    <3> SUFFICES ASSUME ~\E x \in ages : \A y \in ages : x <= y PROVE FALSE
      OBVIOUS
    <3> DEFINE S == {n \in a..b : \A m \in a..n : m \notin ages}
    <3>1. ASSUME NEW n \in a..b, \A m \in a..b : m < n => m \notin ages PROVE n \in S
      <4>1. n \notin ages
        <5>1. \A y \in ages : n <= y
          BY <3>1
        <5> QED BY <5>1
      <4> QED BY <3>1, <4>1
    <3>2. a \in a..b
      BY <1>3
    <3>3. a \in S
      BY <3>1, <3>2
    <3>4. ASSUME NEW n \in (a + 1)..b, n - 1 \in S PROVE n \in S
      <4>1. n \in a..b /\ \A m \in a..b : m < n => m \in a..(n - 1)
        OBVIOUS
      <4>2. \A m \in a..b : m < n => m \notin ages
        BY <3>4, <4>1
      <4> HIDE DEF S, ages
      <4> QED BY <3>1, <4>1, <4>2
    <3>5. a..b \subseteq S
      <4> HIDE DEF S
      <4> QED BY <3>3, <3>4, YearByYear
    <3>6. \A n \in a..b : n \in a..n
      OBVIOUS
    <3> QED BY <1>3, <3>5, <3>6
  <2>2. least \in ages /\ \A y \in ages : least <= y
    <3> HIDE DEF ages
    <3> QED BY <1>1, <1>3, <2>1
  <2>3. \A age \in a..b : age < least => age \notin ages
    BY <2>2
  <2> HIDE DEF least
  <2> QED BY <2>2, <2>3 DEF FirstYear, least
<1> QED BY <1>2, <1>3

(* A number once reached stays reached, where nothing is lost or taken.    *)
LEMMA ReachedStays ==
    ASSUME NEW a, NEW b, NEW start, NEW rate, NEW flow, Books(a, b, start, rate, flow),
           NEW f, IsLedger(f, a, b, start, rate, flow),
           \A n \in (a + 1)..b : rate[n] >= 0 /\ flow[n] >= 0,
           NEW number \in Nat, NEW x \in a..b, f[x] >= number
    PROVE  \A n \in x..b : f[n] >= number
<1>1. a \in Int /\ b \in Int /\ x \in Int /\ a <= x /\ x <= b
  BY DEF Books
<1>2. /\ \A n \in (a + 1)..b : f[n - 1] \in Int /\ f[n] = Grow(f[n - 1], rate[n]) + flow[n]
      /\ \A n \in a..b : f[n] \in Int
  BY LedgerFacts
<1> DEFINE S == {n \in Int : f[n] >= number}
<1>3. x \in S
  BY <1>1
<1>4. ASSUME NEW n \in (x + 1)..b, n - 1 \in S PROVE n \in S
  <2>1. n \in (a + 1)..b /\ n \in Int
    BY <1>1
  <2>2. f[n - 1] \in Nat /\ rate[n] \in Nat /\ flow[n] \in Nat /\ f[n - 1] >= number
    BY <1>2, <1>4, <2>1 DEF Books
  <2>3. PICK y \in Nat, p \in Nat : y = f[n - 1] /\ p = rate[n]
    BY <2>2
  <2>4. Grow(y, p) >= y /\ Grow(y, p) \in Int
    <3>1. y \in Int /\ p \in Int
      OBVIOUS
    <3> QED BY <3>1, GrowGains, GrowIsInt
  <2>5. f[n] = Grow(y, p) + flow[n]
    BY <1>2, <2>1, <2>3
  <2> QED BY <2>1, <2>2, <2>3, <2>4, <2>5
<1>5. x..b \subseteq S
  <2> HIDE DEF S
  <2> QED BY <1>1, <1>3, <1>4, YearByYear
<1> QED BY <1>5

(* A series up to year t, and what is said of it.                          *)
FireAgeFits(base, t, number, fire) ==
    /\ base[t] \in Int
    /\ base[t] >= number <=> fire.actualFireAge # Null /\ fire.actualFireAge <= t
    /\ fire.actualFireAge # Null /\ fire.actualFireAge > t =>
         /\ fire.series[fire.actualFireAge] >= number
         /\ \A age \in DOMAIN fire.series : age < fire.actualFireAge => fire.series[age] < number

(* The FIRE age is that of the number's first year, and on track is to     *)
(* reach it in time.                                                       *)
LEMMA FireAgeIs ==
    ASSUME NEW a \in Int, NEW t \in Int, a < t, NEW start \in Int, NEW sip \in Nat, NEW pct \in Nat,
           NEW number \in Nat,
           NEW base, base = ProjectSip(a, t, start, sip, pct),
           NEW extended, extended = ProjectSip(a, MaxAge, start, sip, pct),
           NEW fire, fire = FindFireAge(base, extended, number, t)
    PROVE  FireAgeFits(base, t, number, fire)
<1> DEFINE rate == Yearly(pct)
           flow == Yearly(12 * sip)
           within == Crossing(base, number)
           later == Crossing(extended, number)
<1>1. MaxAge \in Int /\ Null \notin Int
  BY ProjectionsAssumption
<1>2. Books(a, t, start, rate, flow) /\ IsLedger(base, a, t, start, rate, flow)
  BY ProjectSipIs
<1>3. Books(a, MaxAge, start, rate, flow) /\ IsLedger(extended, a, MaxAge, start, rate, flow)
  BY <1>1, ProjectSipIs
<1>4. DOMAIN base = a..t /\ \A n \in a..t : base[n] \in Int
  BY <1>2, LedgerFacts
<1>5. DOMAIN extended = a..MaxAge /\ \A n \in a..MaxAge : extended[n] \in Int
  BY <1>3, LedgerFacts
<1>6. FirstYear(base, a, t, number, within)
  BY <1>4, CrossingIs
<1>7. FirstYear(extended, a, MaxAge, number, later)
  BY <1>1, <1>5, CrossingIs
<1>8. fire = IF within # Null \/ t >= MaxAge THEN [actualFireAge |-> within, series |-> base]
             ELSE IF later = Null THEN [actualFireAge |-> Null, series |-> extended]
             ELSE [actualFireAge |-> later,
                   series |-> [age \in {x \in DOMAIN extended : x <= later} |-> extended[age]]]
  BY DEF FindFireAge
<1> HIDE DEF within, later
<1>9. base[t] >= number <=> within # Null
  <2>1. ASSUME within # Null PROVE base[t] >= number
    <3>1. within \in a..t /\ base[within] >= number
      BY <1>6, <2>1 DEF FirstYear
    <3>2. \A n \in (a + 1)..t : rate[n] >= 0 /\ flow[n] >= 0
      BY DEF Yearly
    <3>3. \A n \in within..t : base[n] >= number
      BY <1>2, <3>1, <3>2, ReachedStays
    <3> QED BY <3>1, <3>3
  <2>2. t \in a..t
    OBVIOUS
  <2> QED BY <1>1, <1>6, <2>1, <2>2 DEF FirstYear
<1>10. base[t] \in Int
  BY <1>4
<1>11. CASE within # Null
  <2>1. within \in a..t
    BY <1>6, <1>11 DEF FirstYear
  <2>2. fire.actualFireAge = within
    BY <1>8, <1>11
  <2> QED BY <1>9, <1>10, <1>11, <2>1, <2>2 DEF FireAgeFits
<1>12. CASE within = Null /\ (t >= MaxAge \/ later = Null)
  <2>1. fire.actualFireAge = Null
    BY <1>8, <1>12
  <2> QED BY <1>9, <1>10, <1>12, <2>1 DEF FireAgeFits
<1>13. CASE within = Null /\ ~(t >= MaxAge) /\ later # Null
  <2>1. fire.actualFireAge = later /\ fire.series = [age \in {x \in a..MaxAge : x <= later} |-> extended[age]]
    BY <1>5, <1>8, <1>13
  <2>2. /\ later \in a..MaxAge /\ extended[later] >= number
        /\ \A age \in a..MaxAge : age < later => ~(extended[age] >= number)
    BY <1>7, <1>13 DEF FirstYear
  <2>3. \A n \in a..t : base[n] = extended[n]
    <3>1. PICK k \in Int : k = 0
      OBVIOUS
    <3>2. a = a + k /\ t <= t /\ t + k <= MaxAge /\ SameEntries(rate, flow, a, t, rate, flow, k)
      BY <1>1, <1>13, <3>1 DEF SameEntries, Yearly
    <3>3. \A n \in a..t : base[n] = extended[n + k]
      BY <1>2, <1>3, <3>2, LedgersAgree
    <3> QED BY <3>1, <3>3
  <2>4. later > t
    <3> SUFFICES ASSUME ~(later > t) PROVE FALSE
      OBVIOUS
    <3>1. later \in a..t
      BY <1>1, <2>2
    <3>2. base[later] >= number
      BY <2>2, <2>3, <3>1
    <3> QED BY <1>1, <1>6, <1>13, <3>1, <3>2 DEF FirstYear
  <2>5. fire.series[later] >= number
    BY <1>1, <2>1, <2>2
  <2>6. \A age \in DOMAIN fire.series : age < later => fire.series[age] < number
    <3> SUFFICES ASSUME NEW age \in a..MaxAge, age < later PROVE extended[age] < number
      BY <2>1
    <3> QED BY <1>5, <2>2
  <2>7. later # Null /\ ~(later <= t) /\ later \in Int
    BY <1>1, <1>13, <2>2, <2>4
  <2> QED BY <1>9, <1>10, <1>13, <2>1, <2>5, <2>6, <2>7 DEF FireAgeFits
<1> QED BY <1>11, <1>12, <1>13

(* The two series of a progress page.                                      *)
Series(in, endAge, start, sip) == ProjectSip(in.currentAge, endAge, start, sip, in.expectedReturnPct)

(* On track, corpus, shortfall, FIRE age and chart tell the same story.    *)
LEMMA ProgressSound ==
    ASSUME NEW in, in.currentAge \in Int, in.targetAge \in Int, in.fireNumber \in Int,
           in.expectedReturnPct \in Int, NEW start \in Int, NEW sip \in Nat, NEW r,
           r.fire = FindFireAge(Series(in, in.targetAge, start, sip), Series(in, MaxAge, start, sip),
                                in.fireNumber, in.targetAge),
           r.isOnTrack = (Series(in, in.targetAge, start, sip)[in.targetAge] >= in.fireNumber),
           r.shortfall = IF r.isOnTrack THEN 0
                         ELSE in.fireNumber - Series(in, in.targetAge, start, sip)[in.targetAge],
           r.corpus = Series(in, in.targetAge, start, sip)[in.targetAge]
    PROVE  ProgressIsConsistent(in, ProgressPanel(in, r))
<1> DEFINE panel == ProgressPanel(in, r)
           warned == in.targetAge <= in.currentAge \/ in.fireNumber <= 0
<1>1. warned => panel.kind = "warning"
  BY DEF ProgressPanel, Warning
<1>2. ~warned => /\ panel.kind = IF r.isOnTrack THEN "onTrack" ELSE "invest"
                 /\ panel.shortfall = Rounded(r.shortfall) /\ panel.fireAge = r.fire.actualFireAge
                 /\ panel.corpus = Rounded(r.corpus) /\ panel.chart = r.fire.series
  BY DEF ProgressPanel
<1> HIDE DEF panel
<1>3. ASSUME panel.kind # "warning", in.expectedReturnPct >= 0
      PROVE  /\ (panel.kind = "onTrack") = (panel.fireAge # Null /\ panel.fireAge <= in.targetAge)
             /\ panel.kind = "onTrack" => panel.shortfall = 0 /\ panel.corpus + Rupee > in.fireNumber
             /\ panel.kind = "invest" =>
                  panel.corpus + panel.shortfall \in in.fireNumber - Rupee .. in.fireNumber + Rupee
             /\ panel.fireAge # Null /\ panel.fireAge > in.targetAge =>
                  /\ panel.chart[panel.fireAge] >= in.fireNumber
                  /\ \A age \in DOMAIN panel.chart :
                       age < panel.fireAge => panel.chart[age] < in.fireNumber
  <2>1. ~warned
    BY <1>1, <1>3
  <2>2. PICK a \in Int, t \in Int, pct \in Nat, number \in Nat :
          /\ a = in.currentAge /\ t = in.targetAge /\ pct = in.expectedReturnPct
          /\ number = in.fireNumber /\ a < t
    <3>1. in.currentAge < in.targetAge /\ in.expectedReturnPct \in Nat /\ in.fireNumber \in Nat
      BY <1>3, <2>1
    <3> QED BY <3>1
  <2> DEFINE base == ProjectSip(a, t, start, sip, pct)
             extended == ProjectSip(a, MaxAge, start, sip, pct)
             fire == FindFireAge(base, extended, number, t)
  <2>3. base = Series(in, in.targetAge, start, sip) /\ extended = Series(in, MaxAge, start, sip)
    BY <2>2 DEF Series
  <2>4. r.fire = fire
    BY <2>2, <2>3
  <2>11. FireAgeFits(base, t, number, fire)
    <3>1. /\ base = ProjectSip(a, t, start, sip, pct) /\ extended = ProjectSip(a, MaxAge, start, sip, pct)
          /\ fire = FindFireAge(base, extended, number, t)
      OBVIOUS
    <3> HIDE DEF base, extended, fire
    <3>2. a < t
      BY <2>2
    <3> QED BY <3>1, <3>2, FireAgeIs
  <2>5. /\ base[t] \in Int
        /\ base[t] >= number <=> fire.actualFireAge # Null /\ fire.actualFireAge <= t
        /\ fire.actualFireAge # Null /\ fire.actualFireAge > t =>
             /\ fire.series[fire.actualFireAge] >= number
             /\ \A age \in DOMAIN fire.series : age < fire.actualFireAge => fire.series[age] < number
    BY <2>11 DEF FireAgeFits
  <2> HIDE DEF base, extended, fire
  <2>6. /\ r.isOnTrack = (base[t] >= number) /\ r.shortfall = IF r.isOnTrack THEN 0 ELSE number - base[t]
        /\ r.corpus = base[t]
    BY <2>2, <2>3
  <2>7. /\ Rupee \in Nat \ {0} /\ Rounded(0) = 0 /\ Rounded(base[t]) \in Int
        /\ 2 * base[t] - Rupee < 2 * Rounded(base[t]) /\ 2 * Rounded(base[t]) <= 2 * base[t] + Rupee
    BY <2>5, RoundedFacts
  <2>8. /\ panel.kind = "onTrack" => panel.shortfall = 0 /\ panel.corpus + Rupee > in.fireNumber
        /\ panel.kind = "invest" =>
             panel.corpus + panel.shortfall \in in.fireNumber - Rupee .. in.fireNumber + Rupee
    <3>1. CASE base[t] >= number
      <4>1. panel.kind = "onTrack" /\ panel.shortfall = 0 /\ panel.corpus = Rounded(base[t])
        BY <1>2, <2>1, <2>6, <2>7, <3>1
      <4>2. Rounded(base[t]) + Rupee > number
        BY <2>2, <2>5, <2>7, <3>1
      <4> QED BY <2>2, <4>1, <4>2
    <3>2. CASE ~(base[t] >= number)
      <4> DEFINE short == number - base[t]
      <4>1. /\ panel.kind = "invest" /\ panel.shortfall = Rounded(short)
            /\ panel.corpus = Rounded(base[t])
        BY <1>2, <2>1, <2>6, <3>2
      <4>2. short \in Int
        BY <2>2, <2>5
      <4>3. short = number - base[t]
        OBVIOUS
      <4> HIDE DEF short
      <4>4. /\ Rounded(short) \in Int
            /\ 2 * short - Rupee < 2 * Rounded(short) /\ 2 * Rounded(short) <= 2 * short + Rupee
        BY <4>2, RoundedFacts
      <4>5. Rounded(base[t]) + Rounded(short) \in number - Rupee .. number + Rupee
        <5> DEFINE x == base[t]
                   y == Rounded(x)
                   z == Rounded(short)
        <5>1. /\ x \in Int /\ y \in Int /\ z \in Int /\ short \in Int /\ number \in Int /\ Rupee \in Nat
              /\ short = number - x
              /\ 2 * x - Rupee < 2 * y /\ 2 * y <= 2 * x + Rupee
              /\ 2 * short - Rupee < 2 * z /\ 2 * z <= 2 * short + Rupee
          BY <2>2, <2>5, <2>7, <4>2, <4>3, <4>4, RoundedFacts
        <5> HIDE DEF x, y, z
        <5>2. y + z \in number - Rupee .. number + Rupee
          BY <5>1
        <5> QED BY <5>2 DEF x, y, z
      <4> QED BY <2>2, <4>1, <4>5
    <3> QED BY <3>1, <3>2
  <2>9. /\ (panel.kind = "onTrack") = (panel.fireAge # Null /\ panel.fireAge <= in.targetAge)
        /\ panel.fireAge # Null /\ panel.fireAge > in.targetAge =>
             /\ panel.chart[panel.fireAge] >= in.fireNumber
             /\ \A age \in DOMAIN panel.chart :
                  age < panel.fireAge => panel.chart[age] < in.fireNumber
    <3>1. panel.fireAge = fire.actualFireAge /\ panel.chart = fire.series
      BY <1>2, <2>1, <2>4
    <3>2. (panel.kind = "onTrack") = (base[t] >= number)
      <4>1. CASE base[t] >= number
        BY <1>2, <2>1, <2>6, <4>1
      <4>2. CASE ~(base[t] >= number)
        <5>1. panel.kind = "invest"
          BY <1>2, <2>1, <2>6, <4>2
        <5> QED BY <4>2, <5>1
      <4> QED BY <4>1, <4>2
    <3> QED BY <2>2, <2>5, <3>1, <3>2
  <2> QED BY <2>8, <2>9
<1> QED BY <1>3, Zenon DEF ProgressIsConsistent, panel

(* The SIP page: consistent, and the sum is on track to the rupee.         *)
LEMMA SipSound ==
    ASSUME NEW in, SipInputs(in), in.monthlySip \in Int, SipForm \subseteq DOMAIN in
    PROVE  SipAdvice(in, SipPanel(in))
<1> DEFINE r == SipFire(in)
           panel == SipPanel(in)
           warned == in.targetAge <= in.currentAge \/ in.fireNumber <= 0
           reached == Reached(in, in.monthlySip)
<1>1. panel = ProgressPanel(in, r)
  BY DEF SipPanel
<1>2. /\ r.fire = FindFireAge(Series(in, in.targetAge, in.currentSavings, in.monthlySip),
                              Series(in, MaxAge, in.currentSavings, in.monthlySip),
                              in.fireNumber, in.targetAge)
      /\ r.isOnTrack = (Series(in, in.targetAge, in.currentSavings, in.monthlySip)[in.targetAge] >= in.fireNumber)
      /\ r.shortfall = IF r.isOnTrack THEN 0
                       ELSE in.fireNumber - Series(in, in.targetAge, in.currentSavings, in.monthlySip)[in.targetAge]
      /\ r.corpus = Series(in, in.targetAge, in.currentSavings, in.monthlySip)[in.targetAge]
  BY DEF SipFire, SipSeries, Series
<1>3. /\ r.isOnTrack = (reached >= in.fireNumber)
      /\ r.required = IF r.isOnTrack THEN in.monthlySip
                      ELSE Bisect(ReachingSips(in), in.monthlySip, MaxMonthlySip)
  BY DEF SipFire, SipSeries, ReachingSips, Reached
<1>4. warned => panel.kind = "warning"
  BY <1>1 DEF ProgressPanel, Warning
<1>5. ~warned => panel.kind = (IF r.isOnTrack THEN "onTrack" ELSE "invest") /\ panel.advice = Rounded(r.required)
  BY <1>1 DEF ProgressPanel
<1> HIDE DEF r, panel
<1>6. ASSUME in.monthlySip >= 0 PROVE ProgressIsConsistent(in, panel)
  <2>1. PICK sip \in Nat, start \in Int : sip = in.monthlySip /\ start = in.currentSavings
    BY <1>6 DEF SipInputs
  <2>2. /\ r.fire = FindFireAge(Series(in, in.targetAge, start, sip), Series(in, MaxAge, start, sip),
                                in.fireNumber, in.targetAge)
        /\ r.isOnTrack = (Series(in, in.targetAge, start, sip)[in.targetAge] >= in.fireNumber)
        /\ r.shortfall = IF r.isOnTrack THEN 0
                         ELSE in.fireNumber - Series(in, in.targetAge, start, sip)[in.targetAge]
        /\ r.corpus = Series(in, in.targetAge, start, sip)[in.targetAge]
    BY <1>2, <2>1
  <2>3. in.currentAge \in Int /\ in.targetAge \in Int /\ in.fireNumber \in Int /\ in.expectedReturnPct \in Int
    BY DEF SipInputs
  <2> QED BY <1>1, <2>2, <2>3, ProgressSound
<1>7. ASSUME in.monthlySip >= 0, panel.kind = "invest", in.expectedReturnPct >= -100
      PROVE  PlanIsOnTrack(in, panel)
  <2>1. ~warned /\ ~r.isOnTrack
    BY <1>4, <1>5, <1>7
  <2>2. in.currentAge < in.targetAge
    BY <2>1 DEF SipInputs
  <2>3. PICK low \in Nat : low = in.monthlySip
    BY <1>7
  <2>4. panel.kind = "onTrack" <=> Reached(in, in.monthlySip) >= in.fireNumber
    BY <1>3, <1>5, <2>1
  <2>5. panel.advice = Rounded(Bisect(ReachingSips(in), low, MaxMonthlySip)) /\ ~(Reached(in, low) >= in.fireNumber)
    BY <1>3, <1>5, <2>1, <2>3
  <2> QED BY <1>7, <2>2, <2>4, <2>5, PlanSound
<1>8. panel.kind = "invest" /\ in.expectedReturnPct >= -100 /\ in.monthlySip >= 0 => PlanIsOnTrack(in, panel)
  BY <1>7
<1> QED BY <1>6, <1>8, Zenon DEF SipAdvice, panel

(* What is left of an amount discounted to its start and grown again.      *)
LEMMA DiscountedIsLeast ==
    ASSUME NEW a \in Int, NEW t \in Int, a < t, NEW start \in Int, NEW pct \in Int, pct > -100,
           NEW number \in Int, NEW sip, sip = 0
    PROVE  /\ ProjectSip(a, t, start, sip, pct)[t] \in Int /\ Discounted(number, pct, t - a) \in Int
           /\ ProjectSip(a, t, start, sip, pct)[t] >= number <=> start >= Discounted(number, pct, t - a)
<1> DEFINE f == ProjectSip(a, t, start, sip, pct)
           Earlier(v) == (100 * v + 99 + pct) \div (100 + pct)
           turn == [p \in Int \X Int |-> Earlier(p[2])]
<1>1. PICK years \in Int, zero \in Int : years = t - a /\ zero = 0
  BY t - a \in Int
<1>e. \A v \in Int : Earlier(v) \in Int
  <2> SUFFICES ASSUME NEW v \in Int PROVE (100 * v + 99 + pct) \div (100 + pct) \in Int
    OBVIOUS
  <2> QED OBVIOUS
<1> HIDE DEF Earlier
<1>2. \A n \in Int : \A v \in Int : turn[<<n, v>>] = Earlier(v) /\ turn[<<n, v>>] \in Int
  BY <1>e
<1> HIDE DEF turn
<1>3. \E g : Runs(g, zero, years, number, turn) /\ \A n \in zero..years : g[n] \in Int
  <2>1. \A n \in (zero + 1)..years : \A v \in Int : turn[<<n, v>>] \in Int
    <3> SUFFICES ASSUME NEW n \in (zero + 1)..years, NEW v \in Int PROVE turn[<<n, v>>] \in Int
      OBVIOUS
    <3>1. n \in Int
      OBVIOUS
    <3> QED BY <1>2, <3>1
  <2> QED BY <2>1, RunExists
<1> DEFINE Solution(g) == g = [n \in 0..(t - a) |-> IF n = 0 THEN number
                                                    ELSE Earlier(g[n - 1])]
           before == CHOOSE g : Solution(g)
<1>4. \E g : Solution(g)
  <2>1. PICK g : Runs(g, zero, years, number, turn) /\ \A n \in zero..years : g[n] \in Int
    BY <1>3
  <2>2. \A n \in 0..(t - a) : n # 0 => turn[<<n, g[n - 1]>>] = Earlier(g[n - 1])
    <3> SUFFICES ASSUME NEW n \in 0..(t - a), n # 0
                 PROVE  turn[<<n, g[n - 1]>>] = Earlier(g[n - 1])
      OBVIOUS
    <3>1. n \in Int /\ n - 1 \in zero..years
      BY <1>1
    <3>2. g[n - 1] \in Int
      BY <2>1, <3>1
    <3> QED BY <1>2, <3>1, <3>2
  <2>3. g = [n \in 0..(t - a) |-> IF n = 0 THEN number ELSE turn[<<n, g[n - 1]>>]]
    BY <1>1, <2>1 DEF Runs
  <2>4. Solution(g)
    BY <2>2, <2>3
  <2> HIDE DEF Solution
  <2> QED BY <2>4
<1>5. Solution(before)
  <2> HIDE DEF Solution
  <2> QED BY <1>4
<1>6. Discounted(number, pct, t - a) = before[t - a]
  BY Zenon DEF Discounted, before, Solution, Earlier
<1>7. /\ before[0] = number
      /\ \A n \in 1..(t - a) : before[n] = (100 * before[n - 1] + 99 + pct) \div (100 + pct)
  <2> HIDE DEF before
  <2>1. \A n \in 0..(t - a) : before[n] = IF n = 0 THEN number
                                          ELSE (100 * before[n - 1] + 99 + pct) \div (100 + pct)
    BY <1>5 DEF Earlier
  <2>2. 0 \in 0..(t - a)
    OBVIOUS
  <2> QED BY <2>1, <2>2
<1> HIDE DEF before, Solution
<1>8. Books(a, t, start, Yearly(pct), Yearly(12 * sip)) /\ IsLedger(f, a, t, start, Yearly(pct), Yearly(12 * sip))
  BY ProjectSipIs
<1> HIDE DEF f
<1>9. /\ DOMAIN f = a..t /\ f[a] = start /\ \A n \in a..t : f[n] \in Int
      /\ \A n \in (a + 1)..t : f[n] = Grow(f[n - 1], Yearly(pct)[n]) + Yearly(12 * sip)[n]
  <2>1. PICK rate, flow : rate = Yearly(pct) /\ flow = Yearly(12 * sip)
    OBVIOUS
  <2>2. Books(a, t, start, rate, flow) /\ IsLedger(f, a, t, start, rate, flow)
    BY <1>8, <2>1
  <2>3. /\ DOMAIN f = a..t
        /\ a <= t => f[a] = start
        /\ \A n \in (a + 1)..t : f[n - 1] \in Int /\ f[n] = Grow(f[n - 1], rate[n]) + flow[n]
        /\ \A n \in a..t : f[n] \in Int
    BY <2>2, LedgerFacts
  <2> QED BY <2>1, <2>3
<1>10. \A n \in (a + 1)..t : f[n] = Grow(f[n - 1], pct)
  <2> SUFFICES ASSUME NEW n \in (a + 1)..t PROVE f[n] = Grow(f[n - 1], pct)
    OBVIOUS
  <2>1. f[n] = Grow(f[n - 1], pct) + 0 /\ f[n - 1] \in Int
    BY <1>9 DEF Yearly
  <2>2. Grow(f[n - 1], pct) \in Int
    BY <2>1, GrowIsInt
  <2> QED BY <2>1, <2>2
<1> DEFINE S == {n \in 0..years : before[n] \in Int /\ (f[t - n] >= before[n] <=> f[t] >= number)}
<1>11. zero \in S
  BY <1>1, <1>7
<1>12. ASSUME NEW n \in (zero + 1)..years, n - 1 \in S PROVE n \in S
  <2>1. n \in 1..(t - a) /\ n \in 0..years /\ t - (n - 1) \in (a + 1)..t /\ (t - (n - 1)) - 1 = t - n /\ t - n \in a..t
    BY <1>1
  <2>2. before[n - 1] \in Int /\ (f[t - (n - 1)] >= before[n - 1] <=> f[t] >= number)
    BY <1>12
  <2>3. PICK x \in Int, y \in Int : x = f[t - n] /\ y = before[n - 1]
    BY <1>9, <2>1, <2>2
  <2>4. f[t - (n - 1)] = Grow(x, pct)
    BY <1>10, <2>1, <2>3
  <2>5. before[n] = (100 * y + 99 + pct) \div (100 + pct)
    BY <1>7, <2>1, <2>3
  <2>6. before[n] \in Int /\ (Grow(x, pct) >= y <=> x >= before[n])
    BY <2>5, LeastToGrow
  <2> QED BY <2>1, <2>2, <2>3, <2>4, <2>6
<1>13. zero..years \subseteq S
  <2> HIDE DEF S
  <2> QED BY <1>11, <1>12, YearByYear
<1>14. before[t - a] \in Int /\ (start >= before[t - a] <=> f[t] >= number)
  <2>1. t - a \in S /\ t - (t - a) = a
    BY <1>1, <1>13
  <2> QED BY <1>9, <2>1
<1>15. f[t] \in Int
  BY <1>9
<1> QED BY <1>6, <1>14, <1>15 DEF f

(* The lumpsum page: consistent, and the amount is on track to the rupee.  *)
LEMMA LumpsumSound ==
    ASSUME NEW in, in.currentAge \in Int, in.targetAge \in Int, in.lumpsumAmount \in Int,
           in.expectedReturnPct \in Int, in.fireNumber \in Int
    PROVE  LumpsumAdvice(in, LumpsumPanel(in))
<1> DEFINE r == LumpsumFire(in)
           panel == LumpsumPanel(in)
           warned == in.targetAge <= in.currentAge \/ in.fireNumber <= 0
<1>1. panel = ProgressPanel(in, r)
  BY DEF LumpsumPanel
<1>2. PICK start \in Int, sip \in Nat : start = in.lumpsumAmount /\ sip = 0
  OBVIOUS
<1>3. /\ r.fire = FindFireAge(Series(in, in.targetAge, start, sip), Series(in, MaxAge, start, sip),
                              in.fireNumber, in.targetAge)
      /\ r.isOnTrack = (Series(in, in.targetAge, start, sip)[in.targetAge] >= in.fireNumber)
      /\ r.shortfall = IF r.isOnTrack THEN 0
                       ELSE in.fireNumber - Series(in, in.targetAge, start, sip)[in.targetAge]
      /\ r.corpus = Series(in, in.targetAge, start, sip)[in.targetAge]
      /\ r.required = Discounted(in.fireNumber, in.expectedReturnPct, in.targetAge - in.currentAge)
  BY <1>2 DEF LumpsumFire, LumpsumSeries, Series
<1>4. warned => panel.kind = "warning"
  BY <1>1 DEF ProgressPanel, Warning
<1>5. ~warned => panel.kind = (IF r.isOnTrack THEN "onTrack" ELSE "invest") /\ panel.advice = Rounded(r.required)
  BY <1>1 DEF ProgressPanel
<1> HIDE DEF r, panel
<1>6. ProgressIsConsistent(in, panel)
  BY <1>1, <1>3, ProgressSound
<1>7. ASSUME panel.kind # "warning", in.expectedReturnPct > -100
      PROVE  /\ in.lumpsumAmount >= panel.advice + Rupee => panel.kind = "onTrack"
             /\ in.lumpsumAmount <= panel.advice - Rupee => panel.kind = "invest"
  <2>1. PICK a \in Int, t \in Int, pct \in Int, number \in Int :
          a = in.currentAge /\ t = in.targetAge /\ pct = in.expectedReturnPct /\ number = in.fireNumber
    OBVIOUS
  <2>2. ~warned /\ a < t /\ pct > -100
    BY <1>4, <1>7, <2>1
  <2>3. ProjectSip(a, t, start, sip, pct)[t] >= number <=> start >= Discounted(number, pct, t - a)
    BY <1>2, <2>2, DiscountedIsLeast
  <2>4. r.isOnTrack = (ProjectSip(a, t, start, sip, pct)[t] >= number) /\ r.required = Discounted(number, pct, t - a)
    BY <1>3, <2>1 DEF Series
  <2> DEFINE least == Discounted(number, pct, t - a)
  <2>5. least \in Int
    BY <2>2, DiscountedIsLeast
  <2>6. panel.kind = (IF start >= least THEN "onTrack" ELSE "invest") /\ panel.advice = Rounded(least)
    BY <1>5, <2>2, <2>3, <2>4
  <2> HIDE DEF least
  <2>7. Rounded(least) \in Int /\ Rupee \in Int /\ least + 1 <= Rounded(least) + Rupee /\ Rounded(least) - Rupee < least
    <3>1. Rounded(least) \in Int /\ Rupee \in Nat
      BY <2>5, RoundedFacts
    <3>2. least + 1 <= Rounded(least) + Rupee /\ Rounded(least) - Rupee < least
      BY <2>5, RupeeBeside, Zenon
    <3> QED BY <3>1, <3>2
  <2>8. start >= Rounded(least) + Rupee => start >= least
    BY <2>5, <2>7
  <2>9. start <= Rounded(least) - Rupee => ~(start >= least)
    BY <2>5, <2>7
  <2> QED BY <1>2, <2>6, <2>8, <2>9
<1> QED BY <1>6, <1>7, Zenon DEF LumpsumAdvice, panel

-----------------------------------------------------------------------------
(* Savings                                                                 *)

(* There is one such year.                                                 *)
LEMMA FirstYearIs ==
    ASSUME NEW a \in Int, NEW b \in Int, NEW series, NEW number, NEW x, FirstYear(series, a, b, number, x),
           NEW y \in a..b, series[y] >= number, \A age \in a..b : age < y => ~(series[age] >= number)
    PROVE  x = y
BY DEF FirstYear

(* Counted from today or from one's birth, the number's first year is one. *)
LEMMA SameFireAge ==
    ASSUME NEW a \in Int, NEW start \in Int, NEW sip \in Int, NEW pct \in Int, NEW number \in Int,
           NEW zero \in Int, zero = 0, NEW last \in Int, NEW t \in Int, t = a + 1,
           NEW g, IsLedger(g, zero, last, start, Yearly(pct), Yearly(12 * sip)),
           NEW y \in zero..last, FirstYear(g, zero, last, number, y), a + y <= MaxAge
    PROVE  FindFireAge(ProjectSip(a, t, start, sip, pct), ProjectSip(a, MaxAge, start, sip, pct),
                       number, t).actualFireAge = a + y
<1> DEFINE base == ProjectSip(a, t, start, sip, pct)
           extended == ProjectSip(a, MaxAge, start, sip, pct)
           within == Crossing(base, number)
           later == Crossing(extended, number)
           fire == FindFireAge(base, extended, number, t)
<1>1. MaxAge \in Int /\ Null \notin Int
  BY ProjectionsAssumption
<1>2. PICK rate, flow : rate = Yearly(pct) /\ flow = Yearly(12 * sip)
  OBVIOUS
<1>3. Books(a, t, start, rate, flow) /\ IsLedger(base, a, t, start, rate, flow)
  BY <1>2, ProjectSipIs
<1>4. Books(a, MaxAge, start, rate, flow) /\ IsLedger(extended, a, MaxAge, start, rate, flow)
  BY <1>1, <1>2, ProjectSipIs
<1>5. Books(zero, last, start, rate, flow) /\ IsLedger(g, zero, last, start, rate, flow)
  BY <1>2 DEF Books, Yearly
<1>6. fire.actualFireAge = IF within # Null \/ t >= MaxAge THEN within ELSE later
  BY DEF FindFireAge
<1> HIDE DEF base, extended, fire
<1>7. FirstYear(base, a, t, number, within) /\ FirstYear(extended, a, MaxAge, number, later)
  <2>1. DOMAIN base = a..t
    BY <1>3, LedgerFacts
  <2>2. DOMAIN extended = a..MaxAge
    BY <1>4, LedgerFacts
  <2> QED BY <1>1, <2>1, <2>2, CrossingIs
<1> HIDE DEF within, later
<1>8. g[y] >= number /\ \A n \in zero..last : n < y => ~(g[n] >= number)
  BY <1>1 DEF FirstYear
<1>9. a = zero + a
  OBVIOUS
<1>10. ASSUME NEW e \in Int, e <= last, e + a <= t PROVE \A n \in zero..e : g[n] = base[n + a]
  <2>1. SameEntries(rate, flow, zero, e, rate, flow, a)
    BY <1>2 DEF SameEntries, Yearly
  <2> QED BY <1>3, <1>5, <1>9, <1>10, <2>1, LedgersAgree
<1>11. CASE y <= 1
  <2>1. \A n \in zero..y : g[n] = base[n + a]
    BY <1>10, <1>11
  <2>2. a + y \in a..t /\ base[a + y] >= number
    BY <1>8, <1>11, <2>1
  <2>3. \A age \in a..t : age < a + y => ~(base[age] >= number)
    <3> SUFFICES ASSUME NEW age \in a..t, age < a + y PROVE ~(base[age] >= number)
      OBVIOUS
    <3>1. PICK n \in zero..y : n = age - a /\ n < y /\ n \in zero..last
      <4>1. age - a \in zero..y /\ age - a < y /\ age - a \in zero..last
        OBVIOUS
      <4> QED BY <4>1
    <3>2. n + a = age
      BY <3>1
    <3> QED BY <1>8, <2>1, <3>1, <3>2
  <2>4. within = a + y
    BY <1>7, <2>2, <2>3, FirstYearIs
  <2> QED BY <1>1, <1>6, <2>4 DEF base, extended, fire
<1>12. CASE y > 1
  <2>1. within = Null
    <3> SUFFICES ASSUME within # Null PROVE FALSE
      OBVIOUS
    <3>1. within \in a..t /\ base[within] >= number
      BY <1>7 DEF FirstYear
    <3>2. PICK e \in Int : e = 1
      OBVIOUS
    <3>3. \A n \in zero..e : g[n] = base[n + a]
      BY <1>10, <1>12, <3>2
    <3>4. PICK n \in zero..e : n = within - a /\ n < y /\ n \in zero..last
      <4>1. within - a \in zero..e /\ within - a < y /\ within - a \in zero..last
        BY <1>12, <3>1, <3>2
      <4> QED BY <4>1
    <3>5. n + a = within
      BY <3>1, <3>4
    <3> QED BY <1>8, <3>1, <3>3, <3>4, <3>5
  <2>2. \A n \in zero..y : g[n] = extended[n + a]
    <3>1. SameEntries(rate, flow, zero, y, rate, flow, a) /\ y \in Int /\ y <= last /\ y + a <= MaxAge
      BY <1>2 DEF SameEntries, Yearly
    <3> QED BY <1>4, <1>5, <1>9, <3>1, LedgersAgree
  <2>3. a + y \in a..MaxAge /\ extended[a + y] >= number
    BY <1>1, <1>8, <2>2
  <2>4. \A age \in a..MaxAge : age < a + y => ~(extended[age] >= number)
    <3> SUFFICES ASSUME NEW age \in a..MaxAge, age < a + y PROVE ~(extended[age] >= number)
      OBVIOUS
    <3>1. PICK n \in zero..y : n = age - a /\ n < y /\ n \in zero..last
      <4>1. age - a \in zero..y /\ age - a < y /\ age - a \in zero..last
        BY <1>1
      <4> QED BY <4>1
    <3>2. n + a = age
      BY <1>1, <3>1
    <3> QED BY <1>8, <2>2, <3>1, <3>2
  <2>5. later = a + y
    BY <1>1, <1>7, <2>3, <2>4, FirstYearIs
  <2>6. ~(within # Null \/ t >= MaxAge)
    BY <1>1, <1>12, <2>1
  <2> QED BY <1>6, <2>5, <2>6 DEF base, extended, fire
<1> QED BY <1>11, <1>12

SavingsInputs(in) ==
    /\ in.currentAge \in Int /\ in.monthlyIncome \in Int /\ in.monthlyExpenses \in Int
    /\ in.currentSavings \in Int /\ in.returnPct \in Int /\ in.inflationPct \in Int

(* The balances of the savings-rate page.                                  *)
Saved(in) ==
    LET balance[year \in 0..MaxYears] ==
            IF year = 0 THEN in.currentSavings
            ELSE (balance[year - 1] * (100 + in.returnPct)) \div (100 + in.inflationPct)
                    + 12 * (in.monthlyIncome - in.monthlyExpenses)
    IN  balance

(* Without inflation they are those of a monthly plan.                     *)
LEMMA SavedIsLedger ==
    ASSUME NEW in, SavingsInputs(in), in.inflationPct = 0
    PROVE  IsLedger(Saved(in), 0, MaxYears, in.currentSavings, Yearly(in.returnPct),
                    Yearly(12 * (in.monthlyIncome - in.monthlyExpenses)))
<1> DEFINE flow == 12 * (in.monthlyIncome - in.monthlyExpenses)
           Solution(f) == f = [year \in 0..MaxYears |->
                                 IF year = 0 THEN in.currentSavings
                                 ELSE (f[year - 1] * (100 + in.returnPct)) \div (100 + in.inflationPct) + flow]
           Ledger(f) == IsLedger(f, 0, MaxYears, in.currentSavings, Yearly(in.returnPct), Yearly(flow))
<1>1. \A f : Solution(f) <=> Ledger(f)
  <2>1. ASSUME NEW f, NEW year \in 0..MaxYears
        PROVE  (f[year - 1] * (100 + in.returnPct)) \div (100 + in.inflationPct) + flow
                 = Grow(f[year - 1], Yearly(in.returnPct)[year]) + Yearly(flow)[year]
    <3>1. year \in Int /\ 100 + in.inflationPct = 100
      OBVIOUS
    <3>2. Yearly(in.returnPct)[year] = in.returnPct /\ Yearly(flow)[year] = flow
      BY <3>1 DEF Yearly
    <3> HIDE DEF flow
    <3> QED BY <3>1, <3>2 DEF Grow
  <2> HIDE DEF flow
  <2> QED BY <2>1 DEF IsLedger
<1>2. \E f : Ledger(f)
  <2>1. PICK a \in Int : a = 0
    OBVIOUS
  <2>2. Books(a, MaxYears, in.currentSavings, Yearly(in.returnPct), Yearly(flow))
    BY ProjectionsAssumption DEF Books, Yearly, SavingsInputs
  <2> HIDE DEF flow
  <2>3. \E f : IsLedger(f, a, MaxYears, in.currentSavings, Yearly(in.returnPct), Yearly(flow))
    BY <2>2, LedgerExists
  <2> QED BY <2>1, <2>3
<1>3. Saved(in) = CHOOSE f : Solution(f)
  BY Zenon DEF Saved, Solution, flow
<1> HIDE DEF Solution, Ledger, flow
<1>4. Solution(Saved(in))
  BY <1>1, <1>2, <1>3
<1>5. Ledger(Saved(in))
  BY <1>1, <1>4
<1> QED BY <1>5 DEF Ledger, flow

(* The savings-rate page names the age the SIP page names.                 *)
LEMMA SavingsSound ==
    ASSUME NEW in, SavingsInputs(in)
    PROVE  SavingIsInvesting(in, SavingsRatePanel(in))
<1> DEFINE panel == SavingsRatePanel(in)
           r == SavingsRate(in)
           asSip == [currentAge |-> in.currentAge, targetAge |-> in.currentAge + 1,
                     currentSavings |-> in.currentSavings,
                     monthlySip |-> in.monthlyIncome - in.monthlyExpenses,
                     expectedReturnPct |-> in.returnPct,
                     fireNumber |-> 12 * FiMultiple * in.monthlyExpenses]
<1>1. /\ r.yearsToFI = Crossing(Saved(in), 12 * FiMultiple * in.monthlyExpenses)
      /\ r.yearsToFI # Null => r.targetAge = in.currentAge + r.yearsToFI
  BY DEF SavingsRate, Saved
<1>2. panel.kind \in {"onTrack", "reach"} => r.yearsToFI # Null /\ panel.age = r.targetAge
  BY DEF SavingsRatePanel, Warning
<1> HIDE DEF panel, r
<1>3. ASSUME in.inflationPct = 0, panel.kind \in {"onTrack", "reach"}, panel.age <= MaxAge
      PROVE  SipFire(asSip).fire.actualFireAge = panel.age
  <2>1. PICK a \in Int, start \in Int, sip \in Int, pct \in Int, number \in Int, zero \in Int, t \in Int, last \in Int :
          /\ a = in.currentAge /\ start = in.currentSavings /\ sip = in.monthlyIncome - in.monthlyExpenses
          /\ pct = in.returnPct /\ number = 12 * FiMultiple * in.monthlyExpenses /\ zero = 0 /\ t = a + 1
          /\ last = MaxYears
    <3>1. /\ in.monthlyIncome - in.monthlyExpenses \in Int /\ 12 * FiMultiple * in.monthlyExpenses \in Int
          /\ in.currentAge + 1 \in Int /\ MaxYears \in Int
      BY ProjectionsAssumption DEF SavingsInputs, FiMultiple
    <3>2. in.currentAge \in Int /\ in.currentSavings \in Int /\ in.returnPct \in Int /\ 0 \in Int
      BY DEF SavingsInputs
    <3> USE <3>1, <3>2
    <3> WITNESS in.currentAge \in Int, in.currentSavings \in Int, in.monthlyIncome - in.monthlyExpenses \in Int,
                in.returnPct \in Int, 12 * FiMultiple * in.monthlyExpenses \in Int, 0 \in Int,
                in.currentAge + 1 \in Int, MaxYears \in Int
    <3> QED OBVIOUS
  <2> DEFINE g == Saved(in)
             years == r.yearsToFI
  <2>2. IsLedger(g, zero, last, start, Yearly(pct), Yearly(12 * sip))
    BY <1>3, <2>1, SavedIsLedger
  <2> HIDE DEF g
  <2>3. DOMAIN g = zero..last
    BY <2>2 DEF IsLedger
  <2>4. FirstYear(g, zero, last, number, years)
    BY <1>1, <2>1, <2>3, CrossingIs DEF g
  <2>5. years # Null /\ panel.age = a + years
    BY <1>1, <1>2, <1>3, <2>1
  <2> HIDE DEF years
  <2>6. years \in zero..last
    BY <2>4, <2>5 DEF FirstYear
  <2>7. FindFireAge(ProjectSip(a, t, start, sip, pct), ProjectSip(a, MaxAge, start, sip, pct),
                    number, t).actualFireAge = a + years
    BY <1>3, <2>1, <2>2, <2>4, <2>5, <2>6, SameFireAge
  <2>8. SipFire(asSip).fire = FindFireAge(ProjectSip(a, t, start, sip, pct), ProjectSip(a, MaxAge, start, sip, pct),
                                          number, t)
    BY <2>1 DEF SipFire, SipSeries
  <2> QED BY <2>5, <2>7, <2>8
<1> QED BY <1>3, Zenon DEF SavingIsInvesting, panel

-----------------------------------------------------------------------------
(* Retirement schemes                                                      *)

(* The balances of a scheme and what was paid into it.                     *)
Fund(a, b, start, contribution, pct) ==
    LET at[age \in a..b] ==
            IF age = a THEN [balance |-> start, paid |-> 0]
            ELSE LET paid == contribution[age - a - 1]
                 IN  [balance |-> Grow(at[age - 1].balance + paid, pct),
                      paid    |-> at[age - 1].paid + paid]
    IN  at

FundOf(in, contribution, pct) ==
    Fund(in.currentAge, in.retirementAge, in.currentBalance, contribution, pct)[in.retirementAge]

(* That is what a scheme accumulates.                                      *)
LEMMA AccumulateIs ==
    ASSUME NEW in, NEW contribution, NEW pct
    PROVE  LET r == Accumulate(in, contribution, pct)
               end == FundOf(in, contribution, pct)
           IN  /\ r.corpus = end.balance
               /\ r.totalInterest = end.balance - in.currentBalance - end.paid
               /\ r.coveragePct = IF in.fireNumber > 0 THEN (end.balance * 100) \div in.fireNumber ELSE Null
BY DEF Accumulate, FundOf, Fund

(* A fund holds what it started with, what was paid into it, and more.     *)
LEMMA FundGains ==
    ASSUME NEW a \in Int, NEW b \in Int, a < b, NEW start \in Nat, NEW contribution, NEW pct \in Nat,
           \A n \in Nat : contribution[n] \in Nat
    PROVE  LET end == Fund(a, b, start, contribution, pct)[b]
           IN  end.balance \in Nat /\ end.paid \in Nat /\ end.balance >= start + end.paid
<1> DEFINE V == {v \in [balance : Nat, paid : Nat] : v.balance >= start + v.paid}
           After(n, v) == LET paid == contribution[n - a - 1]
                          IN  [balance |-> Grow(v.balance + paid, pct), paid |-> v.paid + paid]
           turn == [p \in Int \X V |-> After(p[1], p[2])]
           Solution(f) == f = [age \in a..b |-> IF age = a THEN [balance |-> start, paid |-> 0]
                                                ELSE After(age, f[age - 1])]
           first == [balance |-> start, paid |-> 0]
<1>1. first \in V
  OBVIOUS
<1>2. ASSUME NEW n \in (a + 1)..b, NEW v \in V PROVE After(n, v) \in V
  <2>1. n - a - 1 \in Nat
    OBVIOUS
  <2>2. PICK c \in Nat : c = contribution[n - a - 1]
    BY <2>1
  <2>3. v.balance \in Nat /\ v.paid \in Nat /\ v.balance >= start + v.paid
    OBVIOUS
  <2>4. PICK x \in Nat : x = v.balance + c
    BY <2>3
  <2>5. x \in Int /\ pct \in Int
    OBVIOUS
  <2>6. Grow(x, pct) >= x
    BY GrowGains
  <2>7. Grow(x, pct) \in Int
    BY <2>5, GrowIsInt
  <2>8. After(n, v) = [balance |-> Grow(x, pct), paid |-> v.paid + c]
    BY <2>2, <2>4
  <2> HIDE DEF After
  <2> QED BY <2>3, <2>4, <2>6, <2>7, <2>8
<1> HIDE DEF V, After, first
<1>3. \A n \in (a + 1)..b : \A v \in V : turn[<<n, v>>] = After(n, v)
  <2> SUFFICES ASSUME NEW n \in (a + 1)..b, NEW v \in V PROVE turn[<<n, v>>] = After(n, v)
    OBVIOUS
  <2>1. n \in Int
    OBVIOUS
  <2> QED BY <2>1
<1> HIDE DEF turn
<1>4. \E f : Solution(f)
  <2>1. \A n \in (a + 1)..b : \A v \in V : turn[<<n, v>>] \in V
    BY <1>2, <1>3
  <2>2. PICK f : Runs(f, a, b, first, turn) /\ \A n \in a..b : f[n] \in V
    BY <1>1, <2>1, RunExists
  <2>3. \A n \in a..b : n # a => turn[<<n, f[n - 1]>>] = After(n, f[n - 1])
    <3> SUFFICES ASSUME NEW n \in a..b, n # a PROVE turn[<<n, f[n - 1]>>] = After(n, f[n - 1])
      OBVIOUS
    <3>1. n - 1 \in a..b /\ n \in (a + 1)..b
      OBVIOUS
    <3> QED BY <1>3, <2>2, <3>1
  <2>4. Solution(f)
    BY <2>2, <2>3 DEF Runs, first
  <2> HIDE DEF Solution
  <2> QED BY <2>4
<1> DEFINE at == CHOOSE f : Solution(f)
<1>5. Fund(a, b, start, contribution, pct) = at
  BY Zenon DEF Fund, After
<1>6. Solution(at)
  <2> HIDE DEF Solution
  <2> QED BY <1>4
<1> HIDE DEF at
<1>7. \A n \in a..b : at[n] = IF n = a THEN first ELSE After(n, at[n - 1])
  BY <1>6 DEF first
<1> DEFINE S == {n \in a..b : at[n] \in V}
<1>8. a \in S
  BY <1>1, <1>7
<1>9. ASSUME NEW n \in (a + 1)..b, n - 1 \in S PROVE n \in S
  <2>1. n \in a..b /\ n # a /\ at[n - 1] \in V
    BY <1>9
  <2> QED BY <1>2, <1>7, <2>1
<1>10. a..b \subseteq S
  <2> HIDE DEF S
  <2> QED BY <1>8, <1>9, YearByYear
<1>11. at[b] \in V
  <2>1. b \in a..b
    OBVIOUS
  <2> QED BY <1>10, <2>1
<1> QED BY <1>5, <1>11 DEF V

(* Its interest is not negative.                                           *)
LEMMA InterestIsEarned ==
    ASSUME NEW in, in.currentAge \in Int, in.retirementAge \in Int, in.currentAge < in.retirementAge,
           in.currentBalance \in Nat, NEW contribution, NEW pct \in Nat,
           \A n \in Nat : contribution[n] \in Nat
    PROVE  Accumulate(in, contribution, pct).totalInterest \in Nat
<1>1. PICK a \in Int, b \in Int, start \in Nat :
        a = in.currentAge /\ b = in.retirementAge /\ start = in.currentBalance /\ a < b
  OBVIOUS
<1> DEFINE end == Fund(a, b, start, contribution, pct)[b]
<1>2. end.balance \in Nat /\ end.paid \in Nat /\ end.balance >= start + end.paid
  BY <1>1, FundGains
<1>3. end = FundOf(in, contribution, pct)
  BY <1>1 DEF FundOf
<1> HIDE DEF end
<1>4. Accumulate(in, contribution, pct).totalInterest = end.balance - start - end.paid
  BY <1>1, <1>3, AccumulateIs
<1> QED BY <1>2, <1>4

EpfInputs(in) ==
    /\ in.currentAge \in Int /\ in.retirementAge \in Int /\ in.currentBalance \in Int
    /\ in.monthlyBasicSalary \in Int /\ in.employeeContributionPct \in Int
    /\ in.employerContributionPct \in Int /\ in.annualSalaryGrowthPct \in Int
    /\ in.annualInterestRatePct \in Int

(* The employees' fund: contributions grow with the salary.                *)
LEMMA EpfSound ==
    ASSUME NEW in, EpfInputs(in)
    PROVE  EarnsInterest(in, EpfPanel(in), {in.monthlyBasicSalary, in.employeeContributionPct,
                                            in.employerContributionPct, in.annualSalaryGrowthPct + 100})
<1> DEFINE panel == EpfPanel(in)
           paid == {in.monthlyBasicSalary, in.employeeContributionPct,
                    in.employerContributionPct, in.annualSalaryGrowthPct + 100}
           share == in.employeeContributionPct + in.employerContributionPct
           contribution == [year \in Nat |->
               (12 * Compound(in.monthlyBasicSalary, in.annualSalaryGrowthPct, year) * share) \div 100]
<1>1. Epf(in) = Accumulate(in, contribution, in.annualInterestRatePct)
  BY DEF Epf
<1>2. panel.kind = "scheme" => /\ ~(in.retirementAge <= in.currentAge)
                               /\ panel.interest = Rounded(Epf(in).totalInterest)
  BY DEF EpfPanel, SchemePanel, Warning
<1> HIDE DEF panel
<1>3. ASSUME panel.kind = "scheme",
             \A number \in paid \cup {in.currentBalance, in.annualInterestRatePct} : number >= 0
      PROVE  panel.interest >= 0
  <2>1. /\ in.monthlyBasicSalary >= 0 /\ in.annualSalaryGrowthPct + 100 >= 0
        /\ in.employeeContributionPct >= 0 /\ in.employerContributionPct >= 0
        /\ in.currentBalance >= 0 /\ in.annualInterestRatePct >= 0
    BY <1>3
  <2>2. PICK salary \in Nat, growth \in Int, s \in Nat, pct \in Nat :
          /\ salary = in.monthlyBasicSalary /\ growth = in.annualSalaryGrowthPct /\ growth >= -100
          /\ s = share /\ pct = in.annualInterestRatePct
    BY <2>1 DEF EpfInputs
  <2>3. \A n \in Nat : contribution[n] \in Nat
    <3> SUFFICES ASSUME NEW n \in Nat PROVE contribution[n] \in Nat
      OBVIOUS
    <3>1. salary \in Int /\ salary >= 0 /\ growth >= -100
      BY <2>2
    <3>2. Compound(salary, growth, n) \in Int /\ Compound(salary, growth, n) >= 0
      BY <3>1, CompoundFacts
    <3>3. PICK c \in Nat : c = Compound(salary, growth, n)
      BY <3>2
    <3>4. c * s \in Nat
      OBVIOUS
    <3>5. 12 * c * s = 12 * (c * s)
      OBVIOUS
    <3>6. (12 * c * s) \div 100 \in Nat
      BY <3>4, <3>5
    <3>7. contribution[n] = (12 * c * s) \div 100
      BY <2>2, <3>3
    <3> QED BY <3>6, <3>7
  <2> HIDE DEF contribution
  <2>4. Accumulate(in, contribution, pct).totalInterest \in Nat
    <3>1. in.currentAge < in.retirementAge /\ in.currentBalance \in Nat /\ in.currentAge \in Int /\ in.retirementAge \in Int
      BY <1>2, <1>3, <2>1 DEF EpfInputs
    <3> QED BY <2>3, <3>1, InterestIsEarned
  <2>5. PICK interest \in Nat : interest = Accumulate(in, contribution, pct).totalInterest
    BY <2>4
  <2>6. Rounded(interest) >= 0
    BY RoundedFacts
  <2> QED BY <1>1, <1>2, <1>3, <2>2, <2>5, <2>6
<1> QED BY <1>3, Zenon DEF EarnsInterest, panel

PpfInputs(in) ==
    /\ in.currentAge \in Int /\ in.retirementAge \in Int /\ in.currentBalance \in Int
    /\ in.annualContribution \in Int /\ in.annualInterestRatePct \in Int

(* The provident fund: contributions are capped.                           *)
LEMMA LeastOfTwo ==
    ASSUME NEW x \in Int, NEW y \in Int
    PROVE  Min({x, y}) = IF x <= y THEN x ELSE y
BY DEF Min

LEMMA PpfSound ==
    ASSUME NEW in, PpfInputs(in)
    PROVE  EarnsInterest(in, PpfPanel(in), {in.annualContribution})
<1> DEFINE panel == PpfPanel(in)
           paid == {in.annualContribution}
           contribution == [year \in Nat |-> Min({in.annualContribution, PpfLimit})]
<1>1. Ppf(in) = Accumulate(in, contribution, in.annualInterestRatePct)
  BY DEF Ppf
<1>2. panel.kind = "scheme" => /\ ~(in.retirementAge <= in.currentAge)
                               /\ panel.interest = Rounded(Ppf(in).totalInterest)
  BY DEF PpfPanel, SchemePanel, Warning
<1> HIDE DEF panel
<1>3. ASSUME panel.kind = "scheme",
             \A number \in paid \cup {in.currentBalance, in.annualInterestRatePct} : number >= 0
      PROVE  panel.interest >= 0
  <2>1. in.annualContribution >= 0 /\ in.currentBalance >= 0 /\ in.annualInterestRatePct >= 0
    BY <1>3
  <2>2. PICK amount \in Nat, limit \in Nat, pct \in Nat :
          amount = in.annualContribution /\ limit = PpfLimit /\ pct = in.annualInterestRatePct
    BY <2>1, ProjectionsAssumption DEF PpfInputs
  <2>3. Min({amount, limit}) \in Nat
    <3>1. amount \in Int /\ limit \in Int
      OBVIOUS
    <3>2. Min({amount, limit}) = IF amount <= limit THEN amount ELSE limit
      BY <3>1, LeastOfTwo
    <3> QED BY <3>2
  <2>4. \A n \in Nat : contribution[n] \in Nat
    BY <2>2, <2>3
  <2> HIDE DEF contribution
  <2>5. Accumulate(in, contribution, pct).totalInterest \in Nat
    <3>1. in.currentAge < in.retirementAge /\ in.currentBalance \in Nat /\ in.currentAge \in Int /\ in.retirementAge \in Int
      BY <1>2, <1>3, <2>1 DEF PpfInputs
    <3> QED BY <2>4, <3>1, InterestIsEarned
  <2>6. PICK interest \in Nat : interest = Accumulate(in, contribution, pct).totalInterest
    BY <2>5
  <2>7. Rounded(interest) >= 0
    BY RoundedFacts
  <2> QED BY <1>1, <1>2, <1>3, <2>2, <2>6, <2>7
<1> QED BY <1>3, Zenon DEF EarnsInterest, panel

(* The pension scheme grows what the provident fund would.                 *)
LEMMA NpsSound ==
    ASSUME NEW in, in.monthlyContribution \in Int
    PROVE  SchemesAgree(in, NpsPanel(in))
<1> DEFINE panel == NpsPanel(in)
           asPpf == [currentAge |-> in.currentAge, retirementAge |-> in.retirementAge,
                     currentBalance |-> in.currentBalance, annualContribution |-> 12 * in.monthlyContribution,
                     annualInterestRatePct |-> in.expectedReturnPct, fireNumber |-> in.fireNumber]
           contribution == [year \in Nat |-> 12 * in.monthlyContribution]
           scheme == Accumulate(in, contribution, in.expectedReturnPct)
<1>1. /\ asPpf.currentAge = in.currentAge /\ asPpf.retirementAge = in.retirementAge
      /\ asPpf.currentBalance = in.currentBalance /\ asPpf.annualContribution = 12 * in.monthlyContribution
      /\ asPpf.annualInterestRatePct = in.expectedReturnPct /\ asPpf.fireNumber = in.fireNumber
  OBVIOUS
<1>2. panel.kind # "warning" => /\ ~(in.retirementAge <= in.currentAge)
                                /\ panel.corpus = Rounded(scheme.corpus) /\ panel.coverage = scheme.coveragePct
  BY DEF NpsPanel, Nps, Warning
<1> HIDE DEF panel, asPpf, scheme
<1>3. ~(in.retirementAge <= in.currentAge) =>
        PpfPanel(asPpf).corpus = Rounded(Ppf(asPpf).corpus) /\ PpfPanel(asPpf).coverage = Ppf(asPpf).coveragePct
  BY <1>1 DEF PpfPanel, SchemePanel
<1>4. ASSUME 12 * in.monthlyContribution <= PpfLimit
      PROVE  Ppf(asPpf) = Accumulate(asPpf, contribution, in.expectedReturnPct)
  <2>1. PICK amount \in Int, limit \in Int : amount = 12 * in.monthlyContribution /\ limit = PpfLimit /\ amount <= limit
    <3>1. 12 * in.monthlyContribution \in Int /\ PpfLimit \in Int
      BY ProjectionsAssumption
    <3> QED BY <1>4, <3>1
  <2>2. Min({amount, limit}) = amount
    BY <2>1, LeastOfTwo
  <2>3. [year \in Nat |-> Min({asPpf.annualContribution, PpfLimit})] = contribution
    BY <1>1, <2>1, <2>2
  <2> QED BY <1>1, <2>3 DEF Ppf
<1>5. FundOf(asPpf, contribution, in.expectedReturnPct) = FundOf(in, contribution, in.expectedReturnPct)
  BY <1>1 DEF FundOf
<1> HIDE DEF contribution
<1>6. ASSUME panel.kind # "warning", 12 * in.monthlyContribution <= PpfLimit
      PROVE  PpfPanel(asPpf).corpus = panel.corpus /\ PpfPanel(asPpf).coverage = panel.coverage
  <2> DEFINE other == Accumulate(asPpf, contribution, in.expectedReturnPct)
  <2>1. other.corpus = FundOf(asPpf, contribution, in.expectedReturnPct).balance
        /\ other.coveragePct = IF asPpf.fireNumber > 0
             THEN (FundOf(asPpf, contribution, in.expectedReturnPct).balance * 100) \div asPpf.fireNumber ELSE Null
    BY AccumulateIs
  <2>2. scheme.corpus = FundOf(in, contribution, in.expectedReturnPct).balance
        /\ scheme.coveragePct = IF in.fireNumber > 0
             THEN (FundOf(in, contribution, in.expectedReturnPct).balance * 100) \div in.fireNumber ELSE Null
    BY AccumulateIs DEF scheme
  <2>3. other.corpus = scheme.corpus /\ other.coveragePct = scheme.coveragePct
    BY <1>1, <1>5, <2>1, <2>2
  <2> QED BY <1>2, <1>3, <1>4, <1>6, <2>3
<1> QED BY <1>6, Zenon DEF SchemesAgree, asPpf, panel

-----------------------------------------------------------------------------
(* What a page may hold                                                    *)

(* What a page may hold: the fields of its form, a region that exists, and *)
(* an expense and a rate that came from somewhere.                         *)
Good(c, in) ==
    /\ in = [field \in Fields(c) |-> in[field]]
    /\ \A field \in FormFields(c) : in[field] \in Kind(field)
    /\ \A field \in Fields(c) \ {"exchangeRateAsOf"} : in[field] # Null
    /\ c \in CityPages => in.regionId \in Regions /\ ExpenseOrigin(c, in)
    /\ c = "return-to-india" => RateOrigin(in)

(* The ten pages, two of which have a city.                                *)
LEMMA CalculatorsAre ==
    /\ Calculators = {"retirement", "coast-fire", "savings-rate", "fire-by-city", "return-to-india",
                      "sip-for-fire", "lumpsum-for-fire", "epf", "ppf", "nps"}
    /\ CityPages \subseteq Calculators /\ Null \notin Calculators
BY PagesAssumption DEF CityPages

(* No form asks for what a page keeps beside its form.                     *)
LEMMA Beside == {"regionId", "cityId", "exchangeRateIsCustom", "exchangeRateAsOf"} \cap
                (RetirementForm([stepUpEnabled |-> TRUE]) \cup CoastForm \cup SavingsRateForm \cup CityForm
                 \cup ReturnForm \cup SipForm \cup LumpsumForm \cup EpfForm \cup PpfForm \cup NpsForm) = {}
BY DEF RetirementForm, CoastForm, SavingsRateForm, CityForm, ReturnForm, SipForm, LumpsumForm,
       EpfForm, PpfForm, NpsForm

(* What a form lets a visitor change is part of the page's state.          *)
LEMMA FormIsPart ==
    ASSUME NEW c \in Calculators, NEW in
    PROVE  /\ Form(c, in) \subseteq FormFields(c) /\ FormFields(c) \subseteq Fields(c)
           /\ "regionId" \notin FormFields(c) /\ "cityId" \notin FormFields(c)
           /\ "exchangeRateIsCustom" \notin FormFields(c) /\ "exchangeRateAsOf" \notin FormFields(c)
           /\ c # "return-to-india" => /\ "exchangeRateInrPerUsd" \notin FormFields(c)
                                       /\ "exchangeRateAsOf" \notin Fields(c)
<1>1. FormFields(c) \subseteq Fields(c)
  BY DEF FormFields, Fields
<1>2. Form(c, in) \subseteq FormFields(c)
  BY CalculatorsAre DEF Form, FormFields, RetirementForm
<1>3. FormFields(c) \subseteq RetirementForm([stepUpEnabled |-> TRUE]) \cup CoastForm \cup SavingsRateForm
        \cup CityForm \cup ReturnForm \cup SipForm \cup LumpsumForm \cup EpfForm \cup PpfForm \cup NpsForm
  BY CalculatorsAre DEF Form, FormFields
<1>4. c # "return-to-india" => "exchangeRateInrPerUsd" \notin FormFields(c)
  BY CalculatorsAre DEF Form, FormFields, RetirementForm, CoastForm, SavingsRateForm, CityForm, SipForm,
     LumpsumForm, EpfForm, PpfForm, NpsForm
<1>5. "exchangeRateAsOf" \notin FormFields(c)
  BY <1>3, Beside
<1>6. c # "return-to-india" => "exchangeRateAsOf" \notin Fields(c)
  BY <1>5 DEF Fields, FormFields
<1> QED BY <1>1, <1>2, <1>3, <1>4, <1>5, <1>6, Beside

(* The fields of the two pages that have a city.                           *)
LEMMA CityFields ==
    /\ \A c \in CityPages : /\ {"regionId", "cityId", ExpenseField(c)} \subseteq Fields(c)
                            /\ ExpenseField(c) \in FormFields(c)
                            /\ ExpenseField(c) \notin {"regionId", "cityId", "exchangeRateInrPerUsd",
                                                       "exchangeRateIsCustom", "exchangeRateAsOf"}
    /\ {"exchangeRateInrPerUsd", "exchangeRateIsCustom", "exchangeRateAsOf"} \subseteq Fields("return-to-india")
BY DEF CityPages, Fields, ExpenseField, FormFields, Form, CityForm, ReturnForm

(* Null is no value of a field, and a rate and an expense are numbers.     *)
LEMMA Kinds ==
    /\ \A field : Null \notin Kind(field)
    /\ Kind("exchangeRateInrPerUsd") = Int /\ \A c : Kind(ExpenseField(c)) = Int
BY PagesAssumption, ProjectionsAssumption DEF Kind, ExpenseField

(* Defaults, and what an earlier visit saved.                              *)
LEMMA StartsAreGood ==
    ASSUME NEW c \in Calculators, NEW in \in {DefaultInputs[c]} \cup SavedInputs[c]
    PROVE  Good(c, in)
BY PagesAssumption, OriginAssumption DEF Good

(* A field a visitor changed; a typed rate loses its date.                 *)
LEMMA PatchedIsGood ==
    ASSUME NEW c \in Calculators, NEW in, Good(c, in), NEW field \in Form(c, in), NEW value \in Typed[field]
    PROVE  Good(c, Patched(in, field, value))
<1> DEFINE new == Patched(in, field, value)
<1>1. field \in FormFields(c) /\ field \in Fields(c)
      /\ field \notin {"regionId", "cityId", "exchangeRateIsCustom", "exchangeRateAsOf"}
      /\ (field = "exchangeRateInrPerUsd" => c = "return-to-india")
  BY FormIsPart
<1>2. value \in Kind(field) /\ value # Null
  BY <1>1, PagesAssumption, Kinds
<1>3. in = [f \in Fields(c) |-> in[f]]
  BY DEF Good
<1>4. /\ new = [f \in Fields(c) |-> new[f]]
      /\ new[field] = value
      /\ \A f \in Fields(c) \ {field, "exchangeRateIsCustom", "exchangeRateAsOf"} : new[f] = in[f]
      /\ field # "exchangeRateInrPerUsd" => \A f \in Fields(c) \ {field} : new[f] = in[f]
      /\ field = "exchangeRateInrPerUsd" =>
           new["exchangeRateIsCustom"] = TRUE /\ new["exchangeRateAsOf"] = Null
  BY <1>1, <1>3, CityFields DEF Patched
<1> HIDE DEF new
<1>5. ASSUME NEW f \in Fields(c) \ {"exchangeRateAsOf"} PROVE new[f] # Null
  <2>1. in[f] # Null
    BY DEF Good
  <2>2. CASE field = "exchangeRateInrPerUsd" /\ f = "exchangeRateIsCustom"
    <3>1. TRUE # Null
      BY PagesAssumption
    <3> QED BY <1>4, <2>2, <3>1
  <2> QED BY <1>2, <1>4, <2>1, <2>2
<1>8. ASSUME NEW f \in FormFields(c) PROVE new[f] \in Kind(f)
  <2>1. in[f] \in Kind(f) /\ f \in Fields(c) /\ f \notin {"exchangeRateIsCustom", "exchangeRateAsOf"}
    BY FormIsPart DEF Good
  <2> QED BY <1>2, <1>4, <2>1
<1>6. c \in CityPages => new.regionId \in Regions /\ ExpenseOrigin(c, new)
  <2> SUFFICES ASSUME c \in CityPages PROVE new.regionId \in Regions /\ ExpenseOrigin(c, new)
    OBVIOUS
  <2>1. new["regionId"] = in["regionId"] /\ new["cityId"] = in["cityId"]
    BY <1>1, <1>4, CityFields
  <2>2. ShownCity(new) = ShownCity(in)
    BY <2>1 DEF ShownCity
  <2>3. field # ExpenseField(c) => new[ExpenseField(c)] = in[ExpenseField(c)]
    BY <1>1, <1>4, CityFields
  <2>4. field = ExpenseField(c) => new[ExpenseField(c)] \in Typed[ExpenseField(c)]
    BY <1>4
  <2> QED BY <2>1, <2>2, <2>3, <2>4 DEF ExpenseOrigin, Good
<1>7. c = "return-to-india" => RateOrigin(new)
  <2> SUFFICES ASSUME c = "return-to-india" PROVE RateOrigin(new)
    OBVIOUS
  <2>1. CASE field = "exchangeRateInrPerUsd"
    BY <1>4, <2>1 DEF RateOrigin
  <2>2. CASE field # "exchangeRateInrPerUsd"
    <3>1. \A f \in {"exchangeRateInrPerUsd", "exchangeRateIsCustom", "exchangeRateAsOf"} : new[f] = in[f]
      BY <1>1, <1>4, <2>2, CityFields
    <3> QED BY <3>1 DEF RateOrigin, Good
  <2> QED BY <2>1, <2>2
<1> QED BY <1>4, <1>5, <1>6, <1>7, <1>8 DEF Good, new

(* A city of the list with its expense.                                    *)
LEMMA CityIsGood ==
    ASSUME NEW c \in CityPages, NEW in, Good(c, in), NEW region \in Regions,
           NEW i \in DOMAIN CitiesIn[region], NEW new,
           \/ new = [in EXCEPT !.regionId = region, !.cityId = CitiesIn[region][i],
                               ![ExpenseField(c)] = CityExpense[CitiesIn[region][i]]]
           \/ /\ region = in.regionId
              /\ new = [in EXCEPT !.cityId = CitiesIn[region][i],
                                  ![ExpenseField(c)] = CityExpense[CitiesIn[region][i]]]
    PROVE  Good(c, new)
<1> DEFINE city == CitiesIn[region][i]
           expense == CityExpense[city]
<1>1. city # Null /\ expense \in Int /\ expense # Null /\ region # Null
  BY PagesAssumption, ProjectionsAssumption
<1>2. in = [f \in Fields(c) |-> in[f]]
  BY DEF Good
<1>3. {"regionId", "cityId", ExpenseField(c)} \subseteq Fields(c)
      /\ ExpenseField(c) \notin {"regionId", "cityId", "exchangeRateInrPerUsd",
                                 "exchangeRateIsCustom", "exchangeRateAsOf"}
  BY CityFields
<1>7. \E i2 \in DOMAIN CitiesIn[region] : CitiesIn[region][i2] = city
  OBVIOUS
<1> HIDE DEF city, expense
<1>4. /\ new = [f \in Fields(c) |-> new[f]]
      /\ new["regionId"] = region /\ new["cityId"] = city /\ new[ExpenseField(c)] = expense
      /\ \A f \in Fields(c) \ {"regionId", "cityId", ExpenseField(c)} : new[f] = in[f]
  <2>1. CASE new = [in EXCEPT !.regionId = region, !.cityId = city, ![ExpenseField(c)] = expense]
    BY <1>2, <1>3, <2>1
  <2>2. CASE region = in.regionId /\ new = [in EXCEPT !.cityId = city, ![ExpenseField(c)] = expense]
    BY <1>2, <1>3, <2>2
  <2> QED BY <2>1, <2>2 DEF city, expense
<1>5. ASSUME NEW f \in Fields(c) \ {"exchangeRateAsOf"} PROVE new[f] # Null
  <2>1. in[f] # Null
    BY DEF Good
  <2> QED BY <1>1, <1>4, <2>1
<1>9. ASSUME NEW f \in FormFields(c) PROVE new[f] \in Kind(f)
  <2>1. c \in Calculators
    BY CalculatorsAre
  <2>2. in[f] \in Kind(f) /\ f \in Fields(c) /\ f \notin {"regionId", "cityId"}
    BY <2>1, FormIsPart DEF Good
  <2>3. Kind(ExpenseField(c)) = Int
    BY Kinds
  <2> QED BY <1>1, <1>4, <2>2, <2>3
<1>6. new.regionId \in Regions /\ ExpenseOrigin(c, new)
  <2>1. ShownCity(new) = city
    BY <1>4, <1>7 DEF ShownCity
  <2> QED BY <1>4, <2>1 DEF ExpenseOrigin, expense
<1>8. c = "return-to-india" => RateOrigin(new)
  <2> SUFFICES ASSUME c = "return-to-india" PROVE RateOrigin(new)
    OBVIOUS
  <2>1. \A f \in {"exchangeRateInrPerUsd", "exchangeRateIsCustom", "exchangeRateAsOf"} : new[f] = in[f]
    BY <1>3, <1>4, CityFields
  <2> QED BY <2>1 DEF RateOrigin, Good
<1> QED BY <1>4, <1>5, <1>6, <1>8, <1>9 DEF Good

(* The live rate with its date.                                            *)
LEMMA LiveIsGood ==
    ASSUME NEW in, Good("return-to-india", in), NEW date \in DOMAIN RateOn, ~in.exchangeRateIsCustom,
           NEW new, new = [in EXCEPT !.exchangeRateInrPerUsd = RateOn[date], !.exchangeRateAsOf = date]
    PROVE  Good("return-to-india", new) /\ ~new.exchangeRateIsCustom /\ new.exchangeRateAsOf # Null
<1> DEFINE c == "return-to-india"
           rate == RateOn[date]
<1>1. date # Null /\ rate \in Int /\ rate # Null /\ rate \notin Typed["exchangeRateInrPerUsd"]
  BY PagesAssumption, ProjectionsAssumption
<1>2. in = [f \in Fields(c) |-> in[f]]
  BY DEF Good
<1> HIDE DEF rate
<1>3. /\ new = [f \in Fields(c) |-> new[f]]
      /\ new["exchangeRateInrPerUsd"] = rate /\ new["exchangeRateAsOf"] = date
      /\ \A f \in Fields(c) \ {"exchangeRateInrPerUsd", "exchangeRateAsOf"} : new[f] = in[f]
      /\ new["exchangeRateIsCustom"] = in["exchangeRateIsCustom"]
  BY <1>2, CityFields DEF rate
<1>4. \A f \in Fields(c) \ {"exchangeRateAsOf"} : new[f] # Null
  BY <1>1, <1>3 DEF Good
<1>5. new.regionId \in Regions /\ ExpenseOrigin(c, new)
  <2>1. c \in CityPages
    BY DEF CityPages
  <2>2. /\ new["regionId"] = in["regionId"] /\ new["cityId"] = in["cityId"]
        /\ new[ExpenseField(c)] = in[ExpenseField(c)]
    BY <1>3, <2>1, CityFields
  <2>3. ShownCity(new) = ShownCity(in)
    BY <2>2 DEF ShownCity
  <2> QED BY <2>1, <2>2, <2>3 DEF ExpenseOrigin, Good
<1>6. RateOrigin(new)
  BY <1>1, <1>3 DEF RateOrigin, rate
<1>7. ASSUME NEW f \in FormFields(c) PROVE new[f] \in Kind(f)
  <2>1. c \in Calculators
    BY CalculatorsAre
  <2>2. in[f] \in Kind(f) /\ f \in Fields(c) /\ f # "exchangeRateAsOf"
    BY <2>1, FormIsPart DEF Good
  <2> QED BY <1>1, <1>3, <2>2, Kinds
<1> QED BY <1>1, <1>3, <1>4, <1>5, <1>6, <1>7 DEF Good

(* What a link says: everything but the date of the rate.                  *)
LEMMA LinkSays ==
    ASSUME NEW c \in Calculators, NEW in, in = [f \in Fields(c) |-> in[f]],
           \A f \in Fields(c) \ {"exchangeRateAsOf"} : in[f] # Null
    PROVE  LET read == Decode(c, Encode(in))
           IN  /\ read = [f \in Fields(c) |-> read[f]]
               /\ \A f \in Fields(c) \ {"exchangeRateAsOf"} : read[f] = in[f]
               /\ c = "return-to-india" => read["exchangeRateAsOf"] = Null
<1> DEFINE text == Encode(in)
           read == Decode(c, text)
<1>1. DefaultInputs[c] = [f \in Fields(c) |-> DefaultInputs[c][f]]
      /\ \A f \in Fields(c) \ {"exchangeRateAsOf"} : DefaultInputs[c][f] # Null
  BY PagesAssumption
<1>2. DOMAIN in = Fields(c) /\ DOMAIN DefaultInputs[c] = Fields(c)
  BY <1>1
<1>3. DOMAIN text = Fields(c) /\ \A f \in Fields(c) \ {"exchangeRateAsOf"} : text[f] = in[f]
  BY <1>2 DEF Encode
<1> HIDE DEF text
<1>4. read = [f \in Fields(c) |-> read[f]]
  BY <1>2 DEF Decode
<1>5. \A f \in Fields(c) \ {"exchangeRateAsOf"} : read[f] = in[f]
  BY <1>1, <1>2, <1>3 DEF Decode
<1>6. c = "return-to-india" => read["exchangeRateAsOf"] = Null
  <2> SUFFICES ASSUME c = "return-to-india" PROVE read["exchangeRateAsOf"] = Null
    OBVIOUS
  <2>1. "exchangeRateAsOf" \in Fields(c) /\ DefaultInputs[c]["exchangeRateAsOf"] = Null
    BY PagesAssumption, CityFields
  <2> QED BY <1>2, <2>1 DEF Decode
<1> QED BY <1>4, <1>5, <1>6 DEF text

(* Nothing a page claims depends on the date.                              *)
LEMMA PanelIgnoresDate ==
    ASSUME NEW c \in Calculators, NEW a, NEW b, a = [f \in Fields(c) |-> a[f]], b = [f \in Fields(c) |-> b[f]],
           \A f \in Fields(c) \ {"exchangeRateAsOf"} : a[f] = b[f]
    PROVE  Panel(c, a) = Panel(c, b)
<1>1. CASE c # "return-to-india"
  <2>1. a = b
    BY <1>1, FormIsPart
  <2> QED BY <2>1
<1>2. CASE c = "return-to-india"
  <2>1. ReturnForm \cup {"regionId", "cityId"} \subseteq Fields(c) \ {"exchangeRateAsOf"}
    BY <1>2, CalculatorsAre DEF Fields, FormFields, Form, ReturnForm
  <2>2. /\ a.regionId = b.regionId /\ a.cityId = b.cityId /\ a.currentAge = b.currentAge
        /\ a.returnAge = b.returnAge /\ a.currentSavingsUsd = b.currentSavingsUsd
        /\ a.monthlyExpenseInrToday = b.monthlyExpenseInrToday
        /\ a.exchangeRateInrPerUsd = b.exchangeRateInrPerUsd /\ a.inrDepreciationPct = b.inrDepreciationPct
        /\ a.withdrawalRatePct = b.withdrawalRatePct /\ a.inflationPct = b.inflationPct
        /\ a.usdEquityReturnPct = b.usdEquityReturnPct /\ a.usdDebtReturnPct = b.usdDebtReturnPct
        /\ a.allocation = b.allocation
    BY <2>1 DEF ReturnForm
  <2>3. ShownCity(a) = ShownCity(b)
    BY <2>2 DEF ShownCity
  <2>4. ReturnToIndia(a) = ReturnToIndia(b)
    BY <2>2, Zenon DEF ReturnToIndia, ToAccumulation
  <2>5. ReturnPanel(a) = ReturnPanel(b)
    BY <2>2, <2>3, <2>4, Zenon DEF ReturnPanel
  <2>6. Panel(c, a) = ReturnPanel(a) /\ Panel(c, b) = ReturnPanel(b)
    BY <1>2 DEF Panel
  <2> QED BY <2>5, <2>6
<1> QED BY <1>1, <1>2

-----------------------------------------------------------------------------
(* The questionnaire                                                       *)

USE UndefinedAssumption

\* Every list asks for the category first, then for the path, and for
\* neither of them again.
LEMMA Lists ==
    ASSUME NEW c, NEW p
    PROVE  LET list == QuestionsFor(c, p)
           IN  /\ Len(list) \in 1..7 /\ list[1] = "category"
               /\ c = Undefined => Len(list) = 1
               /\ c # Undefined => Len(list) >= 2 /\ list[2] = "path"
               /\ \A i \in 3..Len(list) : list[i] \in Keys \ {"category", "path"}
<1>1. CASE c = Undefined
  BY <1>1 DEF QuestionsFor
<1>2. CASE c # Undefined /\ p = "savings-rate"
  BY <1>2 DEF QuestionsFor, SavingsRateQuestions, Keys
<1>3. CASE c # Undefined /\ p \in {"retirement", "coast-fire"}
  BY <1>3 DEF QuestionsFor, RetirementQuestions, Keys
<1>4. CASE c # Undefined /\ p \notin {"savings-rate", "retirement", "coast-fire"}
  BY <1>4 DEF QuestionsFor
<1> QED BY <1>1, <1>2, <1>3, <1>4

QuizInv ==
    /\ step \in Nat /\ step <= Len(Questions)
    /\ draft \in Numbers \cup {Undefined}
    /\ DOMAIN answers = Keys
    /\ answers["category"] \in Categories \cup {Undefined}
    /\ answers["path"] \in Paths \cup {Undefined}
    /\ PassedQuestionsAnswered

(* One lemma per step of the questionnaire.                                *)
LEMMA InitIsInvariant == QuizInit => QuizInv
<1> SUFFICES ASSUME QuizInit PROVE QuizInv
  OBVIOUS
<1>1. answers["category"] = Undefined /\ answers["path"] = Undefined /\ DOMAIN answers = Keys
  BY DEF QuizInit, Keys
<1>2. Len(Questions) \in 1..7
  BY Lists DEF Questions
<1> QED BY <1>1, <1>2 DEF QuizInit, QuizInv, PassedQuestionsAnswered

\* Giving the answer to the question asked.
LEMMA Advancing ==
    ASSUME QuizInv, ~IsDone, NEW value \in Offered(Asked), AnswerAndAdvance(Asked, value)
    PROVE  QuizInv'
<1> DEFINE list == Questions
           key  == Asked
<1>1. /\ Len(list) \in 1..7 /\ list[1] = "category"
      /\ answers["category"] = Undefined => Len(list) = 1
      /\ answers["category"] # Undefined => Len(list) >= 2 /\ list[2] = "path"
      /\ \A i \in 3..Len(list) : list[i] \in Keys \ {"category", "path"}
  BY Lists DEF Questions
<1>2. step \in Nat /\ step < Len(list) /\ key = list[step + 1] /\ step' = step + 1 /\ draft' = Undefined
  BY <1>1 DEF QuizInv, IsDone, Asked, AnswerAndAdvance
<1>3. answers' = Record(key, value)
  BY DEF AnswerAndAdvance
<1>4. DOMAIN answers' = Keys
  BY <1>3 DEF Record
<1>5. \A c, p : Len(QuestionsFor(c, p)) \in 1..7
  BY Lists
<1> HIDE DEF list, key
<1>9. /\ key = "category" => step = 0
      /\ key = "path" => step = 1 /\ answers["category"] # Undefined
  <2>1. CASE step = 0
    BY <1>1, <1>2, <2>1
  <2>2. CASE step = 1
    BY <1>1, <1>2, <2>2
  <2>3. CASE step \notin {0, 1}
    <3>1. step + 1 \in 3..Len(list)
      BY <1>1, <1>2, <2>3
    <3>2. key \in Keys \ {"category", "path"}
      BY <1>1, <1>2, <3>1
    <3> QED BY <3>2
  <2> QED BY <2>1, <2>2, <2>3
<1>6. CASE key = "category"
  <2>1. step = 0
    BY <1>6, <1>9
  <2>2. value \in Categories
    BY <1>6 DEF Offered, key
  <2>3. answers'["category"] = value /\ answers'["path"] = Undefined
    BY <1>3, <1>6 DEF Record, Keys
  <2>4. Questions'[1] = "category" /\ Len(Questions') \in 1..7
    BY Lists DEF Questions
  <2>5. \A i \in 1..Len(Questions') : i <= step' => i = 1
    BY <1>2, <2>1, <2>4
  <2>6. Offered("category")' = Categories
    BY DEF Offered
  <2>7. PassedQuestionsAnswered'
    BY <2>2, <2>3, <2>4, <2>5, <2>6 DEF PassedQuestionsAnswered
  <2> QED BY <1>2, <1>4, <2>1, <2>2, <2>3, <2>4, <2>7 DEF QuizInv
<1>7. CASE key = "path"
  <2>1. step = 1 /\ answers["category"] # Undefined
    BY <1>7, <1>9
  <2>2. answers["category"] \in Categories
    BY <2>1 DEF QuizInv
  <2>3. value \in PathsOf[answers["category"]]
    BY <1>7 DEF Offered, key
  <2>4. value \in Paths
    BY <2>2, <2>3 DEF Paths
  <2>5. answers'["category"] = answers["category"] /\ answers'["path"] = value
    BY <1>3, <1>7 DEF Record, Keys
  <2>6. Questions'[1] = "category" /\ Questions'[2] = "path" /\ Len(Questions') \in 2..7
    BY <2>1, <2>5, Lists DEF Questions
  <2>7. \A i \in 1..Len(Questions') : i <= step' => i \in {1, 2}
    BY <1>2, <2>1, <2>6
  <2>8. Offered("category")' = Categories /\ Offered("path")' = PathsOf[answers["category"]]
    BY <2>5 DEF Offered
  <2>9. PassedQuestionsAnswered'
    BY <2>1, <2>2, <2>3, <2>4, <2>5, <2>6, <2>7, <2>8 DEF PassedQuestionsAnswered
  <2> QED BY <1>2, <1>4, <2>1, <2>2, <2>4, <2>5, <2>6, <2>9 DEF QuizInv
<1>8. CASE key \notin {"category", "path"}
  <2>1. step + 1 \in 1..Len(list) /\ key \in Keys
    BY <1>1, <1>2, <1>8
  <2>2. answers'["category"] = answers["category"] /\ answers'["path"] = answers["path"]
    BY <1>3, <1>8 DEF Record, Keys
  <2>3. Questions' = list
    BY <2>2 DEF Questions, list
  <2>4. \A k \in Keys : Offered(k)' = Offered(k)
    BY <2>2 DEF Offered
  <2>5. \A k \in Keys \ {key} : answers'[k] = answers[k]
    BY <1>3, <1>8 DEF Record
  <2>6. answers'[key] = value
    BY <1>3, <2>1 DEF Record
  <2>7. ASSUME NEW i \in 1..Len(list), i <= step', NEW q, q = list[i]
        PROVE  answers'[q] \in Offered(q)'
    <3>1. q \in Keys
      BY <1>1, <2>7 DEF Keys
    <3>2. CASE q = key
      <4>1. value \in Offered(q)
        BY <3>2 DEF key
      <4> QED BY <2>4, <2>6, <3>1, <3>2, <4>1
    <3>3. CASE q # key
      <4>1. i <= step
        BY <1>2, <2>7, <3>3
      <4>2. answers[q] \in Offered(q)
        BY <2>7, <4>1 DEF QuizInv, PassedQuestionsAnswered, list
      <4> QED BY <2>4, <2>5, <3>1, <3>3, <4>2
    <3> QED BY <3>2, <3>3
  <2>8. PassedQuestionsAnswered'
    BY <2>2, <2>3, <2>7 DEF QuizInv, PassedQuestionsAnswered
  <2> QED BY <1>1, <1>2, <1>4, <2>2, <2>3, <2>8 DEF QuizInv
<1> QED BY <1>6, <1>7, <1>8

LEMMA GoingBack == ASSUME QuizInv, GoBack PROVE QuizInv'
<1>1. step \in Nat /\ step' \in Nat /\ step' < step /\ UNCHANGED answers /\ draft' = Undefined
  BY DEF GoBack, QuizInv
<1>2. Len(Questions) \in Nat /\ Questions' = Questions
  BY <1>1, Lists DEF Questions
<1>3. PassedQuestionsAnswered'
  <2>1. \A k : Offered(k)' = Offered(k)
    BY <1>1 DEF Offered
  <2>2. \A i \in 1..Len(Questions) : i <= step' => i <= step
    BY <1>1, <1>2
  <2> QED BY <1>1, <1>2, <2>1, <2>2 DEF QuizInv, PassedQuestionsAnswered
<1> QED BY <1>1, <1>2, <1>3 DEF QuizInv

LEMMA Typing == ASSUME QuizInv, UNCHANGED <<step, answers>>, draft' \in Numbers \cup {Undefined} PROVE QuizInv'
<1>1. Questions' = Questions /\ \A k : Offered(k)' = Offered(k)
  BY DEF Questions, Offered
<1>2. PassedQuestionsAnswered'
  BY <1>1 DEF QuizInv, PassedQuestionsAnswered
<1> QED BY <1>1, <1>2 DEF QuizInv

LEMMA NextKeepsInvariant == QuizInv /\ [QuizNext]_quizVars => QuizInv'
<1> SUFFICES ASSUME QuizInv, [QuizNext]_quizVars PROVE QuizInv'
  OBVIOUS
<1>1. CASE Choose
  <2>1. PICK value \in Offered(Asked) : AnswerAndAdvance(Asked, value)
    BY <1>1 DEF Choose
  <2> QED BY <1>1, <2>1, Advancing DEF Choose
<1>2. CASE TypeNumber
  BY <1>2, Typing DEF TypeNumber
<1>3. CASE Continue
  BY <1>3, Advancing DEF Continue
<1>4. CASE GoBack
  BY <1>4, GoingBack
<1>5. CASE UNCHANGED quizVars
  <2>1. UNCHANGED <<step, answers>> /\ draft' \in Numbers \cup {Undefined}
    BY <1>5 DEF quizVars, QuizInv
  <2> QED BY <2>1, Typing
<1> QED BY <1>1, <1>2, <1>3, <1>4, <1>5 DEF QuizNext

(* The questionnaire by itself.                                            *)
LEMMA Inductive == QuizSpec => []QuizInv
  BY InitIsInvariant, NextKeepsInvariant, PTL DEF QuizSpec

\* The position, the draft and the answers keep their types: the position
\* stays within the list of questions, although the list changes under it
\* (answerAndAdvance, goBack).
THEOREM QuizTypeCorrect == QuizSpec => []QuizTypeOK
<1>1. QuizInv => QuizTypeOK
  <2>1. Len(Questions) \in Nat
    BY Lists DEF Questions
  <2> QED BY <2>1 DEF QuizInv, QuizTypeOK
<1> QED BY <1>1, Inductive, PTL

\* Whatever detours were taken, every question before the position has an
\* answer that question offers, and the path belongs to the category
\* (answerAndAdvance, goBack, questionsFor).
THEOREM NothingSkipped == QuizSpec => []PassedQuestionsAnswered
<1>1. QuizInv => PassedQuestionsAnswered
  BY DEF QuizInv
<1> QED BY <1>1, Inductive, PTL

-----------------------------------------------------------------------------
(* From the questionnaire to a page                                        *)

(* The answers of a questionnaire that is done.                            *)
LEMMA PathChosen ==
    ASSUME QuizInv, IsDone
    PROVE  /\ answers["category"] \in Categories /\ answers["path"] \in PathsOf[answers["category"]]
           /\ answers["path"] \in Paths
           /\ \A i \in 1..Len(Questions) : answers[Questions[i]] \in Offered(Questions[i])
<1> DEFINE list == Questions
<1>1. /\ Len(list) \in 1..7 /\ list[1] = "category"
      /\ answers["category"] = Undefined => Len(list) = 1
      /\ answers["category"] # Undefined => Len(list) >= 2 /\ list[2] = "path"
  BY Lists DEF Questions
<1>2. step \in Nat /\ step = Len(list)
  BY <1>1 DEF QuizInv, IsDone
<1>3. \A i \in 1..Len(list) : answers[list[i]] \in Offered(list[i])
  BY <1>1, <1>2 DEF QuizInv, PassedQuestionsAnswered
<1> HIDE DEF list
<1>4. answers["category"] \in Categories
  <2>1. answers["category"] \in Offered("category")
    BY <1>1, <1>3
  <2> QED BY <2>1 DEF Offered
<1>5. answers["category"] # Undefined
  BY <1>4, UndefinedAssumption
<1>6. answers["path"] \in PathsOf[answers["category"]]
  <2>1. 2 \in 1..Len(list) /\ list[2] = "path"
    BY <1>1, <1>5
  <2>2. answers["path"] \in Offered("path")
    BY <1>3, <2>1
  <2> QED BY <2>2 DEF Offered
<1>7. answers["path"] \in Paths
  BY <1>4, <1>6 DEF Paths
<1> QED BY <1>3, <1>4, <1>6, <1>7 DEF list

(* Every path leads to a page.                                             *)
LEMMA PathsAreCalculators == Paths \subseteq Calculators
BY CalculatorsAre DEF Paths, Categories, PathsOf

Numeric == {"currentAge", "monthlyIncome", "monthlyExpenses", "currentSavings", "retirementAge"}

(* At the end, what the path's calculator takes has been answered.         *)
LEMMA NumbersGiven ==
    ASSUME QuizInv, IsDone
    PROVE  /\ answers["path"] = "savings-rate" =>
                \A key \in {"currentAge", "monthlyIncome", "monthlyExpenses", "currentSavings"} :
                    answers[key] \in Numbers
           /\ answers["path"] \in {"retirement", "coast-fire"} =>
                /\ \A key \in {"currentAge", "monthlyExpenses", "currentSavings", "retirementAge"} :
                     answers[key] \in Numbers
                /\ answers["riskComfort"] \in Risks
<1>1. answers["category"] # Undefined
  BY PathChosen, UndefinedAssumption
<1>2. \A key \in Numeric : Offered(key) \subseteq Numbers
  BY DEF Numeric, Offered
<1>3. Offered("riskComfort") = Risks
  BY DEF Offered
<1>4. \A i \in 1..Len(Questions) : answers[Questions[i]] \in Offered(Questions[i])
  BY PathChosen
<1>5. ASSUME answers["path"] = "savings-rate"
      PROVE  \A key \in {"currentAge", "monthlyIncome", "monthlyExpenses", "currentSavings"} :
                 answers[key] \in Numbers
  <2>1. /\ Questions[3] = "currentAge" /\ Questions[4] = "monthlyIncome"
        /\ Questions[5] = "monthlyExpenses" /\ Questions[6] = "currentSavings" /\ Len(Questions) = 6
    BY <1>1, <1>5 DEF Questions, QuestionsFor, SavingsRateQuestions
  <2>2. \A i \in 3..6 : answers[Questions[i]] \in Offered(Questions[i])
    BY <1>4, <2>1
  <2> QED BY <1>2, <2>1, <2>2 DEF Numeric
<1>6. ASSUME answers["path"] \in {"retirement", "coast-fire"}
      PROVE  /\ \A key \in {"currentAge", "monthlyExpenses", "currentSavings", "retirementAge"} :
                  answers[key] \in Numbers
             /\ answers["riskComfort"] \in Risks
  <2>1. /\ Questions[3] = "currentAge" /\ Questions[4] = "monthlyExpenses"
        /\ Questions[5] = "currentSavings" /\ Questions[6] = "retirementAge"
        /\ Questions[7] = "riskComfort" /\ Len(Questions) = 7
    BY <1>1, <1>6 DEF Questions, QuestionsFor, RetirementQuestions
  <2>2. \A i \in 3..7 : answers[Questions[i]] \in Offered(Questions[i])
    BY <1>4, <2>1
  <2> QED BY <1>2, <1>3, <2>1, <2>2 DEF Numeric
<1> QED BY <1>5, <1>6

(* What the page a questionnaire leads to starts from.                     *)
Used(given, c, in) ==
    LET list  == QuestionsFor(given["category"], given["path"])
        asked == {list[i] : i \in 1..Len(list)}
        Is(field, key) == given[key] # Undefined /\ in[field] = given[key]
    IN  /\ c = given["path"]
        /\ Is("currentAge", "currentAge") /\ Is("currentSavings", "currentSavings")
        /\ "monthlyIncome" \in asked =>
             Is("monthlyIncome", "monthlyIncome") /\ Is("monthlyExpenses", "monthlyExpenses")
        /\ "riskComfort" \in asked =>
             /\ Is("monthlyExpenseToday", "monthlyExpenses")
             /\ Is("retirementAge", "retirementAge")
             /\ Is("preRetirementAllocation", "riskComfort")
        /\ c = "retirement" => in.contributionEndAge = in.retirementAge
        /\ \A field \in DOMAIN in :
             in[field] # DefaultInputs[c][field] =>
               field \in asked \cup {"monthlyExpenseToday", "preRetirementAllocation", "contributionEndAge"}

(* The property, for any calculator and inputs.                            *)
LEMMA UsedIsUsed == AnswersAreUsed <=> (opened # Null /\ opened.origin = "quiz" => Used(opened.from, calc, inputs))
BY DEF AnswersAreUsed, Used

Quizzed == {"savings-rate", "retirement", "coast-fire"}

SourceOf(c) == IF c = "savings-rate" THEN SavingsRateSource
               ELSE IF c = "retirement" THEN RetirementSource ELSE CoastSource

(* The link at the end carries every answer, and the page reads it back.   *)
LEMMA QuizLink ==
    ASSUME QuizInv, IsDone, NEW c \in Quizzed, c = answers["path"]
    PROVE  LET in == Decode(c, Encode(Prefilled(c, SourceOf(c))))
           IN  Good(c, in) /\ Used(answers, c, in)
<1> DEFINE source == SourceOf(c)
           pre == Prefilled(c, source)
           in == Decode(c, Encode(pre))
<1>1. c \in Calculators /\ c \notin CityPages /\ "exchangeRateAsOf" \notin Fields(c)
  BY CalculatorsAre, FormIsPart DEF Quizzed, CityPages
<1>2. /\ DefaultInputs[c] = [f \in Fields(c) |-> DefaultInputs[c][f]]
      /\ \A f \in Fields(c) : DefaultInputs[c][f] # Null
  BY <1>1, PagesAssumption
<1>3. \A f \in DOMAIN source : answers[source[f]] # Undefined /\ answers[source[f]] \in Kind(f)
  <2>1. \A n \in Numbers : n # Undefined /\ n \in Int
    BY UndefinedAssumption
  <2>2. \A r \in Risks : r # Undefined /\ r \in Allocations
    BY UndefinedAssumption DEF Risks, Allocations, EquityWeight
  <2>3. CASE c = "savings-rate"
    <3>1. source = SavingsRateSource
      BY <2>3 DEF SourceOf
    <3>2. \A f \in DOMAIN source : answers[source[f]] \in Numbers /\ Kind(f) = Int
      BY <2>3, <3>1, NumbersGiven DEF SavingsRateSource, Kind
    <3> QED BY <2>1, <3>2
  <2>4. CASE c = "retirement"
    <3>1. source = RetirementSource
      BY <2>4 DEF SourceOf
    <3>2. /\ answers["riskComfort"] \in Risks
          /\ \A f \in DOMAIN source : \/ source[f] = "riskComfort" /\ Kind(f) = Allocations
                                      \/ answers[source[f]] \in Numbers /\ Kind(f) = Int
      BY <2>4, <3>1, NumbersGiven DEF RetirementSource, Kind
    <3> QED BY <2>1, <2>2, <3>2
  <2>5. CASE c = "coast-fire"
    <3>1. source = CoastSource
      BY <2>5 DEF SourceOf
    <3>2. /\ answers["riskComfort"] \in Risks
          /\ \A f \in DOMAIN source : \/ source[f] = "riskComfort" /\ Kind(f) = Allocations
                                      \/ answers[source[f]] \in Numbers /\ Kind(f) = Int
      BY <2>5, <3>1, NumbersGiven DEF CoastSource, Kind
    <3> QED BY <2>1, <2>2, <3>2
  <2> QED BY <2>3, <2>4, <2>5 DEF Quizzed
<1> HIDE DEF source
<1>4. /\ pre = [f \in Fields(c) |-> pre[f]]
      /\ \A f \in Fields(c) : pre[f] = IF f \in DOMAIN source THEN answers[source[f]] ELSE DefaultInputs[c][f]
  <2>1. DOMAIN DefaultInputs[c] = Fields(c)
    BY <1>2
  <2> QED BY <1>3, <2>1 DEF Prefilled
<1> HIDE DEF pre
<1>5. \A f \in Fields(c) : pre[f] # Null
  BY <1>2, <1>3, <1>4, Kinds
<1>9. \A f \in FormFields(c) : pre[f] \in Kind(f) /\ f \in Fields(c)
  <2>1. \A f \in FormFields(c) : DefaultInputs[c][f] \in Kind(f)
    BY <1>1, PagesAssumption
  <2>2. FormFields(c) \subseteq Fields(c)
    BY <1>1, FormIsPart
  <2> QED BY <1>3, <1>4, <2>1, <2>2
<1>6. in = [f \in Fields(c) |-> in[f]] /\ \A f \in Fields(c) : in[f] = pre[f]
  BY <1>1, <1>4, <1>5, LinkSays
<1> HIDE DEF in
<1>7. Good(c, in)
  BY <1>1, <1>5, <1>6, <1>9, CalculatorsAre DEF Good, CityPages
<1>8. Used(answers, c, in)
  <2> DEFINE list  == QuestionsFor(answers["category"], answers["path"])
             asked == {list[i] : i \in 1..Len(list)}
  <2>1. answers["category"] # Undefined
    BY PathChosen, UndefinedAssumption
  <2>2. \A f \in Fields(c) : in[f] = IF f \in DOMAIN source THEN answers[source[f]] ELSE DefaultInputs[c][f]
    BY <1>4, <1>6
  <2>3. DOMAIN in = Fields(c)
    BY <1>6
  <2>4. \A f \in DOMAIN in : in[f] # DefaultInputs[c][f] => f \in DOMAIN source
    BY <2>2, <2>3
  <2>5. CASE c = "savings-rate"
    <3>1. source = SavingsRateSource /\ Fields(c) = SavingsRateForm
      BY <2>5 DEF source, SourceOf, Fields, FormFields, Form
    <3>2. list = SavingsRateQuestions
      BY <2>1, <2>5 DEF QuestionsFor
    <3>3. {"currentAge", "monthlyIncome", "monthlyExpenses", "currentSavings"} \subseteq asked
          /\ "riskComfort" \notin asked
      BY <3>2 DEF SavingsRateQuestions
    <3>4. /\ in["currentAge"] = answers["currentAge"] /\ in["currentSavings"] = answers["currentSavings"]
          /\ in["monthlyIncome"] = answers["monthlyIncome"]
          /\ in["monthlyExpenses"] = answers["monthlyExpenses"]
      BY <2>2, <3>1 DEF SavingsRateSource, SavingsRateForm
    <3>5. \A key \in {"currentAge", "monthlyIncome", "monthlyExpenses", "currentSavings"} : answers[key] # Undefined
      BY <1>3, <3>1 DEF SavingsRateSource
    <3>6. \A f \in DOMAIN source : f \in asked
      BY <3>1, <3>3 DEF SavingsRateSource
    <3> HIDE DEF list, asked
    <3> QED BY <2>4, <2>5, <3>3, <3>4, <3>5, <3>6 DEF Used, list, asked
  <2>6. CASE c \in {"retirement", "coast-fire"}
    <3>1. /\ c = "retirement" => source = RetirementSource /\ Fields(c) = RetirementForm([stepUpEnabled |-> TRUE])
          /\ c = "coast-fire" => source = CoastSource /\ Fields(c) = CoastForm
      BY <2>6 DEF source, SourceOf, Fields, FormFields, Form
    <3>2. list = RetirementQuestions
      BY <2>1, <2>6 DEF QuestionsFor
    <3>3. {"currentAge", "currentSavings", "retirementAge", "riskComfort"} \subseteq asked
          /\ "monthlyIncome" \notin asked
      BY <3>2 DEF RetirementQuestions
    <3>4. /\ in["currentAge"] = answers["currentAge"] /\ in["currentSavings"] = answers["currentSavings"]
          /\ in["monthlyExpenseToday"] = answers["monthlyExpenses"]
          /\ in["retirementAge"] = answers["retirementAge"]
          /\ in["preRetirementAllocation"] = answers["riskComfort"]
          /\ c = "retirement" => in["contributionEndAge"] = answers["retirementAge"]
      BY <2>2, <2>6, <3>1 DEF RetirementSource, CoastSource, RetirementForm, CoastForm
    <3>5. \A key \in {"currentAge", "monthlyExpenses", "currentSavings", "retirementAge", "riskComfort"} :
             answers[key] # Undefined
      BY <1>3, <2>6, <3>1 DEF RetirementSource, CoastSource
    <3>6. \A f \in DOMAIN source :
             f \in asked \cup {"monthlyExpenseToday", "preRetirementAllocation", "contributionEndAge"}
      BY <2>6, <3>1, <3>3 DEF RetirementSource, CoastSource
    <3> HIDE DEF list, asked
    <3> QED BY <2>4, <2>6, <3>3, <3>4, <3>5, <3>6 DEF Used, list, asked
  <2> QED BY <2>5, <2>6 DEF Quizzed
<1> QED BY <1>7, <1>8 DEF in, pre, source

-----------------------------------------------------------------------------
(* Visits                                                                  *)

(* A link that was shared, and what a link left on the screen.             *)
Shared(l) ==
    /\ l.calc \in Calculators /\ Good(l.calc, l.from)
    /\ l = Link(l.calc, l.from, l.from, "shared")

Opened(l, c, in) ==
    /\ l.origin = "shared" =>
         /\ Shared(l) /\ l.calc = c
         /\ \/ in = Decode(c, l.params)
            \/ c = "return-to-india" /\ ~in.exchangeRateIsCustom /\ in.exchangeRateAsOf # Null
    /\ l.origin = "quiz" => c \in Quizzed /\ Used(l.from, c, in)

PagesInv ==
    /\ calc \in Calculators \cup {Null} /\ phase \in Phases /\ (calc = Null <=> phase = "closed")
    /\ calc # Null => Good(calc, inputs) /\ Good(calc, stored[calc])
    /\ stored = [c \in Calculators |-> stored[c]]
    /\ \A c \in Calculators : stored[c] # Nothing => Good(c, stored[c])
    /\ live = "pending" => calc = "return-to-india"
    /\ edits \in 0..MaxEdits
    /\ link # Null => Shared(link)
    /\ opened # Null => calc # Null /\ Opened(opened, calc, inputs)

(* What a page was told is on the screen or in the storage, and a rate is  *)
(* among it only if it was typed.                                          *)
Says(in, said) == \A field \in DOMAIN said : field \in DOMAIN in /\ in[field] = said[field]

Speakable(c) == Fields(c) \ {"exchangeRateIsCustom", "exchangeRateAsOf"}

Sayable(c, said) ==
    /\ said = [field \in DOMAIN said |-> said[field]] /\ DOMAIN said \subseteq Speakable(c)
    /\ "exchangeRateInrPerUsd" \in DOMAIN said =>
         said["exchangeRateInrPerUsd"] \in Typed["exchangeRateInrPerUsd"]

ToldInv ==
    /\ told = [c \in Calculators |-> told[c]]
    /\ \A c \in Calculators :
         /\ Sayable(c, told[c])
         /\ c = calc => Says(inputs, told[c])
         /\ c # calc \/ phase = "shown" => Says(stored[c], told[c])

VisitInv == QuizInv /\ PagesInv /\ ToldInv

(* One lemma per step of a visit.                                          *)
LEMMA PagesStart == PageInit => PagesInv
<1> SUFFICES ASSUME PageInit PROVE PagesInv
  OBVIOUS
<1>1. stored = [c \in Calculators |-> stored[c]] /\ \A c \in Calculators : stored[c] # Nothing => Good(c, stored[c])
  <2>1. CASE stored = [c \in Calculators |-> Nothing]
    BY <2>1
  <2>2. CASE \E c \in Calculators : \E saved \in SavedInputs[c] :
               stored = [[other \in Calculators |-> Nothing] EXCEPT ![c] = saved]
    <3>3. PICK c \in Calculators : \E saved \in SavedInputs[c] :
            stored = [[other \in Calculators |-> Nothing] EXCEPT ![c] = saved]
      BY <2>2
    <3>1. PICK saved \in SavedInputs[c] :
            stored = [[other \in Calculators |-> Nothing] EXCEPT ![c] = saved]
      BY <3>3
    <3>2. Good(c, saved)
      BY StartsAreGood
    <3> QED BY <3>1, <3>2
  <2> QED BY <2>1, <2>2 DEF PageInit
<1>2. calc = Null /\ phase = "closed" /\ link = Null /\ opened = Null /\ live = "idle" /\ edits = 0
  BY DEF PageInit
<1>3. edits \in 0..MaxEdits
  BY <1>2, PagesAssumption
<1> QED BY <1>1, <1>2, <1>3, Zenon DEF PagesInv, Phases

LEMMA RestoredIsGood ==
    ASSUME PagesInv, NEW c \in Calculators
    PROVE  /\ Good(c, Restored(c))
           /\ \A said : Says(stored[c], said) => Says(Restored(c), said)
<1>1. Good(c, DefaultInputs[c]) /\ DOMAIN DefaultInputs[c] = Fields(c)
  BY StartsAreGood DEF Good
<1>2. CASE stored[c] = Nothing
  <2>1. Restored(c) = [f \in Fields(c) |-> DefaultInputs[c][f]]
    BY <1>1, <1>2 DEF Restored, Spread, Nothing
  <2>2. DOMAIN stored[c] = {}
    BY <1>2 DEF Nothing
  <2> QED BY <1>1, <2>1, <2>2 DEF Good, Says
<1>3. CASE stored[c] # Nothing
  <2>1. Good(c, stored[c]) /\ DOMAIN stored[c] = Fields(c)
    BY <1>3 DEF PagesInv, Good
  <2>2. Restored(c) = [f \in Fields(c) |-> stored[c][f]]
    BY <1>1, <2>1 DEF Restored, Spread
  <2>3. Restored(c) = stored[c]
    BY <2>1, <2>2 DEF Good
  <2> QED BY <2>1, <2>3
<1> QED BY <1>2, <1>3

LEMMA Mounted ==
    ASSUME PagesInv, NEW c \in Calculators, NEW l, Mount(c, l), UNCHANGED link,
           l # Null => Good(c, Decode(c, l.params)) /\ Opened(l, c, Decode(c, l.params))
    PROVE  PagesInv'
<1>1. /\ calc' = c /\ phase' = "unsaved" /\ opened' = l /\ edits' = edits /\ link' = link
      /\ stored' = [stored EXCEPT ![c] = DefaultInputs[c]]
      /\ live' = IF c = "return-to-india" THEN "pending" ELSE "idle"
  BY DEF Mount
<1>2. Good(c, DefaultInputs[c])
  BY StartsAreGood
<1>3. stored' = [d \in Calculators |-> stored'[d]] /\ stored'[c] = DefaultInputs[c]
      /\ \A d \in Calculators \ {c} : stored'[d] = stored[d]
  BY <1>1 DEF PagesInv
<1>4. Good(c, inputs')
  <2>1. CASE l # Null
    BY <2>1 DEF Mount
  <2>2. CASE l = Null
    BY <2>2, RestoredIsGood DEF Mount
  <2> QED BY <2>1, <2>2
<1>5. l # Null => Opened(l, c, inputs')
  BY DEF Mount
<1>6. c # Null
  BY PagesAssumption
<1> QED BY <1>1, <1>2, <1>3, <1>4, <1>5, <1>6 DEF PagesInv, Phases

LEMMA OpenPageStep == ASSUME PagesInv, OpenPage PROVE PagesInv'
<1>1. PICK c \in Calculators : Mount(c, Null)
  BY DEF OpenPage
<1>2. UNCHANGED link
  BY DEF OpenPage
<1> QED BY <1>1, <1>2, Mounted

(* A shared link can be opened.                                            *)
LEMMA SharedIsGood ==
    ASSUME Shared(link)
    PROVE  /\ link.calc \in Calculators /\ Good(link.calc, Decode(link.calc, link.params))
           /\ Opened(link, link.calc, Decode(link.calc, link.params))
<1>2. Shared(link)
  OBVIOUS
<1> DEFINE c == link.calc
           in == link.from
<1>3. c \in Calculators /\ Good(c, in) /\ link = Link(c, in, in, "shared")
  BY <1>2 DEF Shared
<1>4. link.params = Encode(in) /\ link.origin = "shared"
  BY <1>3 DEF Link
<1> DEFINE read == Decode(c, link.params)
<1>5. /\ read = [f \in Fields(c) |-> read[f]]
      /\ \A f \in Fields(c) \ {"exchangeRateAsOf"} : read[f] = in[f]
      /\ c = "return-to-india" => read["exchangeRateAsOf"] = Null
  <2> DEFINE read2 == Decode(c, Encode(in))
  <2> HIDE DEF c, in
  <2>1. /\ read2 = [f \in Fields(c) |-> read2[f]]
        /\ \A f \in Fields(c) \ {"exchangeRateAsOf"} : read2[f] = in[f]
        /\ c = "return-to-india" => read2["exchangeRateAsOf"] = Null
    BY <1>3, LinkSays DEF Good
  <2> QED BY <1>4, <2>1
<1> HIDE DEF read, c, in
<1>6. Good(c, read)
  <2>1. \A f \in Fields(c) \ {"exchangeRateAsOf"} : read[f] # Null
    BY <1>3, <1>5 DEF Good
  <2>2. c \in CityPages => read.regionId \in Regions /\ ExpenseOrigin(c, read)
    <3> SUFFICES ASSUME c \in CityPages PROVE read.regionId \in Regions /\ ExpenseOrigin(c, read)
      OBVIOUS
    <3>1. \A f \in {"regionId", "cityId", ExpenseField(c)} : read[f] = in[f]
      BY <1>5, CityFields
    <3>2. ShownCity(read) = ShownCity(in)
      BY <3>1 DEF ShownCity
    <3> QED BY <1>3, <3>1, <3>2 DEF Good, ExpenseOrigin
  <2>3. c = "return-to-india" => RateOrigin(read)
    <3> SUFFICES ASSUME c = "return-to-india" PROVE RateOrigin(read)
      OBVIOUS
    <3>1. \A f \in {"exchangeRateInrPerUsd", "exchangeRateIsCustom"} : read[f] = in[f]
      BY <1>5, CityFields
    <3> QED BY <1>3, <1>5, <3>1 DEF Good, RateOrigin
  <2>4. \A f \in FormFields(c) : read[f] \in Kind(f)
    <3>1. \A f \in FormFields(c) : f \in Fields(c) \ {"exchangeRateAsOf"}
      BY <1>3, FormIsPart
    <3> QED BY <1>3, <1>5, <3>1 DEF Good
  <2> QED BY <1>5, <2>1, <2>2, <2>3, <2>4 DEF Good
<1>7. Opened(link, c, read)
  BY <1>2, <1>4 DEF Opened, read, c
<1> QED BY <1>3, <1>6, <1>7 DEF c, read

LEMMA OpenLinkStep == ASSUME PagesInv, OpenLink PROVE PagesInv'
<1>1. link # Null /\ Mount(link.calc, link) /\ UNCHANGED link
  BY DEF OpenLink
<1>2. Shared(link)
  BY <1>1 DEF PagesInv
<1> QED BY <1>1, <1>2, SharedIsGood, Mounted

LEMMA SaveEffectStep == ASSUME PagesInv, SaveEffect PROVE PagesInv'
<1>1. calc \in Calculators /\ calc # Null
  BY DEF SaveEffect, PagesInv
<1>2. Good(calc, inputs)
  BY <1>1 DEF PagesInv
<1>3. stored' = [d \in Calculators |-> stored'[d]] /\ stored'[calc] = inputs
      /\ \A d \in Calculators \ {calc} : stored'[d] = stored[d]
  BY <1>1 DEF SaveEffect, PagesInv
<1> QED BY <1>1, <1>2, <1>3 DEF SaveEffect, PagesInv, Phases

(* The visitor changes the page to another good one.                       *)
LEMMA Changed ==
    ASSUME PagesInv, NEW next, NEW said, Change(next, said), Good(calc, next) PROVE PagesInv'
<1>1. calc \in Calculators /\ calc # Null
  BY DEF Change, PagesInv
<1> QED BY <1>1, PagesAssumption DEF Change, PagesInv, Phases

LEMMA EditFieldStep == ASSUME PagesInv, EditField PROVE PagesInv'
<1>1. calc \in Calculators /\ Good(calc, inputs)
  BY DEF EditField, PagesInv
<1>4. PICK field \in Form(calc, inputs) : \E value \in Typed[field] :
        Change(Patched(inputs, field, value), [said \in {field} |-> value])
  BY DEF EditField
<1>2. PICK value \in Typed[field] : Change(Patched(inputs, field, value), [said \in {field} |-> value])
  BY <1>4
<1>3. Good(calc, Patched(inputs, field, value))
  BY <1>1, PatchedIsGood
<1> QED BY <1>2, <1>3, Changed

LEMMA PickCityStep == ASSUME PagesInv, PickCity PROVE PagesInv'
<1>1. calc \in CityPages /\ Good(calc, inputs) /\ inputs.regionId \in Regions
  <2>1. calc \in CityPages /\ Good(calc, inputs)
    BY PagesAssumption DEF PickCity, PagesInv, CityPages
  <2> QED BY <2>1 DEF Good
<1>2. PICK i \in DOMAIN CitiesIn[inputs.regionId] :
        Change([inputs EXCEPT !.cityId = CitiesIn[inputs.regionId][i],
                              ![ExpenseField(calc)] = CityExpense[CitiesIn[inputs.regionId][i]]],
               CityTold(CitiesIn[inputs.regionId][i]))
  BY DEF PickCity
<1> DEFINE new == [inputs EXCEPT !.cityId = CitiesIn[inputs.regionId][i],
                              ![ExpenseField(calc)] = CityExpense[CitiesIn[inputs.regionId][i]]]
           region == inputs.regionId
<1>3. Good(calc, new)
  <2>1. region \in Regions /\ i \in DOMAIN CitiesIn[region] /\ region = inputs.regionId
        /\ new = [inputs EXCEPT !.cityId = CitiesIn[region][i],
                              ![ExpenseField(calc)] = CityExpense[CitiesIn[region][i]]]
    BY <1>1
  <2> HIDE DEF new, region
  <2> QED BY <1>1, <2>1, CityIsGood
<1> QED BY <1>2, <1>3, Changed

LEMMA PickRegionStep == ASSUME PagesInv, PickRegion PROVE PagesInv'
<1>1. calc \in CityPages /\ Good(calc, inputs)
  BY PagesAssumption DEF PickRegion, PagesInv, CityPages
<1>2. PICK region \in Regions :
        Change([inputs EXCEPT !.regionId = region, !.cityId = CitiesIn[region][1],
                              ![ExpenseField(calc)] = CityExpense[CitiesIn[region][1]]],
               Spread([field \in {"regionId"} |-> region], CityTold(CitiesIn[region][1])))
  BY DEF PickRegion
<1> DEFINE new == [inputs EXCEPT !.regionId = region, !.cityId = CitiesIn[region][1],
                              ![ExpenseField(calc)] = CityExpense[CitiesIn[region][1]]]
<1>3. 1 \in DOMAIN CitiesIn[region]
  BY PagesAssumption
<1>4. Good(calc, new)
  <2>1. new = [inputs EXCEPT !.regionId = region, !.cityId = CitiesIn[region][1],
                              ![ExpenseField(calc)] = CityExpense[CitiesIn[region][1]]]
    OBVIOUS
  <2> HIDE DEF new
  <2> QED BY <1>1, <1>3, <2>1, CityIsGood
<1> QED BY <1>2, <1>4, Changed

LEMMA LiveRateStep == ASSUME PagesInv, LiveRate PROVE PagesInv'
<1>1. calc = "return-to-india" /\ calc \in Calculators /\ calc # Null /\ Good(calc, inputs)
      /\ UNCHANGED <<calc, stored, link, opened, edits>> /\ live' = "idle"
  BY CalculatorsAre DEF LiveRate, PagesInv
<1>2. calc \notin Quizzed
  BY <1>1 DEF Quizzed
<1>3. CASE UNCHANGED <<inputs, phase>>
  BY <1>1, <1>3 DEF PagesInv
<1>4. CASE \E date \in DOMAIN RateOn :
             /\ ~inputs.exchangeRateIsCustom
             /\ inputs' = [inputs EXCEPT !.exchangeRateInrPerUsd = RateOn[date], !.exchangeRateAsOf = date]
             /\ phase' = "unsaved"
  <2>1. PICK date \in DOMAIN RateOn :
             /\ ~inputs.exchangeRateIsCustom
             /\ inputs' = [inputs EXCEPT !.exchangeRateInrPerUsd = RateOn[date], !.exchangeRateAsOf = date]
             /\ phase' = "unsaved"
    BY <1>4
  <2>2. PICK new : new = inputs'
    OBVIOUS
  <2>3. Good(calc, new) /\ ~new.exchangeRateIsCustom /\ new.exchangeRateAsOf # Null
    BY <1>1, <2>1, <2>2, LiveIsGood
  <2>4. opened # Null => Opened(opened, calc, new)
    BY <1>1, <1>2, <2>3 DEF PagesInv, Opened
  <2> QED BY <1>1, <2>1, <2>2, <2>3, <2>4 DEF PagesInv, Phases
<1> QED BY <1>3, <1>4 DEF LiveRate

LEMMA ShareStep == ASSUME PagesInv, Share PROVE PagesInv'
<1>1. calc \in Calculators /\ Good(calc, inputs)
  BY DEF Share, PagesInv
<1>2. PICK l : l = link' /\ l = Link(calc, inputs, inputs, "shared")
  BY DEF Share
<1>3. l.calc = calc /\ l.from = inputs
  BY <1>2 DEF Link
<1>4. Shared(l)
  BY <1>1, <1>2, <1>3 DEF Shared
<1> QED BY <1>2, <1>4 DEF Share, PagesInv

LEMMA LeaveStep == ASSUME PagesInv, Leave PROVE PagesInv'
BY DEF Leave, PagesInv, Phases

LEMMA PagesStep == ASSUME PagesInv, PageNext PROVE PagesInv'
BY OpenPageStep, OpenLinkStep, SaveEffectStep, EditFieldStep, PickCityStep, PickRegionStep,
   LiveRateStep, ShareStep, LeaveStep DEF PageNext

(* Only one page has a rate.                                               *)
LEMMA RateIsThere ==
    ASSUME NEW c \in Calculators, "exchangeRateInrPerUsd" \in Fields(c) PROVE c = "return-to-india"
BY FormIsPart DEF Fields

(* What was told stays: one lemma per step of a visit.                     *)
LEMMA ToldIsSaid ==
    ASSUME NEW c \in Calculators, NEW in, Good(c, in)
    PROVE  Sayable(c, Told(in)) /\ Says(in, Told(in))
<1>1. DOMAIN in = Fields(c)
  BY DEF Good
<1>2. DOMAIN Told(in) \subseteq Speakable(c)
  BY <1>1 DEF Told, Speakable
<1>3. Told(in) = [field \in DOMAIN Told(in) |-> Told(in)[field]] /\ Says(in, Told(in))
  BY DEF Told, Says
<1>4. ASSUME "exchangeRateInrPerUsd" \in DOMAIN Told(in)
      PROVE  Told(in)["exchangeRateInrPerUsd"] \in Typed["exchangeRateInrPerUsd"]
  <2>1. "exchangeRateInrPerUsd" \in Fields(c) /\ in.exchangeRateIsCustom
    BY <1>1, <1>4 DEF Told
  <2>2. c = "return-to-india"
    BY <2>1, RateIsThere
  <2> QED BY <1>3, <1>4, <2>1, <2>2 DEF Good, RateOrigin, Says
<1> QED BY <1>2, <1>3, <1>4 DEF Sayable

LEMMA NothingIsSaid ==
    ASSUME NEW c, NEW in PROVE Sayable(c, Nothing) /\ Says(in, Nothing)
BY DEF Sayable, Says, Nothing, Speakable

LEMMA ToldStart == PageInit => ToldInv
<1> SUFFICES ASSUME PageInit PROVE ToldInv
  OBVIOUS
<1>1. calc = Null /\ Null \notin Calculators
  BY CalculatorsAre DEF PageInit
<1>2. CASE stored = [c \in Calculators |-> Nothing] /\ told = [c \in Calculators |-> Nothing]
  BY <1>1, <1>2, NothingIsSaid DEF ToldInv
<1>3. CASE \E c \in Calculators : \E saved \in SavedInputs[c] :
             /\ stored = [[other \in Calculators |-> Nothing] EXCEPT ![c] = saved]
             /\ told = [[other \in Calculators |-> Nothing] EXCEPT ![c] = Told(saved)]
  <2>1. PICK c \in Calculators : \E saved \in SavedInputs[c] :
             /\ stored = [[other \in Calculators |-> Nothing] EXCEPT ![c] = saved]
             /\ told = [[other \in Calculators |-> Nothing] EXCEPT ![c] = Told(saved)]
    BY <1>3
  <2>2. PICK saved \in SavedInputs[c] :
             /\ stored = [[other \in Calculators |-> Nothing] EXCEPT ![c] = saved]
             /\ told = [[other \in Calculators |-> Nothing] EXCEPT ![c] = Told(saved)]
    BY <2>1
  <2>3. Good(c, saved)
    BY StartsAreGood
  <2>5. /\ told = [d \in Calculators |-> told[d]]
        /\ stored[c] = saved /\ told[c] = Told(saved)
        /\ \A d \in Calculators \ {c} : stored[d] = Nothing /\ told[d] = Nothing
    BY <2>2
  <2>6. Sayable(c, told[c]) /\ Says(stored[c], told[c])
    BY <2>3, <2>5, ToldIsSaid
  <2> QED BY <1>1, <2>5, <2>6, NothingIsSaid DEF ToldInv
<1> QED BY <1>2, <1>3 DEF PageInit

LEMMA ToldMounted ==
    ASSUME PagesInv, ToldInv, NEW c \in Calculators, NEW l, calc = Null, Mount(c, l),
           l # Null => Good(c, Decode(c, l.params))
    PROVE  ToldInv'
<1>1. /\ calc' = c /\ phase' = "unsaved" /\ Null \notin Calculators
      /\ \A d \in Calculators \ {c} : stored'[d] = stored[d] /\ told'[d] = told[d]
      /\ told' = [d \in Calculators |-> told'[d]]
  BY CalculatorsAre DEF Mount, PagesInv, ToldInv
<1>2. Sayable(c, told'[c]) /\ Says(inputs', told'[c])
  <2>1. CASE l # Null
    <3>1. told'[c] = Told(Decode(c, l.params)) /\ inputs' = Decode(c, l.params)
      BY <2>1 DEF Mount, ToldInv
    <3> QED BY <2>1, <3>1, ToldIsSaid
  <2>2. CASE l = Null
    <3>1. inputs' = Restored(c) /\ told' = told
      BY <2>2 DEF Mount
    <3>2. Sayable(c, told[c]) /\ Says(stored[c], told[c])
      BY <1>1 DEF ToldInv
    <3> QED BY <3>1, <3>2, RestoredIsGood
  <2> QED BY <2>1, <2>2
<1> QED BY <1>1, <1>2 DEF ToldInv

LEMMA ToldChanged ==
    ASSUME PagesInv, ToldInv, NEW next, NEW said, Change(next, said),
           Sayable(calc, said), Says(next, said), DOMAIN next = DOMAIN inputs,
           \A field \in Speakable(calc) \ DOMAIN said : next[field] = inputs[field]
    PROVE  ToldInv'
<1>1. /\ calc \in Calculators /\ calc' = calc /\ phase' = "unsaved" /\ inputs' = next /\ stored' = stored
      /\ told' = [told EXCEPT ![calc] = Spread(@, said)]
  BY DEF Change, PagesInv
<1> DEFINE new == Spread(told[calc], said)
<1>2. /\ told' = [d \in Calculators |-> told'[d]] /\ told'[calc] = new
      /\ \A d \in Calculators \ {calc} : told'[d] = told[d]
  BY <1>1 DEF ToldInv
<1>3. Sayable(calc, told[calc]) /\ Says(inputs, told[calc])
  BY <1>1 DEF ToldInv
<1>4. /\ DOMAIN new = DOMAIN told[calc] \cup DOMAIN said
      /\ new = [field \in DOMAIN new |-> new[field]]
      /\ \A field \in DOMAIN said : new[field] = said[field]
      /\ \A field \in DOMAIN told[calc] \ DOMAIN said : new[field] = told[calc][field]
  BY DEF Spread
<1> HIDE DEF new
<1>5. Sayable(calc, new)
  BY <1>3, <1>4 DEF Sayable
<1>6. Says(next, new)
  BY <1>3, <1>4 DEF Sayable, Says
<1> QED BY <1>1, <1>2, <1>5, <1>6 DEF ToldInv

LEMMA ToldEdited == ASSUME PagesInv, ToldInv, EditField PROVE ToldInv'
<1>1. calc \in Calculators /\ Good(calc, inputs)
  BY DEF EditField, PagesInv
<1>2. PICK field \in Form(calc, inputs) : \E value \in Typed[field] :
        Change(Patched(inputs, field, value), [said \in {field} |-> value])
  BY DEF EditField
<1>3. PICK value \in Typed[field] : Change(Patched(inputs, field, value), [said \in {field} |-> value])
  BY <1>2
<1> DEFINE next == Patched(inputs, field, value)
           new == [said \in {field} |-> value]
<1>4. field \in Speakable(calc)
  BY <1>1, FormIsPart DEF Speakable
<1>5. DOMAIN inputs = Fields(calc)
  BY <1>1 DEF Good
<1>6. /\ next[field] = value /\ \A f \in Speakable(calc) \ {field} : next[f] = inputs[f]
      /\ DOMAIN next = DOMAIN inputs /\ field \in DOMAIN inputs
  BY <1>4, <1>5 DEF Patched, Speakable
<1>7. DOMAIN new = {field} /\ new[field] = value /\ new = [f \in DOMAIN new |-> new[f]]
  OBVIOUS
<1> HIDE DEF next, new
<1>8. Sayable(calc, new) /\ Says(next, new)
  <2>1. DOMAIN new \subseteq Speakable(calc)
    BY <1>4, <1>7
  <2>2. "exchangeRateInrPerUsd" \in DOMAIN new =>
          new["exchangeRateInrPerUsd"] \in Typed["exchangeRateInrPerUsd"]
    BY <1>7
  <2> QED BY <1>6, <1>7, <2>1, <2>2 DEF Sayable, Says
<1>9. Change(next, new)
  BY <1>3 DEF next, new
<1> QED BY <1>6, <1>7, <1>8, <1>9, ToldChanged

(* A city tells an expense, and a region its first city too.               *)
CityChanges(c, in, said, next) ==
    /\ said = [field \in DOMAIN said |-> said[field]]
    /\ \/ /\ DOMAIN said = {"cityId", ExpenseField(c)}
          /\ next = [in EXCEPT !.cityId = said["cityId"], ![ExpenseField(c)] = said[ExpenseField(c)]]
       \/ /\ DOMAIN said = {"regionId", "cityId", ExpenseField(c)}
          /\ next = [in EXCEPT !.regionId = said["regionId"], !.cityId = said["cityId"],
                               ![ExpenseField(c)] = said[ExpenseField(c)]]

LEMMA ToldCity ==
    ASSUME NEW c \in CityPages, NEW in, Good(c, in), NEW said, NEW next, CityChanges(c, in, said, next)
    PROVE  /\ Sayable(c, said) /\ Says(next, said) /\ DOMAIN next = DOMAIN in
           /\ \A field \in Speakable(c) \ DOMAIN said : next[field] = in[field]
<1>1. {"regionId", "cityId", ExpenseField(c)} \subseteq Fields(c)
      /\ ExpenseField(c) \notin {"regionId", "cityId", "exchangeRateInrPerUsd",
                                 "exchangeRateIsCustom", "exchangeRateAsOf"}
  BY CityFields
<1>2. DOMAIN in = Fields(c)
  BY DEF Good
<1>3. Sayable(c, said)
  BY <1>1 DEF Sayable, Speakable, CityChanges
<1>4. Says(next, said)
  BY <1>1, <1>2 DEF Says, CityChanges
<1>5. \A field \in Speakable(c) \ DOMAIN said : next[field] = in[field]
  BY <1>1, <1>2 DEF Speakable, CityChanges
<1>6. DOMAIN next = DOMAIN in
  BY DEF CityChanges
<1> QED BY <1>3, <1>4, <1>5, <1>6

LEMMA ToldPickedCity == ASSUME PagesInv, ToldInv, PickCity PROVE ToldInv'
<1>1. calc \in CityPages /\ Good(calc, inputs)
  BY PagesAssumption DEF PickCity, PagesInv, CityPages
<1>2. PICK i \in DOMAIN CitiesIn[inputs.regionId] :
        Change([inputs EXCEPT !.cityId = CitiesIn[inputs.regionId][i],
                              ![ExpenseField(calc)] = CityExpense[CitiesIn[inputs.regionId][i]]],
               CityTold(CitiesIn[inputs.regionId][i]))
  BY DEF PickCity
<1>3. PICK city : city = CitiesIn[inputs.regionId][i]
  OBVIOUS
<1>4. PICK next : next = [inputs EXCEPT !.cityId = city, ![ExpenseField(calc)] = CityExpense[city]]
  OBVIOUS
<1>5. Change(next, CityTold(city))
  BY <1>2, <1>3, <1>4
<1>6. PICK said : said = CityTold(city)
  OBVIOUS
<1>7. /\ DOMAIN said = {"cityId", ExpenseField(calc)} /\ said = [field \in DOMAIN said |-> said[field]]
      /\ said["cityId"] = city /\ said[ExpenseField(calc)] = CityExpense[city]
  <2>1. ExpenseField(calc) # "cityId"
    BY <1>1, CityFields
  <2> QED BY <1>6, <2>1 DEF CityTold
<1>8. /\ Sayable(calc, said) /\ Says(next, said) /\ DOMAIN next = DOMAIN inputs
      /\ \A field \in Speakable(calc) \ DOMAIN said : next[field] = inputs[field]
  <2>1. next = [inputs EXCEPT !.cityId = said["cityId"], ![ExpenseField(calc)] = said[ExpenseField(calc)]]
    BY <1>4, <1>7
  <2>2. CityChanges(calc, inputs, said, next)
    BY <1>7, <2>1 DEF CityChanges
  <2> QED BY <1>1, <2>2, ToldCity
<1> QED BY <1>5, <1>6, <1>8, ToldChanged

LEMMA ToldPickedRegion == ASSUME PagesInv, ToldInv, PickRegion PROVE ToldInv'
<1>1. calc \in CityPages /\ Good(calc, inputs)
  BY PagesAssumption DEF PickRegion, PagesInv, CityPages
<1>2. PICK region \in Regions :
        Change([inputs EXCEPT !.regionId = region, !.cityId = CitiesIn[region][1],
                              ![ExpenseField(calc)] = CityExpense[CitiesIn[region][1]]],
               Spread([field \in {"regionId"} |-> region], CityTold(CitiesIn[region][1])))
  BY DEF PickRegion
<1>3. PICK city : city = CitiesIn[region][1]
  OBVIOUS
<1>4. PICK next : next = [inputs EXCEPT !.regionId = region, !.cityId = city,
                                        ![ExpenseField(calc)] = CityExpense[city]]
  OBVIOUS
<1>6. PICK said : said = Spread([field \in {"regionId"} |-> region], CityTold(city))
  OBVIOUS
<1>5. Change(next, said)
  BY <1>2, <1>3, <1>4, <1>6
<1>7. /\ DOMAIN said = {"regionId", "cityId", ExpenseField(calc)}
      /\ said = [field \in DOMAIN said |-> said[field]]
      /\ said["cityId"] = city /\ said[ExpenseField(calc)] = CityExpense[city] /\ said["regionId"] = region
  <2>1. ExpenseField(calc) \notin {"cityId", "regionId"}
    BY <1>1, CityFields
  <2>2. PICK patch : patch = CityTold(city)
    OBVIOUS
  <2>3. /\ DOMAIN patch = {"cityId", ExpenseField(calc)}
        /\ patch["cityId"] = city /\ patch[ExpenseField(calc)] = CityExpense[city]
    BY <2>1, <2>2 DEF CityTold
  <2>4. said = [field \in {"regionId"} \cup DOMAIN patch |->
                  IF field \in DOMAIN patch THEN patch[field] ELSE [other \in {"regionId"} |-> region][field]]
    BY <1>6, <2>2 DEF Spread
  <2> QED BY <2>1, <2>3, <2>4
<1>8. /\ Sayable(calc, said) /\ Says(next, said) /\ DOMAIN next = DOMAIN inputs
      /\ \A field \in Speakable(calc) \ DOMAIN said : next[field] = inputs[field]
  <2>1. next = [inputs EXCEPT !.regionId = said["regionId"], !.cityId = said["cityId"],
                              ![ExpenseField(calc)] = said[ExpenseField(calc)]]
    BY <1>4, <1>7
  <2>2. CityChanges(calc, inputs, said, next)
    BY <1>7, <2>1 DEF CityChanges
  <2> QED BY <1>1, <2>2, ToldCity
<1> QED BY <1>5, <1>8, ToldChanged

(* A typed rate is marked as the visitor's own: no late answer replaces it. *)
LEMMA ToldLive == ASSUME PagesInv, ToldInv, LiveRate PROVE ToldInv'
<1>1. calc = "return-to-india" /\ calc \in Calculators /\ Good(calc, inputs)
      /\ UNCHANGED <<calc, stored, told>>
  BY CalculatorsAre DEF LiveRate, PagesInv
<1>2. CASE UNCHANGED <<inputs, phase>>
  BY <1>1, <1>2 DEF ToldInv
<1>3. CASE /\ ~inputs.exchangeRateIsCustom /\ phase' = "unsaved"
           /\ \E date \in DOMAIN RateOn :
                inputs' = [inputs EXCEPT !.exchangeRateInrPerUsd = RateOn[date], !.exchangeRateAsOf = date]
  <2>1. Sayable(calc, told[calc]) /\ Says(inputs, told[calc])
    BY <1>1 DEF ToldInv
  <2>2. "exchangeRateInrPerUsd" \notin DOMAIN told[calc]
    BY <1>1, <1>3, <2>1 DEF Sayable, Says, Good, RateOrigin
  <2>3. \A field \in DOMAIN told[calc] : inputs'[field] = inputs[field]
    <3> SUFFICES ASSUME NEW field \in DOMAIN told[calc] PROVE inputs'[field] = inputs[field]
      OBVIOUS
    <3>1. field \notin {"exchangeRateInrPerUsd", "exchangeRateAsOf"} /\ field \in DOMAIN inputs
      BY <1>1, <2>1, <2>2 DEF Sayable, Speakable, Good
    <3> QED BY <1>3, <3>1
  <2>4. Says(inputs', told[calc])
    BY <1>3, <2>1, <2>3 DEF Says
  <2> QED BY <1>1, <1>3, <2>4 DEF ToldInv
<1> QED BY <1>2, <1>3 DEF LiveRate

LEMMA ToldSaved == ASSUME PagesInv, ToldInv, SaveEffect PROVE ToldInv'
<1>1. /\ calc \in Calculators /\ calc # Null /\ UNCHANGED <<calc, inputs, told>> /\ Good(calc, inputs)
  BY DEF SaveEffect, PagesInv
<1>2. stored'[calc] = inputs /\ \A d \in Calculators \ {calc} : stored'[d] = stored[d]
  BY <1>1 DEF SaveEffect, PagesInv
<1> QED BY <1>1, <1>2 DEF ToldInv

LEMMA ToldLeft == ASSUME PagesInv, ToldInv, Leave PROVE ToldInv'
<1>1. /\ calc \in Calculators /\ stored' = stored /\ calc' = Null /\ phase' = "closed" /\ Null \notin Calculators
      /\ told' = IF phase = "unsaved" THEN [told EXCEPT ![calc] = Remembered] ELSE told
  BY CalculatorsAre DEF Leave, PagesInv
<1>2. phase \in {"unsaved", "shown"}
  BY DEF Leave, PagesInv, Phases
<1>3. CASE phase = "shown"
  BY <1>1, <1>3 DEF ToldInv
<1>4. CASE phase = "unsaved"
  <2>1. PICK kept : kept = Remembered
    OBVIOUS
  <2>2. /\ kept = [field \in DOMAIN kept |-> kept[field]] /\ DOMAIN kept \subseteq DOMAIN told[calc]
        /\ \A field \in DOMAIN kept : kept[field] = told[calc][field] /\ stored[calc][field] = kept[field]
        /\ DOMAIN kept \subseteq DOMAIN stored[calc]
    <3>1. DOMAIN told[calc] \subseteq DOMAIN stored[calc]
      BY <1>1 DEF PagesInv, ToldInv, Sayable, Speakable, Good
    <3> QED BY <2>1, <3>1 DEF Remembered
  <2>3. Sayable(calc, kept) /\ Says(stored[calc], kept)
    BY <1>1, <2>2 DEF ToldInv, Sayable, Says
  <2>4. /\ told' = [d \in Calculators |-> told'[d]] /\ told'[calc] = kept
        /\ \A d \in Calculators \ {calc} : told'[d] = told[d]
    BY <1>1, <1>4, <2>1 DEF ToldInv
  <2> QED BY <1>1, <2>3, <2>4 DEF ToldInv
<1> QED BY <1>2, <1>3, <1>4

LEMMA ToldStep == ASSUME PagesInv, ToldInv, PageNext PROVE ToldInv'
<1>1. CASE OpenPage
  <2>1. PICK c \in Calculators : Mount(c, Null)
    BY <1>1 DEF OpenPage
  <2> QED BY <1>1, <2>1, ToldMounted DEF OpenPage
<1>2. CASE OpenLink
  <2>1. link.calc \in Calculators /\ Good(link.calc, Decode(link.calc, link.params))
    BY <1>2, SharedIsGood DEF OpenLink, PagesInv
  <2> QED BY <1>2, <2>1, ToldMounted DEF OpenLink
<1>3. CASE Share
  BY <1>3 DEF Share, ToldInv
<1> QED BY <1>1, <1>2, <1>3, ToldSaved, ToldEdited, ToldPickedCity, ToldPickedRegion, ToldLive, ToldLeft
        DEF PageNext

LEMMA SeeResultsStep == ASSUME VisitInv, SeeResults PROVE VisitInv'
<1> DEFINE c == answers["path"]
           l == Destination(c)
<1>1. IsDone /\ Mount(c, l) /\ UNCHANGED link /\ QuizInv /\ PagesInv /\ ToldInv /\ calc = Null
  BY DEF SeeResults, VisitInv
<1>2. c \in Calculators
  BY <1>1, PathChosen, PathsAreCalculators
<1>3. l # Null => Good(c, Decode(c, l.params)) /\ Opened(l, c, Decode(c, l.params))
  <2> SUFFICES ASSUME l # Null PROVE Good(c, Decode(c, l.params)) /\ Opened(l, c, Decode(c, l.params))
    OBVIOUS
  <2>1. c \in Quizzed
    BY DEF Destination, Quizzed
  <2>2. l = Link(c, Prefilled(c, SourceOf(c)), answers, "quiz")
    BY <2>1 DEF Destination, SourceOf, Quizzed
  <2> DEFINE pre == Prefilled(c, SourceOf(c))
  <2> HIDE DEF pre
  <2>3. l.params = Encode(pre) /\ l.origin = "quiz" /\ l.from = answers
    BY <2>2 DEF Link, pre
  <2>4. Good(c, Decode(c, Encode(pre))) /\ Used(answers, c, Decode(c, Encode(pre)))
    BY <1>1, <2>1, QuizLink DEF pre
  <2> HIDE DEF l, c
  <2> QED BY <2>1, <2>3, <2>4 DEF Opened
<1>4. PagesInv'
  <2> HIDE DEF l, c
  <2> QED BY <1>1, <1>2, <1>3, Mounted
<1>5. QuizInv'
  <2>1. step' = 0 /\ draft' = Undefined /\ answers' = [key \in Keys |-> Undefined]
    BY DEF SeeResults
  <2>2. answers'["category"] = Undefined /\ answers'["path"] = Undefined /\ DOMAIN answers' = Keys
    BY <2>1 DEF Keys
  <2>3. Len(Questions') \in 1..7
    BY Lists DEF Questions
  <2> QED BY <2>1, <2>2, <2>3 DEF QuizInv, PassedQuestionsAnswered
<1>6. ToldInv'
  <2> HIDE DEF l, c
  <2> QED BY <1>1, <1>2, <1>3, ToldMounted
<1> QED BY <1>4, <1>5, <1>6 DEF VisitInv

LEMMA VisitStarts == Init => VisitInv
BY InitIsInvariant, PagesStart, ToldStart DEF Init, VisitInv

LEMMA VisitGoesOn == VisitInv /\ [Next]_vars => VisitInv'
<1> SUFFICES ASSUME VisitInv, [Next]_vars PROVE VisitInv'
  OBVIOUS
<1>1. CASE TakeQuiz
  <2>1. QuizInv'
    BY <1>1, NextKeepsInvariant DEF TakeQuiz, VisitInv
  <2>2. PagesInv'
    BY <1>1 DEF TakeQuiz, VisitInv, PagesInv, pageVars
  <2>3. ToldInv'
    BY <1>1 DEF TakeQuiz, VisitInv, ToldInv, pageVars
  <2> QED BY <2>1, <2>2, <2>3 DEF VisitInv
<1>2. CASE SeeResults
  BY <1>2, SeeResultsStep
<1>3. CASE BrowsePages
  <2>1. QuizInv'
    BY <1>3, NextKeepsInvariant DEF BrowsePages, VisitInv
  <2>2. PagesInv'
    BY <1>3, PagesStep DEF BrowsePages, VisitInv
  <2>3. ToldInv'
    BY <1>3, ToldStep DEF BrowsePages, VisitInv
  <2> QED BY <2>1, <2>2, <2>3 DEF VisitInv
<1>4. CASE UNCHANGED vars
  <2>1. QuizInv'
    BY <1>4, NextKeepsInvariant DEF vars, VisitInv
  <2>2. PagesInv'
    BY <1>4 DEF vars, VisitInv, PagesInv, pageVars
  <2>3. ToldInv'
    BY <1>4 DEF vars, VisitInv, ToldInv, pageVars
  <2> QED BY <2>1, <2>2, <2>3 DEF VisitInv
<1> QED BY <1>1, <1>2, <1>3, <1>4 DEF Next

(* From the questionnaire through links, pages and the browser's storage,  *)
(* every page holds good inputs.                                           *)
THEOREM Invariance == Spec => []VisitInv
<1> QED BY VisitStarts, VisitGoesOn, PTL DEF Spec

(* The pages, the links and the questionnaire keep their types: what is    *)
(* shown, and what is stored, always has the fields of its page.           *)
THEOREM TypeCorrect == Spec => []TypeOK
<1>1. VisitInv => TypeOK
  <2> SUFFICES ASSUME VisitInv PROVE TypeOK
    OBVIOUS
  <2>1. QuizTypeOK
    <3>1. Len(Questions) \in Nat
      BY Lists DEF Questions
    <3> QED BY <3>1 DEF VisitInv, QuizInv, QuizTypeOK
  <2>2. \A c \in Calculators : Good(c, DefaultInputs[c])
    BY StartsAreGood
  <2>3. \A c \in Calculators : \A in : Good(c, in) => DOMAIN in = DOMAIN DefaultInputs[c]
    BY <2>2 DEF Good
  <2>4. \A c, in : Good(c, in) => \A field \in FormFields(c) : in[field] \in Kind(field)
    BY DEF Good
  <2>5. DOMAIN told = Calculators
    BY Zenon DEF VisitInv, ToldInv
  <2>6. ASSUME NEW c \in Calculators PROVE DOMAIN told[c] \subseteq DOMAIN DefaultInputs[c]
    <3>1. DOMAIN told[c] \subseteq Fields(c)
      BY DEF VisitInv, ToldInv, Sayable, Speakable
    <3>2. Fields(c) = DOMAIN DefaultInputs[c]
      <4>1. Good(c, DefaultInputs[c])
        BY <2>2
      <4>2. \A in : Good(c, in) => Fields(c) = DOMAIN in
        BY DEF Good
      <4> QED BY <4>1, <4>2, Zenon
    <3> QED BY <3>1, <3>2
  <2> QED BY <2>1, <2>3, <2>4, <2>5, <2>6 DEF VisitInv, PagesInv, TypeOK
<1> QED BY <1>1, Invariance, PTL

(* The page on the screen computes with what the visitor told the site,    *)
(* and the next visit finds it unless the page was left before it was      *)
(* saved: saved inputs come back, a typed rate outlasts a late live one,   *)
(* every answer of the questionnaire is used, a shared link shows its      *)
(* reader what its sender saw, and a rate, its date and an expense always  *)
(* belong together (useLocalStorageState, handleChange,                    *)
(* decodeParamsToInputs, buildDestinationHref).                            *)
THEOREM VisitorsAreHeard == Spec => []VisitorIsHeard
<1>1. VisitInv => VisitorIsHeard
  <2> SUFFICES ASSUME VisitInv PROVE VisitorIsHeard
    OBVIOUS
  <2>1. PassedQuestionsAnswered
    BY DEF VisitInv, QuizInv
  <2>2. AnswersAreUsed
    BY UsedIsUsed DEF VisitInv, PagesInv, Opened
  <2>3. LinksSayTheSame
    <3> SUFFICES ASSUME opened # Null, opened.origin = "shared",
                        ~(calc = "return-to-india" /\ ~inputs.exchangeRateIsCustom /\ inputs.exchangeRateAsOf # Null)
                 PROVE  Panel(calc, inputs) = Panel(opened.calc, opened.from)
      BY DEF LinksSayTheSame
    <3>1. /\ Shared(opened) /\ opened.calc = calc /\ inputs = Decode(calc, opened.params)
      BY DEF VisitInv, PagesInv, Opened
    <3>2. calc \in Calculators /\ Good(calc, opened.from) /\ opened.params = Encode(opened.from)
      BY <3>1 DEF Shared, Link
    <3> DEFINE in == opened.from
    <3>3. /\ inputs = [f \in Fields(calc) |-> inputs[f]]
          /\ \A f \in Fields(calc) \ {"exchangeRateAsOf"} : inputs[f] = in[f]
      BY <3>1, <3>2, LinkSays DEF Good
    <3>4. Panel(calc, inputs) = Panel(calc, in)
      BY <3>2, <3>3, PanelIgnoresDate DEF Good
    <3> QED BY <3>1, <3>4
  <2>4. calc = "return-to-india" => RateOrigin(inputs)
    BY CalculatorsAre DEF VisitInv, PagesInv, Good
  <2>5. stored["return-to-india"] # Nothing => RateOrigin(stored["return-to-india"])
    BY CalculatorsAre DEF VisitInv, PagesInv, Good
  <2>6. calc \in CityPages => ExpenseOrigin(calc, inputs)
    BY CalculatorsAre DEF VisitInv, PagesInv, Good
  <2>7. InputsRemembered
    BY DEF InputsRemembered, VisitInv, PagesInv, ToldInv, Says
  <2> QED BY <2>1, <2>2, <2>3, <2>4, <2>5, <2>6, <2>7 DEF VisitorIsHeard
<1> QED BY <1>1, Invariance, PTL

-----------------------------------------------------------------------------
(* What the pages advise                                                   *)

(* Good inputs are all the advice of a page rests on.                      *)
LEMMA GoodAdvice ==
    ASSUME NEW c \in Calculators, NEW in, Good(c, in)
    PROVE  Advice(c, in, Panel(c, in))
<1>1. \A field \in FormFields(c) : in[field] \in Kind(field) /\ field \in DOMAIN in
  <2>1. DOMAIN in = Fields(c) /\ FormFields(c) \subseteq Fields(c)
    BY FormIsPart DEF Good
  <2> QED BY <2>1 DEF Good
<1>2. CASE c = "retirement"
  <2>1. Panel(c, in) = RetirementPanel(in)
    BY <1>2 DEF Panel
  <2>2. FormFields(c) = RetirementForm([stepUpEnabled |-> TRUE])
    BY <1>2 DEF FormFields, Form
  <2>3. Life(in)
    BY <1>1, <2>2 DEF Life, Kind, RetirementForm
  <2>4. RetirementAdvice(in, RetirementPanel(in))
    BY <2>3, RetirementSound
  <2> QED BY <1>2, <2>1, <2>4 DEF Advice
<1>3. CASE c = "coast-fire"
  <2>1. Panel(c, in) = CoastPanel(in)
    BY <1>3 DEF Panel
  <2>2. FormFields(c) = CoastForm
    BY <1>3 DEF FormFields, Form
  <2>3. CoastInputs(in) /\ CoastForm \subseteq DOMAIN in
    BY <1>1, <2>2 DEF CoastInputs, Kind, CoastForm
  <2>4. CoastAdvice(in, CoastPanel(in))
    BY <2>3, CoastSound
  <2> QED BY <1>3, <2>1, <2>4 DEF Advice
<1>4. CASE c = "savings-rate"
  <2>1. Panel(c, in) = SavingsRatePanel(in)
    BY <1>4 DEF Panel
  <2>2. FormFields(c) = SavingsRateForm
    BY <1>4 DEF FormFields, Form
  <2>3. SavingsInputs(in)
    BY <1>1, <2>2 DEF SavingsInputs, Kind, SavingsRateForm
  <2>4. SavingIsInvesting(in, SavingsRatePanel(in))
    BY <2>3, SavingsSound
  <2> QED BY <1>4, <2>1, <2>4 DEF Advice
<1>5. CASE c = "fire-by-city"
  <2>1. Panel(c, in) = CityPanel(in)
    BY <1>5 DEF Panel
  <2>2. FormFields(c) = CityForm
    BY <1>5 DEF FormFields, Form
  <2>3. CityInputs(in)
    BY <1>1, <2>2 DEF CityInputs, Kind, CityForm
  <2>4. CityAdvice(in, CityPanel(in))
    BY <2>3, CitySound
  <2> QED BY <1>5, <2>1, <2>4 DEF Advice
<1>6. CASE c = "return-to-india"
  <2>1. Panel(c, in) = ReturnPanel(in)
    BY <1>6 DEF Panel
  <2>2. FormFields(c) = ReturnForm
    BY <1>6 DEF FormFields, Form
  <2>3. ReturnInputs(in)
    BY <1>1, <2>2 DEF ReturnInputs, Kind, ReturnForm
  <2>4. ReturnAdvice(in, ReturnPanel(in))
    BY <2>3, ReturnSound
  <2> QED BY <1>6, <2>1, <2>4 DEF Advice
<1>7. CASE c = "sip-for-fire"
  <2>1. Panel(c, in) = SipPanel(in)
    BY <1>7 DEF Panel
  <2>2. FormFields(c) = SipForm
    BY <1>7 DEF FormFields, Form
  <2>3. SipInputs(in) /\ in.monthlySip \in Int /\ SipForm \subseteq DOMAIN in
    BY <1>1, <2>2 DEF SipInputs, Kind, SipForm
  <2>4. SipAdvice(in, SipPanel(in))
    BY <2>3, SipSound
  <2> QED BY <1>7, <2>1, <2>4 DEF Advice
<1>8. CASE c = "lumpsum-for-fire"
  <2>1. Panel(c, in) = LumpsumPanel(in)
    BY <1>8 DEF Panel
  <2>2. FormFields(c) = LumpsumForm
    BY <1>8 DEF FormFields, Form
  <2>3. /\ in.currentAge \in Int /\ in.targetAge \in Int /\ in.lumpsumAmount \in Int
        /\ in.expectedReturnPct \in Int /\ in.fireNumber \in Int
    BY <1>1, <2>2 DEF Kind, LumpsumForm
  <2>4. LumpsumAdvice(in, LumpsumPanel(in))
    BY <2>3, LumpsumSound
  <2> QED BY <1>8, <2>1, <2>4 DEF Advice
<1>9. CASE c = "epf"
  <2>1. Panel(c, in) = EpfPanel(in)
    BY <1>9 DEF Panel
  <2>2. FormFields(c) = EpfForm
    BY <1>9 DEF FormFields, Form
  <2>3. EpfInputs(in)
    BY <1>1, <2>2 DEF EpfInputs, Kind, EpfForm
  <2>4. EarnsInterest(in, EpfPanel(in), {in.monthlyBasicSalary, in.employeeContributionPct,
                                              in.employerContributionPct, in.annualSalaryGrowthPct + 100})
    BY <2>3, EpfSound
  <2> QED BY <1>9, <2>1, <2>4 DEF Advice
<1>10. CASE c = "ppf"
  <2>1. Panel(c, in) = PpfPanel(in)
    BY <1>10 DEF Panel
  <2>2. FormFields(c) = PpfForm
    BY <1>10 DEF FormFields, Form
  <2>3. PpfInputs(in)
    BY <1>1, <2>2 DEF PpfInputs, Kind, PpfForm
  <2>4. EarnsInterest(in, PpfPanel(in), {in.annualContribution})
    BY <2>3, PpfSound
  <2> QED BY <1>10, <2>1, <2>4 DEF Advice
<1>11. CASE c = "nps"
  <2>1. Panel(c, in) = NpsPanel(in)
    BY <1>11 DEF Panel
  <2>2. FormFields(c) = NpsForm
    BY <1>11 DEF FormFields, Form
  <2>3. in.monthlyContribution \in Int
    BY <1>1, <2>2 DEF Kind, NpsForm
  <2>4. SchemesAgree(in, NpsPanel(in))
    BY <2>3, NpsSound
  <2> QED BY <1>11, <2>1, <2>4 DEF Advice
<1> QED BY <1>2, <1>3, <1>4, <1>5, <1>6, <1>7, <1>8, <1>9, <1>10, <1>11, CalculatorsAre

(* Whatever was typed, chosen, sent or restored, the advice on the screen  *)
(* is right to the rupee, whichever side of the least sufficient sum the   *)
(* search's midpoint and its rounding fall on, and two pages that answer   *)
(* one question agree (retirementCalculator.ts, fireProgressCalculator.ts, *)
(* indiaRetirementSchemes.ts, savingsRateCalculator.ts).                   *)
THEOREM AdviceRightToTheRupee == Spec => []AdviceIsSound
<1>1. VisitInv => AdviceIsSound
  <2> SUFFICES ASSUME VisitInv, phase = "shown" PROVE Advice(calc, inputs, Panel(calc, inputs))
    BY DEF AdviceIsSound
  <2>1. calc \in Calculators /\ Good(calc, inputs)
    BY DEF VisitInv, PagesInv
  <2> QED BY <2>1, GoodAdvice
<1> QED BY <1>1, Invariance, PTL
=============================================================================
