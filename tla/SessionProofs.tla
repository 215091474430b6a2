--------------------------- MODULE SessionProofs ---------------------------
(***************************************************************************)
(* Proofs that the tabs of a browser keep their types and that, for any    *)
(* number of tabs, users and acts, a tab whose session nobody else touched *)
(* acts for the user it shows.                                             *)
(***************************************************************************)
EXTENDS SessionRequirements, TLAPS

State == [page : Pages \cup {"closed"}, user : Users \cup {Null}, loading : BOOLEAN,
          checking : Users \cup {Null}, ops : SUBSET Operations,
          asking : BOOLEAN, inviteRequired : BOOLEAN]

OneShown(s) == \A a, b \in s.ops : a.shown /\ b.shown => a = b

\* A closed tab waits for nothing and believes nothing.
AtClosed(s) == s.page = "closed" => s.user = Null /\ s.checking = Null /\ s.ops = {}

Checks(s) == s.checking # Null \/ \E op \in s.ops : op.stage = "checking"

\* What holds of an undisturbed tab in state s while the token is k.
Calm(s, k) ==
    s.page # "closed" =>
      /\ s.checking # Null => s.checking = k /\ s.user = Null /\ s.ops = {}
      /\ \A op \in s.ops : s.user = Null /\ (op.stage = "checking" => op.user = k)
      /\ \A a, b \in s.ops : a = b
      /\ ~Checks(s) => s.user = k

Fits(s) == s \in State /\ OneShown(s) /\ AtClosed(s)

IInv ==
    /\ registered \subseteq Users
    /\ token \in Users \cup {Null}
    /\ tab \in [Tabs -> State]
    /\ \A t \in Tabs : Fits(tab[t])
    /\ undisturbed \subseteq Tabs
    /\ acts \in 0..MaxActs
    /\ \A t \in undisturbed : Calm(tab[t], token)

USE SessionAssumption

\* Replacing the state of one tab, the token changing for the others only if
\* they count as disturbed.
LEMMA Replaced ==
    ASSUME IInv, NEW t \in Tabs, NEW s, Fits(s), Becomes(t, s),
           token' \in Users \cup {Null}, registered' \subseteq Users, acts' \in 0..MaxActs,
           undisturbed' \subseteq undisturbed \cup {t},
           token' # token => undisturbed' \subseteq {t},
           t \in undisturbed' => Calm(s, token')
    PROVE  IInv'
<1>1. tab' \in [Tabs -> State] /\ tab'[t] = s
  BY DEF IInv, Becomes, Fits
<1>2. \A u \in Tabs \ {t} : tab'[u] = tab[u]
  BY DEF IInv, Becomes
<1>3. \A u \in Tabs : Fits(tab'[u])
  BY <1>1, <1>2, Zenon DEF IInv
<1>4. \A u \in undisturbed' : Calm(tab'[u], token')
  <2> SUFFICES ASSUME NEW u \in undisturbed' PROVE Calm(tab'[u], token')
    OBVIOUS
  <2>1. CASE u = t
    BY <2>1, <1>1
  <2>2. CASE u # t
    <3>1. token' = token /\ u \in undisturbed /\ u \in Tabs
      BY <2>2 DEF IInv
    <3>2. tab'[u] = tab[u] /\ Calm(tab[u], token)
      BY <3>1, <2>2, <1>2 DEF IInv
    <3> QED BY <3>1, <3>2, Zenon
  <2> QED BY <2>1, <2>2
<1>5. undisturbed' \subseteq Tabs
  BY DEF IInv
<1> QED BY <1>1, <1>3, <1>4, <1>5, Zenon DEF IInv

LEMMA Disturbed ==
    ASSUME NEW t \in Tabs, Disturb(t)
    PROVE  /\ undisturbed' \subseteq undisturbed \cup {t}
           /\ token' # token => undisturbed' \subseteq {t}
           /\ t \in undisturbed' => t \in undisturbed
  BY DEF Disturb

Gone(op) == [op EXCEPT !.shown = FALSE]

\* A request whose form is gone is the same request.
LEMMA Hiding ==
    ASSUME NEW op \in Operations
    PROVE  Gone(op) \in Operations /\ Gone(op).shown = FALSE
           /\ Gone(op).stage = op.stage /\ Gone(op).user = op.user
  BY DEF Operations, Gone

\* Another page: only the forms of the old one are gone.
LEMMA ShowingFits ==
    ASSUME NEW s, Fits(s), s.page # "closed", NEW page \in Pages
    PROVE  Fits(Showing(s, page))
<1>1. CASE s.page = page
  BY <1>1 DEF Showing
<1>2. CASE s.page # page
  <2> DEFINE hidden == {Gone(op) : op \in s.ops}
  <2>1. hidden \subseteq Operations /\ \A op \in hidden : op.shown = FALSE
    <3>1. s.ops \subseteq Operations
      BY DEF Fits, State
    <3>2. \A op \in s.ops : Gone(op) \in Operations /\ Gone(op).shown = FALSE
      BY <3>1, Hiding
    <3> QED BY <3>2
  <2>3. Showing(s, page) = [s EXCEPT !.page = page, !.ops = hidden,
                                     !.asking = (page = "register"), !.inviteRequired = FALSE]
    BY <1>2 DEF Showing, Gone
  <2> HIDE DEF hidden
  <2>4. Showing(s, page) \in State
    BY <2>1, <2>3 DEF Fits, State
  <2>5. Showing(s, page).ops = hidden /\ Showing(s, page).page = page
    BY <2>3 DEF Fits, State
  <2>6. page # "closed"
    BY DEF Pages, Guarded
  <2> QED BY <2>1, <2>4, <2>5, <2>6 DEF Fits, OneShown, AtClosed
<1> QED BY <1>1, <1>2

LEMMA ShowingCalm ==
    ASSUME NEW s, Fits(s), s.page # "closed", NEW page \in Pages, NEW k, Calm(s, k)
    PROVE  Calm(Showing(s, page), k)
<1>1. CASE s.page = page
  BY <1>1 DEF Showing
<1>2. CASE s.page # page
  <2> DEFINE new == Showing(s, page)
             hidden == {Gone(op) : op \in s.ops}
  <2>1. new = [s EXCEPT !.page = page, !.ops = hidden,
                        !.asking = (page = "register"), !.inviteRequired = FALSE]
    BY <1>2 DEF Showing, Gone
  <2>2. \A op \in hidden : \E o \in s.ops : op = Gone(o)
    OBVIOUS
  <2>3. \A o \in s.ops : Gone(o) \in hidden /\ Gone(o).stage = o.stage
                                             /\ Gone(o).user = o.user
    <3>1. s.ops \subseteq Operations
      BY DEF Fits, State
    <3> QED BY <3>1, Hiding
  <2> HIDE DEF hidden, new
  <2>4. new.ops = hidden /\ new.user = s.user /\ new.checking = s.checking
    BY <2>1 DEF Fits, State
  <2>5. hidden # {} => s.ops # {}
    BY <2>2
  <2>6. Checks(s) => Checks(new)
    BY <2>3, <2>4 DEF Checks
  <2>7. \A op \in hidden : new.user = Null /\ (op.stage = "checking" => op.user = k)
    <3> TAKE op \in hidden
    <3>1. PICK o \in s.ops : op = Gone(o)
      BY <2>2
    <3>2. op.stage = o.stage /\ op.user = o.user
      BY <3>1, <2>3
    <3> QED BY <3>2, <2>4 DEF Calm
  <2>8. \A a, b \in hidden : a = b
    BY <2>2 DEF Calm
  <2>9. new.checking # Null => new.checking = k /\ new.user = Null /\ new.ops = {}
    BY <2>4, <2>5 DEF Calm
  <2>10. ~Checks(new) => new.user = k
    BY <2>4, <2>6 DEF Calm
  <2> QED BY <2>4, <2>7, <2>8, <2>9, <2>10 DEF Calm, new
<1> QED BY <1>1, <1>2

----------------------------------------------------------------------------

LEMMA InitIsInvariant == Init => IInv
<1> SUFFICES ASSUME Init PROVE IInv
  OBVIOUS
<1>1. Fits(Closed)
  BY DEF Fits, State, Closed, OneShown, AtClosed
<1>2. Calm(Closed, token)
  BY DEF Calm, Closed
<1>3. Closed \in State
  BY <1>1 DEF Fits
<1> HIDE DEF Closed
<1>4. \A t \in Tabs : tab[t] = Closed
  BY DEF Init
<1>5. tab \in [Tabs -> State]
  BY <1>3 DEF Init
<1> QED BY <1>1, <1>2, <1>4, <1>5 DEF Init, IInv

----------------------------------------------------------------------------
(* One lemma per action. *)

LEMMA Opening == ASSUME IInv, NEW t \in Tabs, OpenTab(t) PROVE IInv'
<1>1. PICK page \in Pages :
        Becomes(t, [Closed EXCEPT !.page = page, !.checking = token, !.loading = (token # Null),
                                  !.asking = (page = "register")])
  BY DEF OpenTab
<1> DEFINE s == [Closed EXCEPT !.page = page, !.checking = token, !.loading = (token # Null),
                               !.asking = (page = "register")]
<1>2. page # "closed"
  BY DEF Pages, Guarded
<1>3. s.page = page /\ s.user = Null /\ s.checking = token /\ s.ops = {}
  BY DEF Closed
<1>4. s \in State
  BY DEF IInv, State, Closed
<1> HIDE DEF s
<1>5. Fits(s)
  BY <1>2, <1>3, <1>4 DEF Fits, OneShown, AtClosed
<1>6. Calm(s, token)
  BY <1>3 DEF Calm, Checks
<1>7. UNCHANGED <<token, registered>> /\ undisturbed' = undisturbed \cup {t} /\ acts' \in 0..MaxActs
  BY DEF OpenTab, Act, IInv
<1>8. Becomes(t, s)
  BY <1>1 DEF s
<1> QED BY <1>5, <1>6, <1>7, <1>8, Replaced DEF IInv

LEMMA Closing == ASSUME IInv, NEW t \in Tabs, CloseTab(t) PROVE IInv'
<1>1. Fits(Closed) /\ Calm(Closed, token)
  BY DEF Fits, State, Closed, OneShown, AtClosed, Calm
<1>2. UNCHANGED <<token, registered, undisturbed>> /\ acts' \in 0..MaxActs
  BY DEF CloseTab, Act, IInv
<1> QED BY <1>1, <1>2, Replaced DEF CloseTab, IInv

LEMMA MountChecked == ASSUME IInv, NEW t \in Tabs, MountCheckAnswers(t) PROVE IInv'
<1> DEFINE yes == [tab[t] EXCEPT !.user = tab[t].checking, !.checking = Null, !.loading = FALSE]
           no  == [tab[t] EXCEPT !.checking = Null, !.loading = FALSE]
<1>1. Fits(tab[t]) /\ tab[t].checking # Null /\ tab[t].page # "closed"
  BY DEF IInv, Fits, AtClosed, MountCheckAnswers
<1>2. Fits(yes) /\ yes.checking = Null /\ yes.user = tab[t].checking /\ yes.ops = tab[t].ops
  BY <1>1 DEF Fits, State, OneShown, AtClosed
<1>3. Fits(no) /\ no.checking = Null /\ no.user = tab[t].user /\ no.ops = tab[t].ops
  BY <1>1 DEF Fits, State, OneShown, AtClosed
<1>4. Calm(tab[t], token) => Calm(yes, token) /\ Calm(no, Null)
  BY <1>1, <1>2, <1>3 DEF Calm
<1>5. UNCHANGED <<registered, acts>> /\ Disturb(t)
  BY DEF MountCheckAnswers
<1>6. t \in undisturbed' => Calm(tab[t], token)
  BY <1>5, Disturbed DEF IInv
<1>7. CASE Becomes(t, yes) /\ UNCHANGED token
  <2> HIDE DEF yes, no
  <2> QED BY <1>2, <1>4, <1>5, <1>6, <1>7, Disturbed, Replaced DEF IInv
<1>8. CASE Becomes(t, no) /\ token' = Null
  <2> HIDE DEF yes, no
  <2> QED BY <1>3, <1>4, <1>5, <1>6, <1>8, Disturbed, Replaced DEF IInv
<1> QED BY <1>7, <1>8 DEF MountCheckAnswers

LEMMA Submitting ==
    ASSUME IInv, NEW t \in Tabs, NEW user \in Users, NEW code \in BOOLEAN,
           NEW stage \in {"registering", "loggingIn"}, tab[t].page # "closed",
           Submit(t, Operation(user, stage, code))
    PROVE  IInv'
<1> DEFINE op == Operation(user, stage, code)
           s  == [tab[t] EXCEPT !.ops = @ \cup {op}]
<1>1. Fits(tab[t]) /\ acts \in 0..MaxActs /\ acts' \in 0..MaxActs
  BY DEF IInv, Submit, Act
<1>2. op \in Operations /\ op.stage = stage
  BY <1>1 DEF Operations, Operation, Stages
<1>3. ~Busy(t) /\ Becomes(t, s) /\ UNCHANGED <<token, registered>>
  BY DEF Submit
<1> HIDE DEF op
<1>4. s \in State /\ s.page # "closed" /\ s.ops = tab[t].ops \cup {op} /\ s.user = tab[t].user
      /\ s.checking = tab[t].checking
  BY <1>1, <1>2 DEF Fits, State
<1> HIDE DEF s
<1>5. \A a \in tab[t].ops : ~a.shown
  BY <1>3 DEF Busy
<1>6. Fits(s)
  BY <1>4, <1>5 DEF Fits, OneShown, AtClosed
<1>7. t \in undisturbed' => tab[t].user = Null /\ tab[t].checking = Null /\ tab[t].ops = {}
                             /\ Calm(tab[t], token)
  BY DEF Submit, IInv
<1>8. t \in undisturbed' => Calm(s, token)
  BY <1>2, <1>4, <1>7 DEF Calm, Checks
<1>9. undisturbed' \subseteq undisturbed
  BY DEF Submit
<1> QED BY <1>1, <1>3, <1>6, <1>8, <1>9, Replaced DEF IInv

LEMMA Informed == ASSUME IInv, NEW t \in Tabs, InfoAnswers(t) PROVE IInv'
<1>1. PICK required \in {FALSE, InviteOnly} :
        Becomes(t, [tab[t] EXCEPT !.asking = FALSE, !.inviteRequired = required])
  BY DEF InfoAnswers
<1> DEFINE s == [tab[t] EXCEPT !.asking = FALSE, !.inviteRequired = required]
<1>2. Fits(tab[t]) /\ required \in BOOLEAN
  BY DEF IInv, SessionAssumption
<1>3. s \in State /\ s.page = tab[t].page /\ s.user = tab[t].user /\ s.checking = tab[t].checking
      /\ s.ops = tab[t].ops
  BY <1>2 DEF Fits, State
<1>4. Becomes(t, s)
  BY <1>1
<1> HIDE DEF s
<1>5. Fits(s)
  BY <1>2, <1>3 DEF Fits, OneShown, AtClosed
<1>6. Calm(tab[t], token) => Calm(s, token)
  BY <1>3 DEF Calm, Checks
<1> QED BY <1>4, <1>5, <1>6, Replaced DEF InfoAnswers, IInv

\* A login or a registration ends, or goes on to its next stage.
LEMMA EndedFits ==
    ASSUME IInv, NEW t \in Tabs, NEW op \in tab[t].ops
    PROVE  /\ Fits(Ended(t, op)) /\ Ended(t, op).page = tab[t].page /\ tab[t].page # "closed"
           /\ Ended(t, op).user = tab[t].user /\ Ended(t, op).checking = tab[t].checking
           /\ Ended(t, op).ops = tab[t].ops \ {op}
<1>1. Fits(tab[t])
  BY DEF IInv
<1>2. Ended(t, op) \in State /\ Ended(t, op).page = tab[t].page /\ Ended(t, op).user = tab[t].user
      /\ Ended(t, op).checking = tab[t].checking /\ Ended(t, op).ops = tab[t].ops \ {op}
  BY <1>1 DEF Ended, Fits, State
<1> QED BY <1>1, <1>2 DEF Fits, OneShown, AtClosed

LEMMA AdvancedFits ==
    ASSUME IInv, NEW t \in Tabs, NEW op \in tab[t].ops, NEW stage \in Stages
    PROVE  LET next == [op EXCEPT !.stage = stage]
           IN  /\ Fits(Advanced(t, op, stage)) /\ next.stage = stage /\ next.user = op.user
               /\ Advanced(t, op, stage).page = tab[t].page /\ tab[t].page # "closed"
               /\ Advanced(t, op, stage).user = tab[t].user
               /\ Advanced(t, op, stage).checking = tab[t].checking
               /\ Advanced(t, op, stage).ops = (tab[t].ops \ {op}) \cup {next}
<1> DEFINE next == [op EXCEPT !.stage = stage]
           s    == Advanced(t, op, stage)
<1>1. Fits(tab[t]) /\ op \in Operations
  BY DEF IInv, Fits, State
<1>2. next \in Operations /\ next.stage = stage /\ next.user = op.user /\ next.shown = op.shown
  BY <1>1 DEF Operations
<1>3. s = [tab[t] EXCEPT !.ops = (@ \ {op}) \cup {next}]
  BY DEF Advanced
<1> HIDE DEF next, s
<1>4. s \in State /\ s.page = tab[t].page /\ s.user = tab[t].user
      /\ s.checking = tab[t].checking /\ s.ops = (tab[t].ops \ {op}) \cup {next}
  BY <1>1, <1>2, <1>3 DEF Fits, State
<1>5. OneShown(s)
  BY <1>1, <1>2, <1>4 DEF Fits, OneShown
<1>6. tab[t].page # "closed"
  BY <1>1 DEF Fits, AtClosed
<1>7. Fits(s)
  BY <1>4, <1>5, <1>6 DEF Fits, AtClosed
<1> QED BY <1>2, <1>4, <1>6, <1>7 DEF next, s

\* An undisturbed tab has no more than one request, and nobody logged in while it lasts.
LEMMA Alone ==
    ASSUME IInv, NEW t \in Tabs, NEW op \in tab[t].ops, t \in undisturbed
    PROVE  /\ tab[t].ops = {op} /\ tab[t].user = Null /\ tab[t].checking = Null
           /\ op.stage = "checking" => op.user = token
           /\ op.stage # "checking" => token = Null
<1>1. Calm(tab[t], token) /\ Fits(tab[t]) /\ tab[t].page # "closed"
  BY DEF IInv, Fits, AtClosed
<1>2. tab[t].ops = {op} /\ tab[t].user = Null /\ tab[t].checking = Null
  BY <1>1 DEF Calm
<1>3. op.stage # "checking" => ~Checks(tab[t])
  BY <1>2 DEF Checks
<1> QED BY <1>1, <1>2, <1>3 DEF Calm

\* A request that ends without a session leaves nothing to wait for.
LEMMA EndedCalm ==
    ASSUME IInv, NEW t \in Tabs, NEW op \in tab[t].ops, t \in undisturbed
    PROVE  Calm(Ended(t, op), Null)
<1>1. Ended(t, op).ops = {} /\ Ended(t, op).user = Null /\ Ended(t, op).checking = Null
  BY EndedFits, Alone
<1> QED BY <1>1 DEF Calm, Checks

LEMMA AdvancedCalm ==
    ASSUME IInv, NEW t \in Tabs, NEW op \in tab[t].ops, t \in undisturbed, NEW stage \in Stages, NEW k,
           stage = "checking" => k = op.user,
           stage # "checking" => k = Null
    PROVE  Calm(Advanced(t, op, stage), k)
<1> DEFINE next == [op EXCEPT !.stage = stage]
           s    == Advanced(t, op, stage)
<1>1. next.stage = stage /\ next.user = op.user /\ s.user = Null /\ s.checking = Null /\ s.ops = {next}
  BY AdvancedFits, Alone
<1> HIDE DEF next, s
<1>2. Checks(s) <=> stage = "checking"
  BY <1>1 DEF Checks
<1>3. Calm(s, k)
  BY <1>1, <1>2 DEF Calm
<1> QED BY <1>3 DEF s

LEMMA Registered == ASSUME IInv, NEW t \in Tabs, RegisterAnswers(t) PROVE IInv'
<1>1. PICK op \in tab[t].ops :
        /\ op.stage = "registering"
        /\ Becomes(t, Advanced(t, op, "loggingIn")) \/ Becomes(t, Ended(t, op))
        /\ registered' \subseteq registered \cup {op.user}
  BY DEF RegisterAnswers
<1>2. UNCHANGED <<token, undisturbed, acts>>
  BY DEF RegisterAnswers
<1>3. registered' \subseteq Users
  BY <1>1 DEF IInv, Fits, State, Operations
<1>4. t \in undisturbed => token = Null
  BY <1>1, Alone
<1>5. CASE Becomes(t, Advanced(t, op, "loggingIn"))
  <2>1. "loggingIn" \in Stages
    BY DEF Stages
  <2>2. Fits(Advanced(t, op, "loggingIn"))
    BY <2>1, AdvancedFits
  <2>3. t \in undisturbed => Calm(Advanced(t, op, "loggingIn"), token)
    BY <2>1, <1>4, AdvancedCalm
  <2> QED BY <1>2, <1>3, <1>5, <2>2, <2>3, Replaced DEF IInv
<1>6. CASE Becomes(t, Ended(t, op))
  <2>1. Fits(Ended(t, op))
    BY EndedFits
  <2>2. t \in undisturbed => Calm(Ended(t, op), token)
    BY <1>4, EndedCalm
  <2> QED BY <1>2, <1>3, <1>6, <2>1, <2>2, Replaced DEF IInv
<1> QED BY <1>1, <1>5, <1>6

LEMMA LoggedIn == ASSUME IInv, NEW t \in Tabs, LoginAnswers(t) PROVE IInv'
<1>1. PICK op \in tab[t].ops :
        /\ op.stage = "loggingIn"
        /\ \/ /\ op.user \in registered
              /\ token' = op.user
              /\ Becomes(t, Advanced(t, op, "checking"))
           \/ /\ Becomes(t, Ended(t, op))
              /\ UNCHANGED token
  BY DEF LoginAnswers
<1>2. UNCHANGED <<registered, acts>> /\ Disturb(t)
  BY DEF LoginAnswers
<1>3. CASE op.user \in registered /\ token' = op.user /\ Becomes(t, Advanced(t, op, "checking"))
  <2>1. "checking" \in Stages
    BY DEF Stages
  <2>2. Fits(Advanced(t, op, "checking"))
    BY <2>1, AdvancedFits
  <2>3. t \in undisturbed' => Calm(Advanced(t, op, "checking"), token')
    BY <2>1, <1>2, <1>3, Disturbed, AdvancedCalm
  <2> QED BY <1>2, <1>3, <2>2, <2>3, Disturbed, Replaced DEF IInv
<1>4. CASE Becomes(t, Ended(t, op)) /\ UNCHANGED token
  <2>1. Fits(Ended(t, op))
    BY EndedFits
  <2>2. t \in undisturbed => Calm(Ended(t, op), token)
    BY <1>1, Alone, EndedCalm
  <2> QED BY <1>2, <1>4, <2>1, <2>2, Disturbed, Replaced DEF IInv
<1> QED BY <1>1, <1>3, <1>4

LEMMA LoginChecked == ASSUME IInv, NEW t \in Tabs, LoginCheckAnswers(t) PROVE IInv'
<1>1. PICK op \in tab[t].ops :
        LET done == [Ended(t, op) EXCEPT !.loading = FALSE]
        IN  /\ op.stage = "checking"
            /\ \/ /\ Becomes(t, Showing([done EXCEPT !.user = op.user], "networth"))
                  /\ UNCHANGED token
               \/ /\ Becomes(t, Showing(done, "networth"))
                  /\ token' = Null
  BY DEF LoginCheckAnswers
<1> DEFINE done == [Ended(t, op) EXCEPT !.loading = FALSE]
           mine == [done EXCEPT !.user = op.user]
<1>2. UNCHANGED <<registered, acts>> /\ Disturb(t)
  BY DEF LoginCheckAnswers
<1>3. "networth" \in Pages /\ op.user \in Users
  BY DEF Pages, Guarded, IInv, Fits, State, Operations
<1>4. /\ Fits(done) /\ done.page # "closed" /\ done.user = tab[t].user
      /\ done.checking = tab[t].checking /\ done.ops = tab[t].ops \ {op}
  <2> DEFINE e == Ended(t, op)
  <2>1. /\ Fits(e) /\ e.page # "closed" /\ e.user = tab[t].user
        /\ e.checking = tab[t].checking /\ e.ops = tab[t].ops \ {op}
    BY EndedFits
  <2> HIDE DEF e
  <2>2. done = [e EXCEPT !.loading = FALSE]
    BY DEF e
  <2> HIDE DEF done
  <2>3. done \in State /\ done.page = e.page /\ done.user = e.user
        /\ done.checking = e.checking /\ done.ops = e.ops
    BY <2>1, <2>2 DEF Fits, State
  <2> QED BY <2>1, <2>3 DEF Fits, OneShown, AtClosed
<1>5. /\ Fits(mine) /\ mine.page # "closed" /\ mine.user = op.user
      /\ mine.checking = done.checking /\ mine.ops = done.ops
  BY <1>3, <1>4 DEF Fits, State, OneShown, AtClosed
<1>6. CASE Becomes(t, Showing(mine, "networth")) /\ UNCHANGED token
  <2> HIDE DEF mine, done
  <2>1. t \in undisturbed => Calm(mine, token)
    BY <1>1, <1>4, <1>5, Alone DEF Calm, Checks
  <2>2. t \in undisturbed => Calm(Showing(mine, "networth"), token)
    BY <2>1, <1>3, <1>5, ShowingCalm
  <2>3. Fits(Showing(mine, "networth"))
    BY <1>3, <1>5, ShowingFits
  <2> QED BY <1>2, <1>6, <2>2, <2>3, Disturbed, Replaced DEF IInv
<1>7. CASE Becomes(t, Showing(done, "networth")) /\ token' = Null
  <2> HIDE DEF mine, done
  <2>1. t \in undisturbed => Calm(done, Null)
    BY <1>4, Alone DEF Calm, Checks
  <2>2. t \in undisturbed => Calm(Showing(done, "networth"), Null)
    BY <2>1, <1>3, <1>4, ShowingCalm
  <2>3. Fits(Showing(done, "networth"))
    BY <1>3, <1>4, ShowingFits
  <2> QED BY <1>2, <1>7, <2>2, <2>3, Disturbed, Replaced DEF IInv
<1> QED BY <1>1, <1>6, <1>7

LEMMA LoggedOut == ASSUME IInv, NEW t \in Tabs, Logout(t) PROVE IInv'
<1> DEFINE s == [tab[t] EXCEPT !.user = Null]
<1>1. /\ Fits(tab[t]) /\ tab[t].user # Null /\ tab[t].page # "closed"
      /\ token' = Null /\ Becomes(t, Showing(s, "login")) /\ Disturb(t)
      /\ UNCHANGED registered /\ acts' \in 0..MaxActs /\ "login" \in Pages
  BY DEF IInv, Logout, Act, Fits, AtClosed, Pages
<1>2. /\ Fits(s) /\ s.page # "closed" /\ s.user = Null
      /\ s.checking = tab[t].checking /\ s.ops = tab[t].ops
  BY <1>1 DEF Fits, State, OneShown, AtClosed
<1> HIDE DEF s
<1>3. t \in undisturbed => Calm(s, Null)
  BY <1>1, <1>2 DEF IInv, Calm, Checks
<1>4. Fits(Showing(s, "login")) /\ (t \in undisturbed => Calm(Showing(s, "login"), Null))
  BY <1>1, <1>2, <1>3, ShowingFits, ShowingCalm
<1> QED BY <1>1, <1>4, Disturbed, Replaced DEF IInv

\* Links and redirects show another page and change nothing else.
LEMMA Moved ==
    ASSUME IInv, NEW t \in Tabs, tab[t].page # "closed", NEW page \in Pages,
           Becomes(t, Showing(tab[t], page)), UNCHANGED <<token, registered, undisturbed>>,
           acts' \in 0..MaxActs
    PROVE  IInv'
<1>1. Fits(Showing(tab[t], page)) /\ (t \in undisturbed => Calm(Showing(tab[t], page), token))
  BY ShowingFits, ShowingCalm DEF IInv
<1> QED BY <1>1, Replaced DEF IInv

LEMMA Linked == ASSUME IInv, NEW t \in Tabs, FollowLink(t) PROVE IInv'
<1>1. PICK page \in Links(t) : Becomes(t, Showing(tab[t], page))
  BY DEF FollowLink
<1>2. page \in Pages
  BY DEF Links, Pages, Guarded
<1> QED BY <1>1, <1>2, Moved DEF FollowLink, Act, IInv

LEMMA Redirected == ASSUME IInv, NEW t \in Tabs, Redirects(t) PROVE IInv'
<1>1. CASE HomeRedirects(t)
  <2>1. PICK page \in {"networth", "login"} : Becomes(t, Showing(tab[t], page))
    BY <1>1 DEF HomeRedirects
  <2> QED BY <1>1, <2>1, Moved DEF HomeRedirects, Pages, Guarded, IInv
<1>2. CASE GuardRedirects(t)
  BY <1>2, Moved DEF GuardRedirects, Pages, Guarded, IInv
<1> QED BY <1>1, <1>2 DEF Redirects

LEMMA NextKeepsInvariant == IInv /\ [Next]_vars => IInv'
<1> SUFFICES ASSUME IInv, [Next]_vars PROVE IInv'
  OBVIOUS
<1>1. CASE UNCHANGED vars
  BY <1>1 DEF vars, IInv, Calm, Checks
<1>2. ASSUME NEW t \in Tabs, SubmitLogin(t) PROVE IInv'
  BY <1>2, Submitting DEF SubmitLogin
<1>3. ASSUME NEW t \in Tabs, SubmitRegistration(t) PROVE IInv'
  <2>1. tab[t].inviteRequired \in BOOLEAN
    BY DEF IInv, State
  <2> QED BY <1>3, <2>1, Submitting DEF SubmitRegistration
<1>4. ASSUME NEW t \in Tabs, Answers(t) PROVE IInv'
  BY <1>4, MountChecked, Informed, Registered, LoggedIn, LoginChecked DEF Answers
<1> QED BY <1>1, <1>2, <1>3, <1>4, Opening, Closing, LoggedOut, Linked, Redirected DEF Next

LEMMA Inductive == Spec => []IInv
  BY InitIsInvariant, NextKeepsInvariant, PTL DEF Spec

\* Every variable keeps its type and no form has two requests under way, for
\* any tabs, users and number of acts (login, register, logout, checkAuth).
THEOREM TypeCorrect == Spec => []TypeOK
<1>1. IInv => TypeOK
  BY DEF IInv, TypeOK, Fits, State, OneShown
<1> QED BY <1>1, Inductive, PTL

\* A tab whose token no other tab changed, and whose visitor did not log in
\* while logged in, shows a user only while that user's token is stored, and
\* once it waits for nothing it shows exactly whom the token names (checkAuth,
\* login, logout).
THEOREM SessionsMatchTokens == Spec => []SessionIsTheTokens
<1>1. IInv => SessionIsTheTokens
  <2> SUFFICES ASSUME IInv, NEW t \in undisturbed, tab[t].page # "closed"
               PROVE  /\ tab[t].user # Null => tab[t].user = token
                      /\ ~Waiting(t) => tab[t].user = token
    BY DEF SessionIsTheTokens
  <2>1. Calm(tab[t], token)
    BY DEF IInv
  <2>2. Waiting(t) <=> Checks(tab[t])
    BY DEF Waiting, Checks
  <2>3. Checks(tab[t]) => tab[t].user = Null
    BY <2>1 DEF Calm, Checks
  <2> QED BY <2>1, <2>2, <2>3 DEF Calm
<1> QED BY <1>1, Inductive, PTL
============================================================================
