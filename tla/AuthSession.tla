---------------------------- MODULE AuthSession ----------------------------
(***************************************************************************)
(* The session of a browser (frontend/src/contexts/AuthContext.tsx, the    *)
(* pages that log in, register and guard, and the navigation bar).  The    *)
(* token lies in the storage all tabs share, what a tab believes lies in   *)
(* its own state, and every request of a tab answers when it likes, after  *)
(* its visitor may have moved on, logged out or logged in again.  A token  *)
(* is identified with the user it was issued to.                           *)
(***************************************************************************)
EXTENDS Integers, FiniteSets

CONSTANTS
    Tabs, Users,
    Null,           \* no token, no user
    InviteOnly,     \* the server's invite_only setting
    MaxActs         \* bound on the acts of visitors in one behaviour

ASSUME SessionAssumption ==
    /\ Null \notin Users
    /\ InviteOnly \in BOOLEAN
    /\ MaxActs \in Nat

VARIABLES
    token,          \* localStorage "token"
    registered,     \* the users the server knows
    tab,            \* [Tabs -> what the tab shows, believes and waits for]
    undisturbed,    \* tabs whose session nobody else touched, see Disturb
    acts            \* acts of visitors so far

vars == <<token, registered, tab, undisturbed, acts>>

Guarded == {"networth", "onboarding", "ingestion-test"}

Pages == Guarded \cup {"home", "login", "register"}

Closed ==
    [page |-> "closed", user |-> Null, loading |-> FALSE, checking |-> Null,
     ops |-> {}, asking |-> FALSE, inviteRequired |-> FALSE]

\* A login or a registration under way; shown: its form is still on the screen.
Operation(user, stage, code) ==
    [id |-> acts, user |-> user, stage |-> stage, code |-> code, shown |-> TRUE]

Busy(t) == \E op \in tab[t].ops : op.shown

\* What a guarded page renders.
ShowsContent(t) == tab[t].page \in Guarded /\ ~tab[t].loading /\ tab[t].user # Null

\* Another page replaces this one: the state of its form is lost, what its
\* requests will do to the session is not.
Showing(state, page) ==
    IF state.page = page THEN state
    ELSE [state EXCEPT !.page = page,
                       !.ops = {[op EXCEPT !.shown = FALSE] : op \in @},
                       !.asking = (page = "register"),
                       !.inviteRequired = FALSE]

Becomes(t, state) == tab' = [tab EXCEPT ![t] = state]

Act == acts < MaxActs /\ acts' = acts + 1

\* Bookkeeping: the token changed under the other tabs.
Disturb(t) == undisturbed' = IF token' = token THEN undisturbed ELSE undisturbed \cap {t}

Init ==
    /\ registered \in SUBSET Users
    /\ token \in registered \cup {Null}
    /\ tab = [t \in Tabs |-> Closed]
    /\ undisturbed = Tabs
    /\ acts = 0

----------------------------------------------------------------------------
(* Loading a page and checking the stored token *)

\* AuthProvider mounts: without a token the check ends at once.
OpenTab(t) ==
    /\ tab[t].page = "closed"
    /\ Act
    /\ \E page \in Pages :
         Becomes(t, [Closed EXCEPT !.page = page, !.checking = token, !.loading = (token # Null),
                                   !.asking = (page = "register")])
    /\ undisturbed' = undisturbed \cup {t}
    /\ UNCHANGED <<token, registered>>

\* Closing or reloading: requests under way are abandoned.
CloseTab(t) ==
    /\ tab[t].page # "closed"
    /\ Act
    /\ Becomes(t, Closed)
    /\ UNCHANGED <<token, registered, undisturbed>>

MountCheckAnswers_LoadingOnError(t) ==
    /\ tab[t].checking # Null
    /\ \/ /\ Becomes(t, [tab[t] EXCEPT !.user = tab[t].checking, !.checking = Null, !.loading = FALSE])
          /\ UNCHANGED token
       \/ /\ Becomes(t, [tab[t] EXCEPT !.checking = Null])
          /\ token' = Null
    /\ Disturb(t)
    /\ UNCHANGED <<registered, acts>>
\* The answer of /auth/me: the user, or anything else, which costs whatever
\* token is stored by now.
MountCheckAnswers(t) ==
    /\ tab[t].checking # Null
    /\ \/ /\ Becomes(t, [tab[t] EXCEPT !.user = tab[t].checking, !.checking = Null, !.loading = FALSE])
          /\ UNCHANGED token
       \/ /\ Becomes(t, [tab[t] EXCEPT !.checking = Null, !.loading = FALSE])
          /\ token' = Null
    /\ Disturb(t)
    /\ UNCHANGED <<registered, acts>>

----------------------------------------------------------------------------
(* Login and registration *)

Submit_NeverDisabled(t, op) ==
    /\ Act
    /\ Becomes(t, [tab[t] EXCEPT !.ops = @ \cup {op}])
    /\ undisturbed' = undisturbed \ {t}
    /\ UNCHANGED <<token, registered>>
Submit(t, op) ==
    /\ ~Busy(t)
    /\ Act
    /\ Becomes(t, [tab[t] EXCEPT !.ops = @ \cup {op}])
    /\ undisturbed' = IF tab[t].user = Null /\ tab[t].checking = Null /\ tab[t].ops = {}
                      THEN undisturbed ELSE undisturbed \ {t}
    /\ UNCHANGED <<token, registered>>

SubmitLogin(t) ==
    /\ tab[t].page = "login"
    /\ \E user \in Users : Submit(t, Operation(user, "loggingIn", FALSE))

\* The code is asked for and sent only where the server said it is required.
SubmitRegistration(t) ==
    /\ tab[t].page = "register"
    /\ \E user \in Users : Submit(t, Operation(user, "registering", tab[t].inviteRequired))

\* The registration form asks the server whether it needs a code; an error is a no.
InfoAnswers(t) ==
    /\ tab[t].asking
    /\ \E required \in {FALSE, InviteOnly} :
         Becomes(t, [tab[t] EXCEPT !.asking = FALSE, !.inviteRequired = required])
    /\ UNCHANGED <<token, registered, undisturbed, acts>>

Advanced(t, op, stage) == [tab[t] EXCEPT !.ops = (@ \ {op}) \cup {[op EXCEPT !.stage = stage]}]

Ended(t, op) == [tab[t] EXCEPT !.ops = @ \ {op}]

\* The account is made, or made and the answer lost, or refused.
RegisterAnswers(t) ==
    /\ \E op \in tab[t].ops :
         /\ op.stage = "registering"
         /\ \/ /\ op.user \notin registered /\ (InviteOnly => op.code)
               /\ registered' = registered \cup {op.user}
               /\ Becomes(t, Advanced(t, op, "loggingIn")) \/ Becomes(t, Ended(t, op))
            \/ /\ Becomes(t, Ended(t, op))
               /\ UNCHANGED registered
    /\ UNCHANGED <<token, undisturbed, acts>>

\* The token is stored and checked at once.
LoginAnswers(t) ==
    /\ \E op \in tab[t].ops :
         /\ op.stage = "loggingIn"
         /\ \/ /\ op.user \in registered
               /\ token' = op.user
               /\ Becomes(t, Advanced(t, op, "checking"))
            \/ /\ Becomes(t, Ended(t, op))
               /\ UNCHANGED token
    /\ Disturb(t)
    /\ UNCHANGED <<registered, acts>>

\* After the check, whatever it said, the dashboard is shown.
LoginCheckAnswers(t) ==
    /\ \E op \in tab[t].ops :
         LET done == [Ended(t, op) EXCEPT !.loading = FALSE]
         IN  /\ op.stage = "checking"
             /\ \/ /\ Becomes(t, Showing([done EXCEPT !.user = op.user], "networth"))
                   /\ UNCHANGED token
                \/ /\ Becomes(t, Showing(done, "networth"))
                   /\ token' = Null
    /\ Disturb(t)
    /\ UNCHANGED <<registered, acts>>

Logout_KeepsToken(t) ==
    /\ tab[t].user # Null
    /\ Act
    /\ Becomes(t, Showing([tab[t] EXCEPT !.user = Null], "login"))
    /\ UNCHANGED <<token, registered, undisturbed>>
Logout(t) ==
    /\ tab[t].user # Null
    /\ Act
    /\ token' = Null
    /\ Becomes(t, Showing([tab[t] EXCEPT !.user = Null], "login"))
    /\ Disturb(t)
    /\ UNCHANGED registered

----------------------------------------------------------------------------
(* Navigation: links, and the effects of the pages that redirect *)

Links(t) ==
    {"home"} \cup (IF tab[t].user # Null THEN {"networth"} ELSE {})
             \cup (CASE tab[t].page = "login"    -> {"register"}
                     [] tab[t].page = "register" -> {"login"}
                     [] OTHER                    -> {})

FollowLink(t) ==
    /\ tab[t].page # "closed"
    /\ Act
    /\ \E page \in Links(t) : Becomes(t, Showing(tab[t], page))
    /\ UNCHANGED <<token, registered, undisturbed>>

HomeRedirects(t) ==
    /\ tab[t].page = "home" /\ ~tab[t].loading
    /\ Becomes(t, Showing(tab[t], IF tab[t].user # Null THEN "networth" ELSE "login"))
    /\ UNCHANGED <<token, registered, undisturbed, acts>>

GuardRedirects(t) ==
    /\ tab[t].page \in Guarded /\ ~tab[t].loading /\ tab[t].user = Null
    /\ Becomes(t, Showing(tab[t], "login"))
    /\ UNCHANGED <<token, registered, undisturbed, acts>>

\* What happens by itself: requests answer and effects run.
Answers(t) ==
    MountCheckAnswers(t) \/ InfoAnswers(t) \/ RegisterAnswers(t) \/ LoginAnswers(t) \/ LoginCheckAnswers(t)

Redirects(t) == HomeRedirects(t) \/ GuardRedirects(t)

Next ==
    \E t \in Tabs :
        \/ OpenTab(t) \/ CloseTab(t) \/ SubmitLogin(t) \/ SubmitRegistration(t)
        \/ Logout(t) \/ FollowLink(t) \/ Answers(t) \/ Redirects(t)

\* A browser ends every request, with an answer or an error, and runs every effect.
Fairness ==
    \A t \in Tabs :
        /\ WF_vars(MountCheckAnswers(t)) /\ WF_vars(InfoAnswers(t)) /\ WF_vars(RegisterAnswers(t))
        /\ WF_vars(LoginAnswers(t)) /\ WF_vars(LoginCheckAnswers(t)) /\ WF_vars(Redirects(t))

Spec == Init /\ [][Next]_vars /\ Fairness
============================================================================
