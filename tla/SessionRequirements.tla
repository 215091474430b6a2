------------------------ MODULE SessionRequirements ------------------------
(***************************************************************************)
(* What the tabs of a browser may rely on.                                 *)
(***************************************************************************)
EXTENDS AuthSession

Stages == {"registering", "loggingIn", "checking"}

Operations == [id : 0..MaxActs, user : Users, stage : Stages, code : BOOLEAN, shown : BOOLEAN]

\* The types of the storage and of the tabs; a form shown has at most one
\* request under way.
TypeOK ==
    /\ registered \subseteq Users
    /\ token \in Users \cup {Null}
    /\ tab \in [Tabs -> [page : Pages \cup {"closed"}, user : Users \cup {Null}, loading : BOOLEAN,
                         checking : Users \cup {Null}, ops : SUBSET Operations,
                         asking : BOOLEAN, inviteRequired : BOOLEAN]]
    /\ \A t \in Tabs : \A a, b \in tab[t].ops : a.shown /\ b.shown => a = b
    /\ undisturbed \subseteq Tabs
    /\ acts \in 0..MaxActs

Waiting(t) == tab[t].checking # Null \/ \E op \in tab[t].ops : op.stage = "checking"

\* A tab shows a user only while that user's token is the stored one, so its
\* requests go out in the name of the user it shows, and when it waits for
\* nothing it shows exactly whom the token names.  This is what the code
\* keeps as long as no other tab changes the token and the visitor does not
\* log in while logged in or while a request is under way; checkAuth removes
\* a token it did not read and never clears the user it replaces, so neither
\* condition can be dropped (checkAuth, login, logout).
SessionIsTheTokens ==
    \A t \in undisturbed :
        tab[t].page # "closed" =>
          /\ tab[t].user # Null => tab[t].user = token
          /\ ~Waiting(t) => tab[t].user = token

Settled(t) ==
    \/ tab[t].page \in {"closed", "login", "register"} /\ tab[t].ops = {}
    \/ ShowsContent(t)

\* When the visitors stop acting every tab comes to rest on a form, or on
\* content it shows: no page says "Loading..." for ever, no form stays
\* disabled, and the redirects of the guards, of the home page and of login
\* do not chase each other (the finally clauses, the useEffect redirects).
TabsSettle == \A t \in Tabs : <>[]Settled(t)
============================================================================
