------------------------- MODULE InviteRegistration -------------------------
(***************************************************************************)
(* Registration against the users, invites and invite_redemptions tables   *)
(* (backend/api/auth_api.py, backend/database/models.py): each request is  *)
(* one transaction of several statements at READ COMMITTED, requests       *)
(* interleave between statements, and the administrator's SQL of           *)
(* docs/invite-only-registration.md runs beside them.                      *)
(*                                                                         *)
(* What a request has written and not committed is private to it and held  *)
(* under locks: an UPDATE locks the invite's row, an INSERT its user name  *)
(* and e-mail.  A request that needs a lock waits, then looks at the       *)
(* committed row again.  now() is the instant the transaction began.       *)
(***************************************************************************)
EXTENDS Integers, FiniteSets

CONSTANTS
    Requests,       \* POST /register calls
    Invites,        \* rows of the invites table
    None,
    Username, Email, Code,  \* what each request asks for
    InitialMaxUses, InitialExpiry,
    Step,           \* what one "extend" or "max_uses + n" of the SQL adds
    MaxClock, MaxMaxUses, MaxExpiry    \* bounds

ASSUME CodeAssumption == Code \in [Requests -> Invites \cup {None}] /\ None \notin Invites
ASSUME RequestAssumption == None \notin Requests /\ None \notin Int
ASSUME InviteAssumption == /\ InitialMaxUses \in [Invites -> Nat]
                           /\ InitialExpiry \in [Invites -> Int \cup {None}]
ASSUME StepAssumption == Step \in Nat \ {0}

VARIABLES
    clock,
    inviteOnly,  \* the INVITE_ONLY setting the process was started with
    pc,          \* where each request is
    began,       \* its transaction's now()
    holder,      \* per invite: the request whose UPDATE locks the row, or None
    useCount, maxUses, expiresAt, revoked,   \* committed invites
    users,       \* committed users, named by the request that made them
    redemptions  \* committed <<invite, user>> rows

inviteVars == <<inviteOnly, holder, useCount, maxUses, expiresAt, revoked>>
vars == <<clock, pc, began, inviteVars, users, redemptions>>

Ended == {"rejected", "failed", "registered"}

Init ==
    /\ clock = 0 /\ inviteOnly \in BOOLEAN
    /\ pc = [r \in Requests |-> "start"]
    /\ began = [r \in Requests |-> 0]
    /\ holder = [i \in Invites |-> None]
    /\ useCount = [i \in Invites |-> 0]
    /\ maxUses = InitialMaxUses /\ expiresAt = InitialExpiry
    /\ revoked = [i \in Invites |-> FALSE]
    /\ users = {} /\ redemptions = {}

To(r, label) == pc' = [pc EXCEPT ![r] = label]

(* The first SELECT opens the transaction.                                 *)
CheckUsername(r) ==
    /\ pc[r] = "start"
    /\ began' = [began EXCEPT ![r] = clock]
    /\ To(r, IF \E u \in users : Username[u] = Username[r] THEN "rejected" ELSE "email")
    /\ UNCHANGED <<clock, inviteVars, users, redemptions>>

CheckEmail(r) ==
    /\ pc[r] = "email"
    /\ To(r, IF \E u \in users : Email[u] = Email[r] THEN "rejected"
             ELSE IF inviteOnly THEN "invite" ELSE "insert")
    /\ UNCHANGED <<clock, began, inviteVars, users, redemptions>>

Expired(i, now) == expiresAt[i] # None /\ expiresAt[i] <= now
Valid_ExpiryUnchecked(i, now) == ~revoked[i] /\ useCount[i] < maxUses[i]
Valid_OffByOne(i, now) ==
    ~revoked[i] /\ useCount[i] <= maxUses[i] /\ ~Expired(i, now)
Valid(i, now) == ~revoked[i] /\ useCount[i] < maxUses[i] /\ ~Expired(i, now)

(* UPDATE invites ... WHERE valid RETURNING id: one statement.             *)
ConsumeInvite_Unlocked(r) ==
    /\ pc[r] = "invite"
    /\ Code[r] \in Invites
    /\ Valid(Code[r], began[r])
    /\ To(r, "insert")
    /\ UNCHANGED <<clock, began, inviteVars, users, redemptions>>
ConsumeInvite(r) ==
    /\ pc[r] = "invite"
    /\ Code[r] \in Invites
    /\ holder[Code[r]] = None
    /\ Valid(Code[r], began[r])
    /\ holder' = [holder EXCEPT ![Code[r]] = r]
    /\ To(r, "insert")
    /\ UNCHANGED <<clock, inviteOnly, began, useCount, maxUses, expiresAt, revoked, users, redemptions>>

RefuseInvite(r) ==
    /\ pc[r] = "invite"
    /\ Code[r] \in Invites => ~Valid(Code[r], began[r])
    /\ To(r, "rejected")
    /\ UNCHANGED <<clock, began, inviteVars, users, redemptions>>

Clashes(r, u) == u # r /\ (Username[u] = Username[r] \/ Email[u] = Email[r])
Release(r) == [i \in Invites |-> IF holder[i] = r THEN None ELSE holder[i]]
Inserted == {r \in Requests : pc[r] \in {"redeem", "commit"}}

(* INSERT INTO users: an uncommitted insert of the same name or e-mail is  *)
(* waited for, a committed one raises IntegrityError and rolls back.       *)
InsertUser_NoUniqueIndex(r) ==
    /\ pc[r] = "insert"
    /\ To(r, "redeem")
    /\ UNCHANGED <<clock, began, inviteVars, users, redemptions>>
InsertUser(r) ==
    /\ pc[r] = "insert"
    /\ ~\E u \in Inserted \cup users : Clashes(r, u)
    /\ To(r, "redeem")
    /\ UNCHANGED <<clock, began, inviteVars, users, redemptions>>

DuplicateUser(r) ==
    /\ pc[r] = "insert"
    /\ \E u \in users : Clashes(r, u)
    /\ holder' = Release(r)
    /\ To(r, "failed")
    /\ UNCHANGED <<clock, inviteOnly, began, useCount, maxUses, expiresAt, revoked, users, redemptions>>

(* session.add(InviteRedemption) is written by the flush of commit.        *)
AddRedemption(r) ==
    /\ pc[r] = "redeem"
    /\ To(r, "commit")
    /\ UNCHANGED <<clock, began, inviteVars, users, redemptions>>

Commit_IgnoresSetting(r) ==
    /\ pc[r] = "commit"
    /\ users' = users \cup {r}
    /\ redemptions' = redemptions \cup {<<Code[r], r>>}
    /\ holder' = Release(r)
    /\ To(r, "registered")
    /\ UNCHANGED <<clock, inviteOnly, began, useCount, maxUses, expiresAt, revoked>>
Commit(r) ==
    /\ pc[r] = "commit"
    /\ users' = users \cup {r}
    /\ IF inviteOnly
       THEN /\ redemptions' = redemptions \cup {<<Code[r], r>>}
            /\ useCount' = [useCount EXCEPT ![Code[r]] = @ + 1]
       ELSE UNCHANGED <<redemptions, useCount>>
    /\ holder' = Release(r)
    /\ To(r, "registered")
    /\ UNCHANGED <<clock, inviteOnly, began, maxUses, expiresAt, revoked>>

(* The request dies before its commit (an exception, a dropped connection, *)
(* the server going down): the session is closed and nothing remains.      *)
Abort_KeepsInvite(r) ==
    /\ pc[r] \notin Ended
    /\ holder' = Release(r)
    /\ useCount' = [i \in Invites |-> IF holder[i] = r THEN useCount[i] + 1 ELSE useCount[i]]
    /\ To(r, "failed")
    /\ UNCHANGED <<clock, inviteOnly, began, maxUses, expiresAt, revoked, users, redemptions>>
Abort_KeepsLock(r) ==
    /\ pc[r] \notin Ended
    /\ To(r, "failed")
    /\ UNCHANGED <<clock, began, inviteVars, users, redemptions>>
Abort(r) ==
    /\ pc[r] \notin Ended
    /\ holder' = Release(r)
    /\ To(r, "failed")
    /\ UNCHANGED <<clock, inviteOnly, began, useCount, maxUses, expiresAt, revoked, users, redemptions>>

(* The administrator's SQL: each UPDATE waits for the row.                 *)
Revoke_NoWait(i) ==
    /\ ~revoked[i]
    /\ revoked' = [revoked EXCEPT ![i] = TRUE]
    /\ UNCHANGED <<clock, inviteOnly, pc, began, holder, useCount, maxUses, expiresAt, users, redemptions>>
Revoke(i) ==
    /\ holder[i] = None /\ ~revoked[i]
    /\ revoked' = [revoked EXCEPT ![i] = TRUE]
    /\ UNCHANGED <<clock, inviteOnly, pc, began, holder, useCount, maxUses, expiresAt, users, redemptions>>

Extend(i) ==
    /\ holder[i] = None
    /\ clock + Step <= MaxExpiry
    /\ expiresAt' = [expiresAt EXCEPT ![i] = clock + Step]
    /\ UNCHANGED <<clock, inviteOnly, pc, began, holder, useCount, maxUses, revoked, users, redemptions>>

AddUses_Subtracts(i) ==
    /\ holder[i] = None
    /\ maxUses[i] + Step <= MaxMaxUses
    /\ maxUses' = [maxUses EXCEPT ![i] = @ - Step]
    /\ UNCHANGED <<clock, inviteOnly, pc, began, holder, useCount, expiresAt, revoked, users, redemptions>>
AddUses(i) ==
    /\ holder[i] = None
    /\ maxUses[i] + Step <= MaxMaxUses
    /\ maxUses' = [maxUses EXCEPT ![i] = @ + Step]
    /\ UNCHANGED <<clock, inviteOnly, pc, began, holder, useCount, expiresAt, revoked, users, redemptions>>

Tick == /\ clock < MaxClock
        /\ clock' = clock + 1
        /\ UNCHANGED <<pc, began, inviteVars, users, redemptions>>

Server(r) ==
    \/ CheckUsername(r) \/ CheckEmail(r) \/ ConsumeInvite(r) \/ RefuseInvite(r)
    \/ InsertUser(r) \/ DuplicateUser(r) \/ AddRedemption(r) \/ Commit(r)

Next ==
    \/ \E r \in Requests : Server(r) \/ Abort(r)
    \/ \E i \in Invites : Revoke(i) \/ Extend(i) \/ AddUses(i)
    \/ Tick

Spec == Init /\ [][Next]_vars
(* The event loop and the database keep serving a request that can go on.  *)
FairSpec == Spec /\ \A r \in Requests : WF_vars(Server(r))
-----------------------------------------------------------------------------
RedeemedWith(i) == {u \in Requests : <<i, u>> \in redemptions}

TypeOK ==
    /\ clock \in Nat /\ inviteOnly \in BOOLEAN
    /\ pc \in [Requests -> {"start", "email", "invite", "insert", "redeem", "commit"}
                               \cup Ended]
    /\ began \in [Requests -> Nat]
    /\ holder \in [Invites -> Requests \cup {None}]
    /\ useCount \in [Invites -> Nat] /\ maxUses \in [Invites -> Nat]
    /\ expiresAt \in [Invites -> Int \cup {None}]
    /\ revoked \in [Invites -> BOOLEAN]
    /\ users \subseteq Requests
    /\ redemptions \subseteq Invites \X Requests

(* use_count is the number of users who registered with the invite: a      *)
(* registration that fails at any statement does not use it up, and no     *)
(* redemption goes uncounted (auth_api.py:91-109, 159-163).                *)
UsesCounted == \A i \in Invites : useCount[i] = Cardinality(RedeemedWith(i))

(* "Two people cannot use the last slot at once" (docs/invite-only-        *)
(* registration.md:11), with the check and the commit several statements   *)
(* apart.                                                                  *)
NeverOversubscribed == \A i \in Invites : Cardinality(RedeemedWith(i)) <= maxUses[i]

(* In invite-only mode every user has redeemed exactly one invite, in open *)
(* mode none (auth_api.py:147, 161-163).                                   *)
UsersMatchRedemptions ==
    \A u \in Requests :
        Cardinality({i \in Invites : <<i, u>> \in redemptions})
            = IF inviteOnly /\ u \in users THEN 1 ELSE 0

(* User names and e-mails stay unique although they are checked statements *)
(* before the insert (auth_api.py:129-145, 159-160).                       *)
IdentitiesUnique == \A u, v \in users : ~Clashes(u, v)

(* Nobody registers with an invite that had expired when the transaction   *)
(* began, although the expiry may be moved until the very commit           *)
(* (auth_api.py:97-102, docs/invite-only-registration.md:43).              *)
RedeemedBeforeExpiry ==
    [][\A i \in Invites : \A u \in RedeemedWith(i)' \ RedeemedWith(i) :
          ~Expired(i, began[u])]_vars

(* Once a revocation is committed nobody else registers with the invite:   *)
(* the UPDATE waits for registrations under way, and they for it           *)
(* (docs/invite-only-registration.md:11, 41).                              *)
NoRedemptionAfterRevocation ==
    [][\A i \in Invites : revoked[i] => RedeemedWith(i)' = RedeemedWith(i)]_vars

(* Every registration that starts is answered: no two of them wait for     *)
(* each other's rows for ever.                                             *)
EveryRegistrationEnds ==
    \A r \in Requests : (pc[r] = "email") ~> (pc[r] \in Ended)

(* The abstract invites: a member is a request whose redemption is         *)
(* committed.                                                              *)
Slots == INSTANCE InviteSlots WITH
    People <- Requests, InitialSlots <- InitialMaxUses,
    members <- [i \in Invites |-> RedeemedWith(i)],
    slots <- maxUses, withdrawn <- revoked

(* Registration implements the one-step promise of InviteSlots: statements,*)
(* locks and rollbacks never show (docs/invite-only-registration.md:11-12).*)
ImplementsSlots == Slots!Spec
=============================================================================
