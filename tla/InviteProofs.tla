---------------------------- MODULE InviteProofs ----------------------------
(***************************************************************************)
(* Proofs about InviteRegistration for any number of requests and invites, *)
(* any limits and any expiries, the administrator's changes included.      *)
(*                                                                         *)
(* The argument: a request that has consumed an invite holds its row until *)
(* it ends, nobody else may change the row meanwhile, so what the UPDATE   *)
(* checked is still true when the redemption is committed; and the use     *)
(* count moves together with the redemptions it counts.                    *)
(***************************************************************************)
EXTENDS InviteRegistration, FiniteSetTheorems, TLAPS

Working == {"insert", "redeem", "commit"}

HolderWorks ==
    \A i \in Invites : \A r \in Requests :
        holder[i] = r => inviteOnly /\ pc[r] \in Working /\ Code[r] = i
WorkerHolds ==
    \A r \in Requests : inviteOnly /\ pc[r] \in Working =>
        Code[r] \in Invites /\ holder[Code[r]] = r /\ Valid(Code[r], began[r])
AskedInOnlyMode == \A r \in Requests : pc[r] = "invite" => inviteOnly
LockInv == HolderWorks /\ WorkerHolds /\ AskedInOnlyMode

UsersRegistered == \A r \in Requests : r \in users <=> pc[r] = "registered"
NoClash == \A u, v \in Inserted \cup users : ~Clashes(u, v)
UserInv == UsersRegistered /\ NoClash

RedeemersAreUsers ==
    \A i \in Invites : \A u \in Requests :
        <<i, u>> \in redemptions <=> inviteOnly /\ u \in users /\ Code[u] = i
UsersHadCodes == \A u \in users : inviteOnly => Code[u] \in Invites
Counted ==
    \A i \in Invites : /\ IsFiniteSet(RedeemedWith(i))
                       /\ useCount[i] = Cardinality(RedeemedWith(i))
                       /\ useCount[i] <= maxUses[i]
CountInv == RedeemersAreUsers /\ UsersHadCodes /\ Counted

IInv == TypeOK /\ LockInv /\ UserInv /\ CountInv
-----------------------------------------------------------------------------
(* Every variable keeps its type; a commit only redeems an invite that     *)
(* exists.                                                                 *)
LEMMA TypeStep == TypeOK /\ LockInv /\ [Next]_vars => TypeOK'
<1> SUFFICES ASSUME TypeOK, LockInv, [Next]_vars PROVE TypeOK'
    OBVIOUS
<1> USE StepAssumption, CodeAssumption DEF TypeOK, Ended
<1>1. ASSUME NEW r \in Requests, Server(r) \/ Abort(r) PROVE TypeOK'
  <2>1. CASE CheckUsername(r) BY <2>1 DEF CheckUsername, To, inviteVars
  <2>2. CASE CheckEmail(r) BY <2>2 DEF CheckEmail, To, inviteVars
  <2>3. CASE ConsumeInvite(r) BY <2>3 DEF ConsumeInvite, To
  <2>4. CASE RefuseInvite(r) BY <2>4 DEF RefuseInvite, To, inviteVars
  <2>5. CASE InsertUser(r) BY <2>5 DEF InsertUser, To, inviteVars
  <2>6. CASE DuplicateUser(r) BY <2>6 DEF DuplicateUser, To, Release
  <2>7. CASE AddRedemption(r) BY <2>7 DEF AddRedemption, To, inviteVars
  <2>8. CASE Commit(r)
    <3>1. inviteOnly => Code[r] \in Invites
      BY <2>8 DEF Commit, LockInv, WorkerHolds, Working
    <3>2. redemptions' \subseteq Invites \X Requests
      BY <2>8, <3>1 DEF Commit
    <3>3. useCount' \in [Invites -> Nat]
      BY <2>8, <3>1 DEF Commit
    <3>4. pc' \in [Requests -> {"start", "email", "invite", "insert", "redeem", "commit"}
                                  \cup Ended]
      BY <2>8 DEF Commit, To
    <3>5. holder' \in [Invites -> Requests \cup {None}]
      BY <2>8 DEF Commit, Release
    <3> QED BY <2>8, <3>2, <3>3, <3>4, <3>5 DEF Commit
  <2>9. CASE Abort(r) BY <2>9 DEF Abort, To, Release
  <2> QED BY <1>1, <2>1, <2>2, <2>3, <2>4, <2>5, <2>6, <2>7, <2>8, <2>9 DEF Server
<1>2. ASSUME NEW i \in Invites, Revoke(i) \/ Extend(i) \/ AddUses(i) PROVE TypeOK'
  <2>1. CASE Revoke(i) BY <2>1 DEF Revoke
  <2>2. CASE Extend(i)
    <3>1. clock + Step \in Int
      OBVIOUS
    <3> QED BY <2>2, <3>1 DEF Extend
  <2>3. CASE AddUses(i) BY <2>3 DEF AddUses
  <2> QED BY <1>2, <2>1, <2>2, <2>3
<1>3. CASE Tick BY <1>3 DEF Tick, inviteVars
<1>4. CASE UNCHANGED vars BY <1>4 DEF vars, inviteVars
<1> QED BY <1>1, <1>2, <1>3, <1>4 DEF Next

(* The row of an invite is locked exactly by the requests that consumed it *)
(* and are still at work, and what they checked cannot change under them.  *)
LEMMA LockStep == TypeOK /\ LockInv /\ [Next]_vars => LockInv'
<1> SUFFICES ASSUME TypeOK, LockInv, [Next]_vars PROVE LockInv'
    OBVIOUS
<1> USE CodeAssumption, RequestAssumption
        DEF TypeOK, LockInv, HolderWorks, WorkerHolds, AskedInOnlyMode, Working, Valid, Expired
<1>1. ASSUME NEW r \in Requests, Server(r) \/ Abort(r) PROVE LockInv'
  <2>1. CASE CheckUsername(r) BY <2>1 DEF CheckUsername, To, inviteVars
  <2>2. CASE CheckEmail(r) BY <2>2 DEF CheckEmail, To, inviteVars
  <2>3. CASE ConsumeInvite(r) BY <2>3 DEF ConsumeInvite, To
  <2>4. CASE RefuseInvite(r) BY <2>4 DEF RefuseInvite, To, inviteVars
  <2>5. CASE InsertUser(r) BY <2>5 DEF InsertUser, To, inviteVars
  <2>6. CASE DuplicateUser(r) BY <2>6 DEF DuplicateUser, To, Release
  <2>7. CASE AddRedemption(r) BY <2>7 DEF AddRedemption, To, inviteVars
  <2>8. CASE Commit(r) BY <2>8 DEF Commit, To, Release
  <2>9. CASE Abort(r) BY <2>9 DEF Abort, To, Release
  <2> QED BY <1>1, <2>1, <2>2, <2>3, <2>4, <2>5, <2>6, <2>7, <2>8, <2>9 DEF Server
<1>2. ASSUME NEW i \in Invites, Revoke(i) \/ Extend(i) \/ AddUses(i) PROVE LockInv'
  BY <1>2, StepAssumption DEF Revoke, Extend, AddUses
<1>3. CASE Tick BY <1>3 DEF Tick, inviteVars
<1>4. CASE UNCHANGED vars BY <1>4 DEF vars, inviteVars
<1> QED BY <1>1, <1>2, <1>3, <1>4 DEF Next

(* Users are the requests that registered, and no two of them, nor of the  *)
(* inserts still uncommitted, share a user name or an e-mail.              *)
LEMMA UserStep == TypeOK /\ UserInv /\ [Next]_vars => UserInv'
<1> SUFFICES ASSUME TypeOK, UserInv, [Next]_vars PROVE UserInv'
    OBVIOUS
<1> USE DEF TypeOK, UserInv, UsersRegistered, NoClash, Inserted, Clashes
<1>1. ASSUME NEW r \in Requests, Server(r) \/ Abort(r) PROVE UserInv'
  <2>1. CASE CheckUsername(r) BY <2>1 DEF CheckUsername, To
  <2>2. CASE CheckEmail(r) BY <2>2 DEF CheckEmail, To
  <2>3. CASE ConsumeInvite(r) BY <2>3 DEF ConsumeInvite, To
  <2>4. CASE RefuseInvite(r) BY <2>4 DEF RefuseInvite, To
  <2>5. CASE InsertUser(r) BY <2>5 DEF InsertUser, To
  <2>6. CASE DuplicateUser(r) BY <2>6 DEF DuplicateUser, To
  <2>7. CASE AddRedemption(r) BY <2>7 DEF AddRedemption, To
  <2>8. CASE Commit(r) BY <2>8 DEF Commit, To
  <2>9. CASE Abort(r) BY <2>9 DEF Abort, To, Ended
  <2> QED BY <1>1, <2>1, <2>2, <2>3, <2>4, <2>5, <2>6, <2>7, <2>8, <2>9 DEF Server
<1>2. ASSUME NEW i \in Invites, Revoke(i) \/ Extend(i) \/ AddUses(i) PROVE UserInv'
  BY <1>2 DEF Revoke, Extend, AddUses
<1>3. CASE Tick BY <1>3 DEF Tick
<1>4. CASE UNCHANGED vars BY <1>4 DEF vars
<1> QED BY <1>1, <1>2, <1>3, <1>4 DEF Next
-----------------------------------------------------------------------------
(* A step redeems at most one invite, that of the request that commits,    *)
(* and only one that is valid for it at that very moment.                  *)
LEMMA CommitRedeems ==
    ASSUME IInv, NEW r \in Requests, Commit(r), inviteOnly
    PROVE  /\ Code[r] \in Invites /\ Valid(Code[r], began[r])
           /\ \A i \in Invites : r \notin RedeemedWith(i)
           /\ \A i \in Invites : RedeemedWith(i)' =
                  IF i = Code[r] THEN RedeemedWith(i) \cup {r} ELSE RedeemedWith(i)
<1>1. Code[r] \in Invites /\ Valid(Code[r], began[r])
  BY DEF Commit, IInv, LockInv, WorkerHolds, Working
<1>2. r \notin users
  BY DEF Commit, IInv, UserInv, UsersRegistered
<1>3. \A i \in Invites : r \notin RedeemedWith(i)
  BY <1>2 DEF IInv, CountInv, RedeemersAreUsers, RedeemedWith
<1>4. redemptions' = redemptions \cup {<<Code[r], r>>}
  BY DEF Commit
<1>5. \A i \in Invites : RedeemedWith(i)' =
          IF i = Code[r] THEN RedeemedWith(i) \cup {r} ELSE RedeemedWith(i)
  BY <1>4 DEF RedeemedWith
<1> QED BY <1>1, <1>3, <1>5

LEMMA OthersRedeemNothing ==
    ASSUME TypeOK, [Next]_vars,
           \A r \in Requests : Commit(r) => ~inviteOnly
    PROVE  UNCHANGED redemptions
BY DEF Next, Server, CheckUsername, CheckEmail, ConsumeInvite, RefuseInvite, InsertUser,
       DuplicateUser, AddRedemption, Commit, Abort, Revoke, Extend, AddUses, Tick, vars

(* The use count of an invite follows its redemptions and stays within its *)
(* limit.                                                                  *)
LEMMA CountStep == IInv /\ [Next]_vars => CountInv'
<1> SUFFICES ASSUME IInv, [Next]_vars PROVE CountInv'
    OBVIOUS
<1>0. TypeOK /\ CountInv
  BY DEF IInv
<1> USE <1>0 DEF TypeOK, CountInv, RedeemersAreUsers, UsersHadCodes
<1>1. ASSUME NEW r \in Requests, Commit(r), inviteOnly PROVE CountInv'
  <2> DEFINE c == Code[r]
  <2>1. c \in Invites /\ Valid(c, began[r]) /\ r \notin RedeemedWith(c)
        /\ \A i \in Invites : RedeemedWith(i)' =
               IF i = c THEN RedeemedWith(i) \cup {r} ELSE RedeemedWith(i)
    BY <1>1, CommitRedeems
  <2>2. IsFiniteSet(RedeemedWith(c)') /\
        Cardinality(RedeemedWith(c)') = Cardinality(RedeemedWith(c)) + 1
    <3>1. RedeemedWith(c)' = RedeemedWith(c) \cup {r}
      BY <2>1
    <3>2. IsFiniteSet(RedeemedWith(c)) /\ r \notin RedeemedWith(c)
      BY <2>1 DEF Counted
    <3> HIDE DEF c
    <3>3. IsFiniteSet(RedeemedWith(c) \cup {r}) /\
          Cardinality(RedeemedWith(c) \cup {r}) = Cardinality(RedeemedWith(c)) + 1
      BY <3>2, FS_AddElement
    <3> QED BY <3>1, <3>3
  <2>3. useCount' = [useCount EXCEPT ![c] = @ + 1] /\ maxUses' = maxUses
    BY <1>1 DEF Commit
  <2>4. useCount[c] + 1 <= maxUses[c]
    BY <2>1 DEF Valid
  <2>5. Counted'
    BY <2>1, <2>2, <2>3, <2>4 DEF Counted
  <2>6. (RedeemersAreUsers /\ UsersHadCodes)'
    BY <1>1, <2>1 DEF Commit
  <2> QED BY <2>5, <2>6
<1>2. ASSUME \A r \in Requests : Commit(r) => ~inviteOnly PROVE CountInv'
  <2>1. UNCHANGED redemptions
    BY <1>2, OthersRedeemNothing
  <2>2. UNCHANGED inviteOnly /\ UNCHANGED useCount
        /\ (inviteOnly => UNCHANGED users)
        /\ maxUses' \in [Invites -> Nat] /\ \A i \in Invites : maxUses[i] <= maxUses'[i]
    BY <1>2, StepAssumption DEF Next, Server, CheckUsername, CheckEmail, ConsumeInvite,
       RefuseInvite, InsertUser, DuplicateUser, AddRedemption, Commit, Abort, Revoke,
       Extend, AddUses, Tick, vars, inviteVars
  <2>3. (RedeemersAreUsers /\ UsersHadCodes)'
    BY <2>1, <2>2
  <2>4. Counted'
    BY <2>1, <2>2 DEF Counted, RedeemedWith
  <2> QED BY <2>3, <2>4
<1> QED BY <1>1, <1>2
-----------------------------------------------------------------------------
LEMMA IInvInit == Init => IInv
<1> SUFFICES ASSUME Init PROVE IInv
    OBVIOUS
<1>1. TypeOK
  BY InviteAssumption DEF Init, TypeOK, Ended
<1>2. LockInv
  BY RequestAssumption DEF Init, LockInv, HolderWorks, WorkerHolds, AskedInOnlyMode,
                            Working
<1>3. UserInv
  BY DEF Init, UserInv, UsersRegistered, NoClash, Inserted
<1>4. \A i \in Invites : RedeemedWith(i) = {}
  BY DEF Init, RedeemedWith
<1>5. RedeemersAreUsers /\ UsersHadCodes
  BY DEF Init, RedeemersAreUsers, UsersHadCodes
<1>6. Counted
  <2> SUFFICES ASSUME NEW i \in Invites
               PROVE  /\ IsFiniteSet(RedeemedWith(i))
                      /\ useCount[i] = Cardinality(RedeemedWith(i))
                      /\ useCount[i] <= maxUses[i]
    BY DEF Counted
  <2>1. useCount[i] = 0 /\ maxUses[i] \in Nat
    BY InviteAssumption DEF Init
  <2> QED BY <1>4, <2>1, FS_EmptySet
<1> QED BY <1>1, <1>2, <1>3, <1>5, <1>6 DEF IInv, CountInv

LEMMA IInvStep == IInv /\ [Next]_vars => IInv'
BY TypeStep, LockStep, UserStep, CountStep DEF IInv

(* The inductive invariant holds in every reachable state.                 *)
THEOREM Invariance == Spec => []IInv
BY IInvInit, IInvStep, PTL DEF Spec

(* Type correctness.                                                       *)
THEOREM TypeCorrect == Spec => []TypeOK
BY Invariance, PTL DEF IInv

(* The use count is the number of users registered with the invite,        *)
(* whatever registrations fail and whatever the administrator changes.     *)
THEOREM UsesAreCounted == Spec => []UsesCounted
<1>1. IInv => UsesCounted
  BY DEF IInv, CountInv, Counted, UsesCounted
<1> QED BY <1>1, Invariance, PTL

(* No invite is redeemed more often than its limit allows.                 *)
THEOREM Bounded == Spec => []NeverOversubscribed
<1>1. IInv => NeverOversubscribed
  BY DEF IInv, CountInv, Counted, NeverOversubscribed
<1> QED BY <1>1, Invariance, PTL

(* In invite-only mode every user redeemed one invite, in open mode none.  *)
THEOREM OneInviteEach == Spec => []UsersMatchRedemptions
<1>1. IInv => UsersMatchRedemptions
  <2> SUFFICES ASSUME IInv, NEW u \in Requests
               PROVE  Cardinality({i \in Invites : <<i, u>> \in redemptions})
                          = IF inviteOnly /\ u \in users THEN 1 ELSE 0
    BY DEF UsersMatchRedemptions
  <2>1. CASE inviteOnly /\ u \in users
    <3>1. {i \in Invites : <<i, u>> \in redemptions} = {Code[u]}
      BY <2>1 DEF IInv, CountInv, RedeemersAreUsers, UsersHadCodes
    <3> QED BY <2>1, <3>1, FS_Singleton
  <2>2. CASE ~(inviteOnly /\ u \in users)
    <3>1. {i \in Invites : <<i, u>> \in redemptions} = {}
      BY <2>2 DEF IInv, CountInv, RedeemersAreUsers
    <3> QED BY <2>2, <3>1, FS_EmptySet
  <2> QED BY <2>1, <2>2
<1> QED BY <1>1, Invariance, PTL

(* User names and e-mails stay unique.                                     *)
THEOREM UniqueIdentities == Spec => []IdentitiesUnique
<1>1. IInv => IdentitiesUnique
  BY DEF IInv, UserInv, NoClash, IdentitiesUnique
<1> QED BY <1>1, Invariance, PTL
-----------------------------------------------------------------------------
(* After a committed revocation nobody registers with the invite.          *)
THEOREM RevocationIsFinal == Spec => NoRedemptionAfterRevocation
<1>1. IInv /\ [Next]_vars =>
          \A i \in Invites : revoked[i] => RedeemedWith(i)' = RedeemedWith(i)
  <2> SUFFICES ASSUME IInv, [Next]_vars, NEW i \in Invites, revoked[i]
               PROVE  RedeemedWith(i)' = RedeemedWith(i)
    OBVIOUS
  <2>1. ASSUME NEW r \in Requests, Commit(r), inviteOnly
        PROVE  RedeemedWith(i)' = RedeemedWith(i)
    BY <2>1, CommitRedeems DEF Valid
  <2>2. ASSUME \A r \in Requests : Commit(r) => ~inviteOnly
        PROVE  RedeemedWith(i)' = RedeemedWith(i)
    BY <2>2, OthersRedeemNothing DEF IInv, RedeemedWith
  <2> QED BY <2>1, <2>2
<1> QED BY <1>1, Invariance, PTL DEF Spec, NoRedemptionAfterRevocation

(* Nobody registers with an invite that had expired when the transaction   *)
(* began.                                                                  *)
THEOREM ExpiryIsRespected == Spec => RedeemedBeforeExpiry
<1>1. IInv /\ [Next]_vars =>
          \A i \in Invites : \A u \in RedeemedWith(i)' \ RedeemedWith(i) :
              ~Expired(i, began[u])
  <2> SUFFICES ASSUME IInv, [Next]_vars, NEW i \in Invites,
                      NEW u \in RedeemedWith(i)' \ RedeemedWith(i)
               PROVE  ~Expired(i, began[u])
    OBVIOUS
  <2>1. ASSUME NEW r \in Requests, Commit(r), inviteOnly
        PROVE  ~Expired(i, began[u])
    <3>1. i = Code[r] /\ u = r
      BY <2>1, CommitRedeems
    <3> QED BY <2>1, <3>1, CommitRedeems DEF Valid
  <2>2. ASSUME \A r \in Requests : Commit(r) => ~inviteOnly
        PROVE  FALSE
    BY <2>2, OthersRedeemNothing DEF IInv, RedeemedWith
  <2> QED BY <2>1, <2>2
<1> QED BY <1>1, Invariance, PTL DEF Spec, RedeemedBeforeExpiry
-----------------------------------------------------------------------------
LEMMA SlotsInit == Init => Slots!Init
<1> SUFFICES ASSUME Init PROVE Slots!Init
    OBVIOUS
<1>1. \A i \in Invites : RedeemedWith(i) = {}
  BY DEF Init, RedeemedWith
<1>2. [i \in Invites |-> RedeemedWith(i)] = [i \in Invites |-> {}]
  BY <1>1
<1> QED BY <1>2 DEF Init, Slots!Init

(* A commit in invite-only mode is a Join, a revocation a Withdraw, an     *)
(* increase of the limit a Widen; every other step changes none of the     *)
(* abstract invites.                                                       *)
LEMMA SlotsStep == IInv /\ [Next]_vars => [Slots!Next]_Slots!vars
<1> SUFFICES ASSUME IInv, [Next]_vars PROVE [Slots!Next]_Slots!vars
    OBVIOUS
<1> DEFINE members == [i \in Invites |-> RedeemedWith(i)]
<1>1. ASSUME NEW r \in Requests, Commit(r), inviteOnly PROVE Slots!Next
  <2> DEFINE c == Code[r]
  <2>1. c \in Invites /\ Valid(c, began[r])
        /\ (\A i \in Invites : r \notin RedeemedWith(i))
        /\ \A i \in Invites : RedeemedWith(i)' =
               IF i = c THEN RedeemedWith(i) \cup {r} ELSE RedeemedWith(i)
    BY <1>1, CommitRedeems
  <2>2. members' = [members EXCEPT ![c] = @ \cup {r}]
    BY <2>1
  <2>3. Cardinality(members[c]) < maxUses[c] /\ ~revoked[c]
    BY <2>1 DEF IInv, CountInv, Counted, Valid
  <2>4. UNCHANGED <<maxUses, revoked>>
    BY <1>1 DEF Commit
  <2>5. Slots!Join(c, r)
    <3>1. \A j \in Invites : r \notin members[j]
      BY <2>1
    <3>2. UNCHANGED maxUses /\ UNCHANGED revoked
      BY <2>4
    <3>3. Slots!Cardinality(members[c]) = Cardinality(members[c])
      BY DEF Slots!Cardinality, Cardinality
    <3> QED BY <2>2, <2>3, <3>1, <3>2, <3>3 DEF Slots!Join
  <2> QED BY <2>1, <2>5 DEF Slots!Next
<1>2. ASSUME \A r \in Requests : Commit(r) => ~inviteOnly
      PROVE  [Slots!Next]_Slots!vars
  <2>1. members' = members
    BY <1>2, OthersRedeemNothing DEF IInv, RedeemedWith
  <2>2. ASSUME NEW i \in Invites, Revoke(i) PROVE Slots!Withdraw(i)
    BY <2>1, <2>2 DEF Revoke, Slots!Withdraw
  <2>3. ASSUME NEW i \in Invites, AddUses(i) PROVE Slots!Widen(i)
    BY <2>1, <2>3, StepAssumption DEF AddUses, Slots!Widen, IInv, TypeOK
  <2>4. ASSUME ~\E i \in Invites : Revoke(i) \/ AddUses(i)
        PROVE  UNCHANGED <<maxUses, revoked>>
    BY <2>4 DEF Next, Server, CheckUsername, CheckEmail, ConsumeInvite, RefuseInvite,
       InsertUser, DuplicateUser, AddRedemption, Commit, Abort, Extend, Tick, vars,
       inviteVars
  <2> QED BY <2>1, <2>2, <2>3, <2>4 DEF Slots!Next, Slots!vars
<1> QED BY <1>1, <1>2

(* Registration implements InviteSlots.                                    *)
THEOREM Implements == Spec => ImplementsSlots
BY SlotsInit, SlotsStep, Invariance, PTL DEF Spec, ImplementsSlots, Slots!Spec
=============================================================================
