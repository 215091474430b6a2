---------------------------- MODULE InviteSlots ----------------------------
(***************************************************************************)
(* What invite-only registration promises (docs/invite-only-               *)
(* registration.md, "How it works"), with no statements, locks or          *)
(* transactions: a member joins with an invite in one step, only while the *)
(* invite has a slot left and has not been revoked.                        *)
(***************************************************************************)
EXTENDS Integers, FiniteSets

CONSTANTS People, Invites, InitialSlots

VARIABLES members, slots, withdrawn

vars == <<members, slots, withdrawn>>

Init == /\ members = [i \in Invites |-> {}]
        /\ slots = InitialSlots
        /\ withdrawn = [i \in Invites |-> FALSE]

Join(i, p) ==
    /\ ~withdrawn[i]
    /\ Cardinality(members[i]) < slots[i]
    /\ \A j \in Invites : p \notin members[j]
    /\ members' = [members EXCEPT ![i] = @ \cup {p}]
    /\ UNCHANGED <<slots, withdrawn>>

Withdraw(i) ==
    /\ withdrawn' = [withdrawn EXCEPT ![i] = TRUE]
    /\ UNCHANGED <<members, slots>>

Widen(i) ==
    /\ slots'[i] > slots[i] /\ slots' = [slots EXCEPT ![i] = slots'[i]]
    /\ UNCHANGED <<members, withdrawn>>

Next == \E i \in Invites : Withdraw(i) \/ Widen(i) \/ \E p \in People : Join(i, p)

Spec == Init /\ [][Next]_vars
=============================================================================
