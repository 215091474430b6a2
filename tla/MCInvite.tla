------------------------------ MODULE MCInvite ------------------------------
(***************************************************************************)
(* Two registrations that compete for the last slot of one invite, and a   *)
(* third that wants the user name of one and the e-mail of the other, with *)
(* an invite that expires early.                                           *)
(***************************************************************************)
EXTENDS InviteRegistration, TLC

CONSTANTS r1, r2, r3, inv, early

MCUsername == (r1 :> "asha" @@ r2 :> "ravi" @@ r3 :> "ravi")
MCEmail == (r1 :> "a@x" @@ r2 :> "b@x" @@ r3 :> "a@x")
MCCode == (r1 :> inv @@ r2 :> inv @@ r3 :> early)
MCMaxUses == (inv :> 1 @@ early :> 2)
MCExpiry == (inv :> None @@ early :> 0)
=============================================================================
