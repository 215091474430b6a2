----------------------------- MODULE MCSession -----------------------------
(***************************************************************************)
(* Two tabs and two users of one browser, any of them registered before,   *)
(* and four acts of visitors, between which requests answer in any order.  *)
(***************************************************************************)
EXTENDS SessionRequirements
============================================================================
