------------------------------ MODULE MCImport ------------------------------
(***************************************************************************)
(* Three files, one of them locked, picked alone or in pairs in two uses   *)
(* of the file dialogs, two runs, and two polls under way at once.         *)
(***************************************************************************)
EXTENDS ImportRequirements

CONSTANTS bank, fund, bond

MCPicks == {<<bank>>, <<fund, bank>>, <<bond>>}
============================================================================
