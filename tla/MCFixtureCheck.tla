--------------------------- MODULE MCFixtureCheck ---------------------------
(***************************************************************************)
(* Two identity fixtures, so that a regeneration can stop between them,    *)
(* one program binary, and two versions of the generator, of which one     *)
(* funds the wallets wrongly.                                              *)
(***************************************************************************)
EXTENDS FixtureCheck

MCIdentityFile == <<"identity-state-a.json", "identity-state-b.json">>

MCBinaryFile == <<"spl_governance.so">>
=============================================================================
