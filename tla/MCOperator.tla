----------------------------- MODULE MCOperator -----------------------------
(***************************************************************************)
(* Small instances, for TLC and in one run, of what one operator or the    *)
(* accounting service does alone: ConsentConnection, CredentialVault,      *)
(* AccessTokens, StagingBackup, StagingRestore and ZohoSetup. They share   *)
(* no state, so one moves while the others rest in an initial state,       *)
(* always the same one.                                                    *)
(***************************************************************************)
EXTENDS ConsentConnection, CredentialVault, AccessTokens,
        StagingBackup, StagingRestore, ZohoSetup, TLC

\* The parts share model values, for a small group of symmetries.
CONSTANTS a1, a2, d1, d2, u1, u2, u3, c1, c2, c3, nobody, nothing

MCActors == {a1, a2}
MCServices == {d1, d2}
MCUpdates == {u1, u2, u3}

\* Two contents that differ in rows alike, and one with other row counts.
MCContents == {c1, c2, c3}
MCRowsOf == [c \in MCContents |-> IF c = c3 THEN 1 ELSE 2]

MCBindings == {[alias |-> "A", business |-> 1], [alias |-> "B", business |-> 1], [alias |-> "B", business |-> 2]}

Symmetry == Permutations(MCActors) \cup Permutations(MCUpdates)

ConsentRests == ConsentInit /\ UNCHANGED consentVars
VaultRests == VaultInit /\ UNCHANGED vaultVars
TokensRest == TokensInit /\ UNCHANGED tokenVars
BackupRests == BackupInit /\ source = c1 /\ UNCHANGED backupVars
RestoreRests == RestoreInit /\ rows = "empty" /\ UNCHANGED restoreVars
SetupRests == SetupInit /\ UNCHANGED setupVars

ServicesRest == ConsentRests /\ VaultRests /\ TokensRest
ScriptsRest == BackupRests /\ RestoreRests /\ SetupRests

MCInit == ConsentInit /\ VaultInit /\ TokensInit /\ BackupInit /\ RestoreInit /\ SetupInit

MCNext ==
  \/ VaultRests /\ TokensRest /\ ScriptsRest /\ ConsentNext
  \/ ConsentRests /\ TokensRest /\ ScriptsRest /\ VaultNext
  \/ ConsentRests /\ VaultRests /\ ScriptsRest /\ TokensNext
  \/ ServicesRest /\ RestoreRests /\ SetupRests /\ BackupNext
  \/ ServicesRest /\ BackupRests /\ SetupRests /\ RestoreNext
  \/ ServicesRest /\ BackupRests /\ RestoreRests /\ SetupNext

MCSpec ==
  MCInit /\ [][MCNext]_<<consentVars, vaultVars, tokenVars, backupVars, restoreVars, setupVars>>
=============================================================================
