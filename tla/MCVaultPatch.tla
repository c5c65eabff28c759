---------------------------- MODULE MCVaultPatch ----------------------------
(***************************************************************************)
(* VaultPatch for TLC, and what is said of it and does not hold.           *)
(***************************************************************************)
EXTENDS VaultPatch

\* obsidian-vault-service.test.ts, of a save in EverRoom: 'uses source hashes to
\* prevent overwriting an external edit'.  The hash is compared, then the note is
\* written after further awaits: what the user saved in between is lost.
NoOverwrite == [][file \subseteq file']_file
=============================================================================
