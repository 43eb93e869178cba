---------------------------- MODULE MCReleaseJob -----------------------------
(***************************************************************************)
(* ReleaseJob with three jobs for two releases, deltas from the version    *)
(* before both, and a private key that shipped apps do not trust.          *)
(***************************************************************************)
EXTENDS ReleaseJob

MCParts == {{}, Services \cup {Framework}}
=============================================================================
