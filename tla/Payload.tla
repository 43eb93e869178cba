------------------------------- MODULE Payload -------------------------------
(***************************************************************************)
(* payload::check: the app inside a verified artifact must be the release  *)
(* and come from the developer of the installed app (crates/               *)
(* gpui-updater-core/src/engine/payload.rs).                               *)
(*                                                                         *)
(* A signer is a macOS team or a Windows publisher.  How codesign's and    *)
(* PowerShell's reports are parsed is left out: `unreadable` is a report   *)
(* that tells nothing.                                                     *)
(*                                                                         *)
(* An operator whose name has an underscore is its namesake with a mistake *)
(* in it; nothing uses it.  The properties are checked to notice it.       *)
(***************************************************************************)

CONSTANTS
  Us,           (* The signer of the installed app.                      *)
  Them,         (* Another signer.                                       *)
  Nobody        (* An app that is unsigned, or not validly signed.       *)

Signer == {Us, Them, Nobody}

(* The app inside an artifact: who signed it, whether the signature is      *)
(* valid, and whether it declares the release's version; `v1.2` declares    *)
(* 1.2.0, and build metadata is ignored.                                    *)
App == [signer : Signer, intact : BOOLEAN, declares : BOOLEAN]

(* EngineConfig: Verification skips every check, CodeSigning, BundleVersion;*)
(* and what can be read of the installed app's signature.                   *)
Policy ==
  [skips : BOOLEAN,
   signing : {"off", "named", "match"},
   version : {"must", "ignore"},
   installed : {"signed", "unsigned", "unreadable", "absent"}]

Refused == "refused"

ASSUME SignerAssumption == Us # Nobody /\ Refused \notin Signer

(* The signer the update must have, Nobody for none.  On macOS a signature  *)
(* that cannot be read asks for nothing; on Windows it refuses the update.  *)
Expected(os, p) ==
  IF p.signing = "named" THEN Us
  ELSE IF p.signing = "off" THEN Nobody
  ELSE IF p.installed = "signed" THEN Us
  ELSE IF p.installed = "unreadable" /\ os = "windows" THEN Refused
  ELSE Nobody

SignedBy_AnyTeam(app, signer) == app.intact /\ app.signer # Nobody
SignedBy(app, signer) == app.intact /\ app.signer = signer

(* macOS compares versions; a Windows executable need not declare one, and  *)
(* Linux has neither.                                                       *)
check_payload(os, p, app) ==
  IF p.skips \/ os = "linux" THEN TRUE
  ELSE /\ Expected(os, p) # Refused
       /\ Expected(os, p) # Nobody => SignedBy(app, Expected(os, p))
       /\ os = "macos" /\ p.version = "must" => app.declares
==============================================================================
