------------------------------ MODULE AppBundle ------------------------------
(***************************************************************************)
(* Sparkle inside an app bundle on the release machine: embedding the      *)
(* framework, configuring Info.plist, signing the code inside out, and the *)
(* check of the result (gpui-updater-release/src/sparkle/bundle.rs).       *)
(*                                                                         *)
(* A piece of code is its name; a seal is who signed it and whether what   *)
(* it covers is still what was signed.  codesign is modelled by its two    *)
(* rules: a seal covers the code nested in it, and --verify --deep accepts *)
(* only code that is signed and unchanged since.  ditto merges into a      *)
(* directory that exists.                                                  *)
(*                                                                         *)
(* An operator whose name has an underscore and a capital after it is its  *)
(* namesake with a mistake in it; no action uses it.                       *)
(***************************************************************************)
EXTENDS Naturals

CONSTANTS
  Team,   (* The signing identity of the release job.                      *)
  Vendor, (* Whoever signed the released Sparkle.                          *)
  Nobody, (* The signer of unsigned code.                                  *)
  Key,    (* The SUPublicEDKey that shipped apps trust.                    *)
  NoKey   (* No SUPublicEDKey in Info.plist.                               *)

ASSUME SignersAssumption == Team # Vendor /\ Team # Nobody /\ Vendor # Nobody
ASSUME KeyAssumption == Key # NoKey

Services == {"Installer.xpc", "Downloader.xpc"}
Helpers == {"Autoupdate", "Updater.app"}
Framework == "Sparkle.framework"
SparkleCode == Services \cup Helpers \cup {Framework}
Code == SparkleCode \cup {"App"}

(* What seals a piece of code from outside.                                 *)
Containers(piece) ==
  IF piece = "App" THEN {}
  ELSE IF piece = Framework THEN {"App"} ELSE {Framework, "App"}

(* Where the bytes of a framework come from: the pinned release, a copy     *)
(* that was interrupted, or anything else.                                  *)
Origins == {"release", "half", "other"}

VARIABLES
  code,     (* Sparkle's code in the bundle.                               *)
  origin,   (* Where the framework's files come from; empty when absent.   *)
  signer,   (* Who signed each piece last.                                 *)
  intact,   (* The pieces whose seal still fits what it covers.            *)
  entitled, (* Downloader.xpc has the entitlement Sparkle ships it with.   *)
  key,      (* SUPublicEDKey, written with the feed URL and the other keys.*)
  bundleVersion, (* CFBundleVersion.                                       *)
  shortVersion,  (* CFBundleShortVersionString.                            *)
  unsealed  (* The paths codesign has still to be run on.                  *)

versions == << bundleVersion, shortVersion >>
bundle == << code, origin, signer, intact, entitled, key, versions, unsealed >>

(* The framework's own files, and with them every seal around them, change. *)
Disturb(pieces) == intact' = pieces \ {Framework, "App"}

(* embed: whatever framework is in the way goes first.                      *)
RemoveFramework ==
  /\ code' = {}
  /\ origin' = {}
  /\ intact' = {}
  /\ signer' = [piece \in Code |-> IF piece = "App" THEN signer[piece] ELSE Nobody]
  /\ UNCHANGED << entitled, key, versions, unsealed >>

(* ditto, part way: some of the code is there.                              *)
CopyPart(pieces) ==
  /\ code' = code \cup pieces
  /\ origin' = origin \cup {"half"}
  /\ Disturb(intact \cup pieces)
  /\ signer' = [piece \in Code |-> IF piece \in pieces THEN Vendor ELSE signer[piece]]
  /\ UNCHANGED << entitled, key, versions, unsealed >>

(* ditto, to the end, onto the part it had copied.                          *)
CopyRest(from) ==
  /\ code' = SparkleCode
  /\ origin' = (origin \ {"half"}) \cup from
  /\ intact' = SparkleCode
  /\ signer' = [signer EXCEPT ![Framework] = Vendor, !["Autoupdate"] = Vendor,
                  !["Updater.app"] = Vendor, !["Installer.xpc"] = Vendor,
                  !["Downloader.xpc"] = Vendor]
  /\ entitled' = TRUE
  /\ UNCHANGED << key, versions, unsealed >>

(* The XPC services and the link to them go, unless the app is sandboxed.   *)
RemoveServices(keep) ==
  IF keep THEN UNCHANGED bundle
  ELSE /\ code' = code \ Services
       /\ Disturb(intact \ Services)
       /\ UNCHANGED << origin, signer, entitled, key, versions, unsealed >>

(* The license is copied into the framework's resources.                    *)
CopyLicense ==
  /\ Disturb(intact)
  /\ UNCHANGED << code, origin, signer, entitled, key, versions, unsealed >>

(* A check for any CFBundleVersion at all.                                  *)
CheckBundleVersion_Any == TRUE

(* check_bundle_version: the two keys are the same, whatever the release.   *)
CheckBundleVersion == bundleVersion = shortVersion

(* SparkleSettings::apply.                                                  *)
Configure ==
  /\ CheckBundleVersion
  /\ key' = Key
  /\ intact' = intact \ {"App"}
  /\ UNCHANGED << code, origin, signer, entitled, versions, unsealed >>

(* An order that seals the framework before Updater.app.                    *)
Rank_FrameworkEarly ==
  [piece \in SparkleCode |->
     IF piece = "Installer.xpc" THEN 1
     ELSE IF piece = "Downloader.xpc" THEN 2
     ELSE IF piece = "Autoupdate" THEN 3
     ELSE IF piece = Framework THEN 4 ELSE 5]

(* The order codesign must be run in, by rank.                              *)
Rank ==
  [piece \in SparkleCode |->
     IF piece = "Installer.xpc" THEN 1
     ELSE IF piece = "Downloader.xpc" THEN 2
     ELSE IF piece = "Autoupdate" THEN 3
     ELSE IF piece = "Updater.app" THEN 4 ELSE 5]

(* code_inside_out: services only where they are kept, the rest always.     *)
CodeInsideOut == (code \cap Services) \cup Helpers \cup {Framework}

StartSealing ==
  /\ unsealed' = CodeInsideOut
  /\ UNCHANGED << code, origin, signer, intact, entitled, key, versions >>

NextToSeal == {piece \in unsealed : \A other \in unsealed : Rank[piece] <= Rank[other]}

(* codesign --force; only for the downloader it keeps the entitlements.     *)
Preserves(piece) == piece = "Downloader.xpc"
Sign(piece) ==
  /\ signer' = [signer EXCEPT ![piece] = Team]
  /\ intact' = (intact \ Containers(piece)) \cup {piece}
  /\ entitled' = (IF piece = "Downloader.xpc" /\ ~Preserves(piece) THEN FALSE ELSE entitled)
  /\ UNCHANGED << code, origin, key, versions >>

SealNext(piece) ==
  /\ piece \in NextToSeal /\ piece \in code
  /\ Sign(piece)
  /\ unsealed' = unsealed \ {piece}

(* The release job signs the app itself, last.                              *)
SignApp == Sign("App") /\ UNCHANGED unsealed

(* codesign --verify --deep --strict.                                       *)
Verifies == \A piece \in code \cup {"App"} : piece \in intact /\ signer[piece] # Nobody

(* verify_bundle, with or without the settings, and with the XPC services   *)
(* it expects.                                                              *)
VerifyBundle(settings, keep) ==
  /\ Framework \in code
  /\ keep \/ code \cap Services = {}
  /\ settings => key = Key /\ CheckBundleVersion
  /\ Verifies
  /\ \A piece \in CodeInsideOut : signer[piece] = signer["App"]
=============================================================================
