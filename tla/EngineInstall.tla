----------------------------- MODULE EngineInstall ----------------------------
(***************************************************************************)
(* A whole self-update around EngineDownload: the app asks who owns it,    *)
(* the engine asks whether it could install where the app is, downloads,   *)
(* checks the app inside, and hands the artifact to the platform's         *)
(* installer (engine.rs, install/mod.rs, install/windows.rs).              *)
(*                                                                         *)
(* Every step is a step of EngineDownload, whose free choices the checks   *)
(* of the location, the payload and the kind of install settle.  What an   *)
(* installer does to the disk is Install's.                                *)
(*                                                                         *)
(* An operator whose name has an underscore and a capital after it is its  *)
(* namesake with a mistake in it; no action uses it.                       *)
(***************************************************************************)
EXTENDS EngineDownload, Ownership, Payload

CONSTANTS
  Site,         (* What may surround an installed app.                   *)
  Configuration (* Where the app is, what it configures and what the     *)
                (* publisher ships, as records.                          *)

Place == {"writable", "translocated", "read_only", "denied", "unknown"}

Shape ==
  [os : {"macos", "linux", "windows"}, root : {"bundle", "file", "dir", "exe"},
   asset : {"dmg", "tar", "exe", "msi", "zip"}]

ASSUME SiteAssumption == \A app \in Site : app \in Surroundings
ASSUME ConfigurationAssumption ==
  \A c \in Configuration :
    /\ c.place \in Place /\ c.shape \in Shape
    /\ c.policy \in Policy /\ c.payload \in App

VARIABLES
  place,        (* What the folder of the app allows.                    *)
  shape,        (* The platform, the install root and the asset.         *)
  policy,       (* The configured payload checks.                        *)
  payload,      (* The app inside the published files.                   *)
  owner,        (* Who updates the app, once asked.                      *)
  claims,       (* History: who said, when asked, that the app is theirs.*)
  installed     (* What the installer did.                               *)

world == << place, shape, policy, payload >>
allVars == << vars, world, owner, claims, installed >>

InstallTypeOK ==
  /\ TypeOK
  /\ \E c \in Configuration :
       << place, shape, policy, payload >> = << c.place, c.shape, c.policy, c.payload >>
  /\ claims \subseteq Managers \cup {"sharers"}
  /\ owner \in {"unknown", "self", "packager"} \cup Managers
  /\ installed \in {"no", "replaced", "staged", "refused", "failed"}

InstallInit ==
  /\ \E c \in Configuration :
       /\ place = c.place /\ shape = c.shape /\ policy = c.policy /\ payload = c.payload
  /\ owner = "unknown"
  /\ claims = {}
  /\ installed = "no"
  /\ Init
  /\ policy.skips => ~vouched

------------------------------------------------------------------------------
(* The app asks at startup, and offers updates only when it owns itself.    *)
AskOwner ==
  /\ owner = "unknown"
  /\ \E app \in Site : owner' = ownership(app) /\ claims' = Claimants(app)
  /\ UNCHANGED << vars, world, installed >>

(* check_location, of the folder the install will write in.                 *)
Elevates == shape.os = "windows" /\ shape.asset = "msi"

Installable ==
  /\ ~(shape.os = "macos" /\ place = "translocated")
  /\ Elevates \/ place \notin {"read_only", "denied"}

(* accepts_rebuilt, asked before any delta is fetched.                      *)
accepts_rebuilt_AnyRoot == shape.os = "windows" => shape.asset = "exe"
accepts_rebuilt ==
  shape.os = "windows" => shape.root = "exe" /\ shape.asset = "exe"

PayloadOk == check_payload(shape.os, policy, payload)

Begin ==
  /\ Start
  /\ ~Installable => pc' = "done"

TryReuse == Reuse /\ (pc' = "done" => PayloadOk)

TryDeltas == Plan /\ (pc' = "hop" => accepts_rebuilt)

Offer == CheckRebuilt /\ (pc' = "done" <=> PayloadOk)

Accept == Verify /\ (result' = "artifact" => PayloadOk)

Proceed ==
  /\ \/ BeginHop \/ FetchHop \/ VerifyHop \/ Apply
     \/ Full \/ Fetch \/ Fetched \/ Cancel
  /\ policy.skips => ~held'

Download ==
  /\ owner = "self"
  /\ Begin \/ TryReuse \/ TryDeltas \/ Offer \/ Accept \/ Proceed
  /\ UNCHANGED << world, owner, claims, installed >>

------------------------------------------------------------------------------
(* windows::install goes by what the artifact is, not by the install root.  *)
Takes ==
  \/ shape.os # "windows"
  \/ result = "artifact" /\ shape.asset = "msi"
  \/ shape.root = "exe" /\ (result = "rebuilt" \/ shape.asset = "exe")

Effect == IF result = "artifact" /\ Elevates THEN "staged" ELSE "replaced"

InstallIt ==
  /\ installed = "no"
  /\ result \in {"artifact", "rebuilt"}
  /\ installed' \in IF Takes THEN {Effect, "failed"} ELSE {"refused"}
  /\ UNCHANGED << vars, world, owner, claims >>

InstallNext == AskOwner \/ Download \/ InstallIt

InstallSpec == InstallInit /\ [][InstallNext]_allVars

------------------------------------------------------------------------------
(* Properties.                                                              *)

(* "An app that a package manager installed should not replace itself"      *)
(* (ownership.rs:4): an app updates itself only when nobody who answers,    *)
(* under either of its names, says that it is theirs, be it one package or  *)
(* several that share it; and whoever it names as its owner does say so.    *)
(* The one claim that does not count is that of several dpkg packages.      *)
OwnersAreAsked ==
  /\ owner = "self" => claims \subseteq {"sharers"}
  /\ owner \in Managers => owner \in claims
  /\ owner # "self" => pc = "start" /\ installed = "no"

(* "the update must be validly signed by that same team" (payload.rs:5):    *)
(* whichever way the artifact was had, an app that can tell its own signer  *)
(* is replaced only by one of the same signer, and on macOS of the release's*)
(* version, unless the app turned the check off.  Windows tells a signature *)
(* that cannot be read from none, and then installs nothing; macOS does not.*)
OnlyOurAppIsInstalled ==
  installed \in {"replaced", "staged"} /\ ~policy.skips =>
    /\ shape.os # "linux" /\ policy.signing # "off"
         /\ (policy.signing = "named" \/ policy.installed = "signed")
       => payload.signer = Us /\ payload.intact
    /\ shape.os = "windows" /\ policy.signing = "match" => policy.installed # "unreadable"
    /\ shape.os = "macos" /\ policy.version = "must" => payload.declares

(* What cannot be installed is found before it is fetched: nothing is       *)
(* downloaded for a folder that is known not to be writable, and nothing is *)
(* rebuilt from deltas that the installer refuses.  On Windows "the         *)
(* artifact must prove its own shape" (windows.rs:29): only an executable   *)
(* goes over an executable.                                                 *)
InstallerIsForeseen ==
  /\ pc \notin {"start", "done"} /\ place \in {"translocated", "read_only", "denied"} =>
       \/ shape.os # "macos" /\ place = "translocated"
       \/ shape.os = "windows" /\ shape.asset = "msi"
  /\ result = "rebuilt" => installed # "refused"
  /\ installed = "replaced" /\ shape.os = "windows" =>
       shape.root = "exe" /\ shape.asset = "exe"
==============================================================================
