----------------------------- MODULE Verification -----------------------------
(***************************************************************************)
(* Which downloaded files EngineConfig::verify_file accepts                *)
(* (crates/gpui-updater-core/src/engine/config.rs), and the check-time     *)
(* gate EngineConfig::precheck_integrity.                                  *)
(*                                                                         *)
(* What is configured (the policy, the keys, the version binding), what    *)
(* the release publishes for a file, and what the file that was downloaded *)
(* is: UpdateSource says where they come from.  Hashing and signing are    *)
(* abstracted to their outcome: whether the file matches the sum, and      *)
(* whether each signature was made for it by the key that is configured.   *)
(*                                                                         *)
(* An operator whose name has an underscore is its namesake with a mistake *)
(* in it; no definition uses it.  The properties are checked to notice it. *)
(***************************************************************************)

Policy == {"BestEffort", "Off", "Checksum", "Signature", "Strict"}

Config ==
  [policy : Policy, minisign_keys : BOOLEAN, ed25519_key : BOOLEAN,
   binding : {"IfPresent", "Required"}]

(* Integrity: a checksum is inline, listed in a checksums file or missing   *)
(* from it; a minisign signature is inline, fetched, or fetched and blank.  *)
Published ==
  [sum : {"none", "inline", "listed", "unlisted"},
   minisign : {"none", "inline", "url", "blank_url"},
   ed25519 : BOOLEAN]

(* The file: what it matches, and the version its signature's trusted       *)
(* comment names.  `fetched`: its checksums and signature can be fetched.   *)
File ==
  [matches_sum : BOOLEAN, minisigned : BOOLEAN, ed25519_signed : BOOLEAN,
   names : {"nothing", "this version", "another version"},
   fetched : BOOLEAN]

VARIABLES config, published, file

RequiresSignature == config.policy \in {"Signature", "Strict"}
RequiresChecksum  == config.policy \in {"Checksum", "Strict"}
SkipsAll          == config.policy = "Off"

(* can_verify_signature_of: a signature and the key for it.                 *)
MinisignInReach ==
  config.minisign_keys /\ published.minisign # "none"
Ed25519InReach ==
  config.ed25519_key /\ published.ed25519

Precheck ==
  /\ RequiresSignature => MinisignInReach \/ Ed25519InReach
  /\ RequiresChecksum => published.sum # "none"

(* resolve_checksum and resolve_minisign.                                   *)
FetchesSum      == published.sum \in {"listed", "unlisted"}
FetchesMinisign == config.minisign_keys /\ published.minisign \in {"url", "blank_url"}
SumKnown        == published.sum \in {"inline", "listed"}
MinisignKnown   == config.minisign_keys /\ published.minisign \in {"inline", "url"}

(* check_signed_version.                                                    *)
NamesVersion ==
  \/ file.names = "this version"
  \/ file.names = "nothing" /\ config.binding = "IfPresent"

SumPasses == IF SumKnown THEN file.matches_sum ELSE ~RequiresChecksum

Ed25519Passes == Ed25519InReach => file.ed25519_signed

MinisignPasses == MinisignKnown => file.minisigned /\ NamesVersion

SignatureChecked_Advertised == MinisignInReach \/ Ed25519InReach
SignatureChecked == MinisignKnown \/ Ed25519InReach

Fetchable == FetchesSum \/ FetchesMinisign => file.fetched

(* verify_file: the file is accepted, and something published was checked.  *)
Accepted ==
  \/ SkipsAll
  \/ /\ Precheck
     /\ Fetchable
     /\ SumPasses
     /\ Ed25519Passes
     /\ MinisignPasses
     /\ RequiresSignature => SignatureChecked

Checked == ~SkipsAll /\ Accepted /\ (SumKnown \/ SignatureChecked)

==============================================================================
