--------------------------- MODULE ManifestSource ---------------------------
(***************************************************************************)
(* A static manifest from the release directory to the client:             *)
(* ManifestBuilder::build (crates/gpui-updater-release/src/manifest.rs)    *)
(* with the file-name rules of artifact.rs, and                            *)
(* StaticManifestSource::fetch_latest                                      *)
(* (crates/gpui-updater-core/src/source/manifest.rs) with the signature    *)
(* and expiry checks of trust.rs.                                          *)
(*                                                                         *)
(* A file name is kept as what the rules read from it: its suffix, and the *)
(* operating system and architecture before that.  `order` stands for its  *)
(* place among the names, by which the assets of a manifest are sorted.    *)
(*                                                                         *)
(* An operator whose name has an underscore is its namesake with a mistake *)
(* in it; no definition uses it.  The properties are checked to notice it. *)
(***************************************************************************)
EXTENDS Integers, Sequences, FiniteSetsExt

CONSTANTS Version, None, Bad

Name == [order : Nat, suffix : STRING, os : STRING, arch : STRING]

------------------------------------------------------------------------------
(* File-name rules.                                                         *)

DefaultArches == {"arm64", "aarch64", "x86_64", "x64", "universal"}

(* ArtifactRule::new: the architecture stands after the rule's own system.  *)
Rule(suffix, os) == [suffix |-> suffix, os |-> os, arches |-> DefaultArches]

DefaultRules ==
  << Rule("dmg", "macos"), Rule("zip", "macos"), Rule("msi", "windows"),
     Rule("exe", "windows"), Rule("zip", "windows"), Rule("tar.gz", "linux"),
     Rule("appimage", "linux") >>

(* classify: what the first rule that applies says of a name.               *)
RuleApplies(rule, name) ==
  /\ rule.suffix = name.suffix
  /\ rule.os = name.os
  /\ name.arch \in rule.arches

Rules(name) == {i \in DOMAIN DefaultRules : RuleApplies(DefaultRules[i], name)}
Classified(name) == Rules(name) # {}
Classify(name) ==
  [os |-> DefaultRules[Min(Rules(name))].os, arch |-> name.arch, format |-> name.suffix]

------------------------------------------------------------------------------
(* Building a manifest.                                                     *)

(* Files and deltas of the release directories; `minisig`: a signature      *)
(* stands beside it.  `from` is Bad when the file name gives no version.    *)
ReleaseFile  == [name : Name, dir : {1, 2}, minisig : BOOLEAN]
ReleaseDelta == [asset : Name, from : Version \union {Bad},
                 to : Version \union {None}, minisig : BOOLEAN]

Options ==
  [include : {None} \union SUBSET STRING, exclude : SUBSET STRING,
   required : SUBSET [os : STRING, arch : {None} \union STRING],
   signatures : {"Required", "IfPresent", "Ignore"},
   style : {"Url", "Inline", "Both"},
   ed25519 : BOOLEAN, sha256 : BOOLEAN,
   unmatched : {"Skip", "Error"}]

WantsOs(opt, os) ==
  (opt.include # None => os \in opt.include) /\ os \notin opt.exclude

WantsAssetName(opt, name) ==
  Classified(name) => WantsOs(opt, Classify(name).os)

Listed(files, opt) ==
  {f \in files : Classified(f.name) /\ WantsOs(opt, Classify(f.name).os)}

Attached(files, deltas, opt) ==
  {d \in deltas : \E f \in Listed(files, opt) : f.name = d.asset}

(* Why build refuses a directory.                                           *)
Unsigned_Assets(files, deltas, opt) ==
  opt.signatures = "Required" /\ \E f \in Listed(files, opt) : ~f.minisig
Unsigned(files, deltas, opt) ==
  /\ opt.signatures = "Required"
  /\ \E f \in Listed(files, opt) \union Attached(files, deltas, opt) : ~f.minisig

Duplicate(files, opt) ==
  \E f, g \in Listed(files, opt) : f # g /\ f.name = g.name

Stray(files, deltas, opt) ==
  \E d \in deltas \ Attached(files, deltas, opt) : WantsAssetName(opt, d.asset)

Missing(files, opt) ==
  \E target \in opt.required :
    ~ \E f \in Listed(files, opt) :
        /\ Classify(f.name).os = target.os
        /\ target.arch # None => Classify(f.name).arch = target.arch

Unknown(files, opt) ==
  opt.unmatched = "Error" /\ \E f \in files : ~Classified(f.name)

Builds(files, deltas, opt) ==
  /\ ~Unknown(files, opt)
  /\ ~Unsigned(files, deltas, opt)
  /\ ~Duplicate(files, opt)
  /\ ~Stray(files, deltas, opt)
  /\ ~Missing(files, opt)

(* file_metadata.  A client uses the inline signature of the two.           *)
Metadata(f, opt) ==
  [sum |-> IF opt.sha256 THEN "inline" ELSE "none",
   minisign |-> IF opt.signatures = "Ignore" \/ ~f.minisig THEN "none"
                ELSE IF opt.style = "Url" THEN "url" ELSE "inline",
   ed25519 |-> opt.ed25519]

(* asset_for and delta_for.                                                 *)
ManifestAsset(f, deltas, opt) ==
  [name |-> f.name,
   os |-> Classify(f.name).os, arch |-> Classify(f.name).arch,
   format |-> Classify(f.name).format,
   published |-> Metadata(f, opt),
   deltas |-> {[from |-> d.from, to |-> d.to, of |-> d.asset,
                published |-> Metadata(d, opt)] :
               d \in {x \in deltas : x.asset = f.name}}]

(* build: the assets, which stand in the order of their names.              *)
Assets(files, deltas, opt) ==
  {ManifestAsset(f, deltas, opt) : f \in Listed(files, opt)}

------------------------------------------------------------------------------
(* Reading a manifest.                                                      *)

(* check_expiry: a time that cannot be read is no permission.               *)
Unexpired_IfUnreadable(expires, now) == expires = Bad \/ now < expires
Unexpired(expires, now) == expires # Bad /\ now < expires

(* What a client asks for.  `pattern` is what a name must contain: the      *)
(* suffix of the platform, until a format is asked for.                     *)
Selector == [os : {None} \union STRING, arch : {None} \union STRING,
             format : {None} \union STRING, pattern : {None} \union STRING]

FieldMatches(actual, want) == want # None => actual = want

AssetMatches(asset, selector) ==
  /\ FieldMatches(asset.name.suffix, selector.pattern)
  /\ FieldMatches(asset.os, selector.os)
  /\ FieldMatches(asset.arch, selector.arch)
  /\ FieldMatches(asset.format, selector.format)

(* select_asset: the first of the matching ones.                            *)
Matching(assets, selector) == {a \in assets : AssetMatches(a, selector)}
SelectAsset(assets, selector) ==
  CHOOSE a \in Matching(assets, selector) :
    \A b \in Matching(assets, selector) : a.name.order <= b.name.order

(* delta_asset: `to` is the manifest's version unless it is given, and a    *)
(* delta with a version that cannot be read is left out.                    *)
DeltaAssets(main, version) ==
  {[from |-> d.from, to |-> IF d.to = None THEN version ELSE d.to,
    of |-> d.of, published |-> d.published] :
   d \in {x \in main.deltas : x.from # Bad}}

(* fetch_latest, once the manifest is trusted.                              *)
Read(version, assets, selector) ==
  LET main == SelectAsset(assets, selector)
  IN  IF Matching(assets, selector) = {} THEN [error |-> "no asset"]
      ELSE [error |-> None,
            version |-> version,
            asset |-> [name |-> main.name, os |-> main.os, arch |-> main.arch],
            published |-> main.published,
            deltas |-> DeltaAssets(main, version)]

==============================================================================
