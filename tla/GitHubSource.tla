---------------------------- MODULE GitHubSource ----------------------------
(***************************************************************************)
(* GitHubSource::fetch_latest                                              *)
(* (crates/gpui-updater-core/src/source/github.rs): which release of a     *)
(* repository is offered, which of its assets is downloaded, and which     *)
(* deltas, checksums and signatures are found beside it by their names.    *)
(*                                                                         *)
(* The name of an asset is kept as what the code reads from it: the file   *)
(* it belongs to (`of`), what it is (`part`), and the version a delta      *)
(* starts from.  Every sidecar's name contains the name of its file, so a  *)
(* pattern that matches the file matches the sidecar.                      *)
(*                                                                         *)
(* An operator whose name has an underscore is its namesake with a mistake *)
(* in it; no definition uses it.  The properties are checked to notice it. *)
(***************************************************************************)
EXTENDS Integers, Sequences, FiniteSets, FiniteSetsExt

CONSTANTS Version,             \* numbers: only their order matters
          None,
          MinPage, MaxPage     \* 30 and 100 in the code

(* A release of the API's list, which is newest first.  `tag` is None when  *)
(* it is not a version.  `of` is the platform of a package; a file of       *)
(* checksums lists the files of one platform.                               *)
Part == {"package", "minisig", "delta", "delta minisig", "sums"}

GhAsset == [of : {"mine", "other"}, part : Part, from : Version \union {None}]

GhRelease ==
  [tag : Version \union {None}, draft : BOOLEAN, prerelease : BOOLEAN,
   assets : Seq(GhAsset)]

Settings ==
  [prereleases : BOOLEAN, history : Nat, sums : BOOLEAN, minisig : BOOLEAN]

PerPage(s) ==
  IF s.history + 1 < MinPage THEN MinPage
  ELSE IF s.history + 1 > MaxPage THEN MaxPage ELSE s.history + 1

(* What GitHub chooses from: a page of the list, or all of it when asked    *)
(* for "/releases/latest", which answers with the newest full release.      *)
Shown(list, s) ==
  IF ~s.prereleases /\ s.history = 0 THEN DOMAIN list
  ELSE {i \in DOMAIN list : i <= PerPage(s)}

(* fetch_releases: the places in the list of the release to offer and of    *)
(* `history` earlier ones.                                                  *)
Wanted(list, s) ==
  {i \in Shown(list, s) : ~list[i].draft /\ (s.prereleases \/ ~list[i].prerelease)}
FetchReleases(list, s) ==
  {i \in Wanted(list, s) : Cardinality({j \in Wanted(list, s) : j < i}) <= s.history}

IsDeltaAsset(a) == a.part \in {"delta", "delta minisig"}

AssetMatches(a) == a.of = "mine" /\ a.part # "sums"

(* select_asset: the first asset that can be downloaded, if there is one.   *)
Selectable_Any(assets) == {i \in DOMAIN assets : AssetMatches(assets[i])}
Selectable(assets) ==
  {i \in DOMAIN assets : ~IsDeltaAsset(assets[i]) /\ AssetMatches(assets[i])}
SelectAsset(assets) == assets[Min(Selectable(assets))]

AssetsOf(r) == {r.assets[i] : i \in DOMAIN r.assets}

(* delta_from: <main>.from-<version>.delta, with a version that parses.     *)
IsDeltaOf(main, a) ==
  main.part = "package" /\ a.part = "delta" /\ a.of = main.of /\ a.from # None

(* signature_for: the asset named like `a` with the suffix.                 *)
SignatureFor(r, a, s) ==
  LET suffix(b) ==
        /\ b.of = a.of /\ b.from = a.from
        /\ \/ a.part = "package" /\ b.part = "minisig"
           \/ a.part = "delta" /\ b.part = "delta minisig"
  IN  IF s.minisig /\ \E b \in AssetsOf(r) : suffix(b) THEN "url" ELSE "none"

HasSums(r, s) == s.sums /\ \E a \in AssetsOf(r) : a.part = "sums"

Summed(r, a, s) == s.sums /\ \E b \in AssetsOf(r) : b.part = "sums" /\ b.of = a.of

(* deltas_of: checksums are there for the release that is offered, and only *)
(* a URL of them for an earlier one.                                        *)
DeltasOf(r, main, s, deferred) ==
  IF r.tag = None THEN {}
  ELSE {[from |-> a.from, to |-> r.tag, of |-> a.of,
         published |-> [sum |-> IF deferred /\ HasSums(r, s) THEN "listed"
                                ELSE IF ~deferred /\ Summed(r, a, s) THEN "inline"
                                ELSE "none",
                        minisign |-> SignatureFor(r, a, s),
                        ed25519 |-> FALSE]] :
        a \in {x \in AssetsOf(r) : IsDeltaOf(main, x)}}

EarlierDeltas(list, older, s) ==
  UNION {DeltasOf(list[i], SelectAsset(list[i].assets), s, TRUE) :
         i \in {k \in older : Selectable(list[k].assets) # {}}}

(* fetch_latest: the release, or the error.                                 *)
FetchLatest(list, s) ==
  LET releases == FetchReleases(list, s)
  IN  IF releases = {} THEN [error |-> "parse"]
      ELSE LET first == Min(releases)
               r     == list[first]
               main  == SelectAsset(r.assets)
           IN  IF r.tag = None THEN [error |-> "parse"]
               ELSE IF Selectable(r.assets) = {} THEN [error |-> "no asset"]
               ELSE [error |-> None,
                     version |-> r.tag,
                     asset |-> main,
                     published |->
                       [sum |-> IF Summed(r, main, s) THEN "inline" ELSE "none",
                        minisign |-> SignatureFor(r, main, s),
                        ed25519 |-> FALSE],
                     deltas |-> DeltasOf(r, main, s, FALSE)
                                \union EarlierDeltas(list, releases \ {first}, s)]

==============================================================================
