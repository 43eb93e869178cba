---------------------------- MODULE UpdateSource ----------------------------
(***************************************************************************)
(* One check for an update, from what was published to the file that is    *)
(* accepted: a source or a chain of sources is asked                       *)
(* (crates/gpui-updater-core/src/source/), the engine decides whether to   *)
(* offer the release (UpdateEngine::check in engine.rs), and a file of it  *)
(* is downloaded, or one that was downloaded earlier is reused, and        *)
(* verified (module Verification).                                         *)
(*                                                                         *)
(* Publishers and servers are part of the model.  A manifest is replaced   *)
(* while clients read it, body and signature are two requests, and a       *)
(* server may answer with an earlier copy of either.  What a feed holds is *)
(* chosen when it is first looked at, among the feeds that the tools or    *)
(* GitHub can produce, and is forgotten when nothing reads it any more.    *)
(*                                                                         *)
(* An operator whose name has an underscore is its namesake with a mistake *)
(* in it; no definition uses it.  The properties are checked to notice it. *)
(***************************************************************************)
EXTENDS Verification, Integers, Sequences, SequencesExt

CONSTANTS Version, Installed, None, Bad, MinPage, MaxPage,
          Chains,                   \* the sources a client may be built with
          Lifetime,                 \* from the signing of a manifest to `expires`
          MaxTime, MaxManifests,    \* bounds on the publisher
          Lists, GitHubClients,     \* GitHub: repositories and client settings
          Appcasts, Clients,        \* appcasts and the systems reading them
          Trees, Selectors          \* release directories with build options

ASSUME InstalledAssumption == Installed \in Version
ASSUME LifetimeAssumption == Lifetime \in Nat \ {0}

Kind == {"github", "appcast", "manifest", "signed manifest"}

GitHub   == INSTANCE GitHubSource
Appcast  == INSTANCE AppcastSource
Static   == INSTANCE ManifestSource

ASSUME NumbersAssumption ==
  Version \subseteq Nat /\ MinPage \in Nat /\ MaxPage \in Nat
ASSUME ErrorsAssumption == None \notin {"parse", "no asset"}
ASSUME ChainsAssumption ==
  Chains \subseteq Seq(Kind) \ {<< >>}
ASSUME FeedsAssumption ==
  /\ Lists \subseteq Seq(GitHub!GhRelease) /\ GitHubClients \subseteq GitHub!Settings
  /\ Appcasts \subseteq Seq(Appcast!AppcastItem) /\ Clients \subseteq Appcast!Client
ASSUME TreesAssumption ==
  Trees \subseteq [files : SUBSET Static!ReleaseFile,
                   deltas : SUBSET Static!ReleaseDelta, opt : Static!Options]

VARIABLES
  pc,          \* where the check stands
  sources,     \* the sources, in the order they are asked
  turn,        \* the one that is asked
  error,       \* the error to report if none answers
  now, docs,   \* the clock, and every manifest this source ever published
  body,        \* the manifest that was fetched
  feed,        \* what the document that was read says
  release      \* the answer

reading == << sources, turn, error >>
channel == << now, docs >>
file_vars == << config, published, file >>
vars == << pc, sources, turn, error, now, docs, body, feed, release,
           config, published, file >>

Blank ==
  /\ config = [policy |-> "Off", minisign_keys |-> FALSE, ed25519_key |-> FALSE,
               binding |-> "IfPresent"]
  /\ published = [sum |-> "none", minisign |-> "none", ed25519 |-> FALSE]
  /\ file = None

FirstDocs == << [version |-> Installed, at |-> 0, expires |-> Lifetime] >>

Init ==
  /\ pc = "ask" /\ sources \in Chains /\ turn = 1 /\ error = None
  /\ now = 0 /\ docs = FirstDocs
  /\ body = None /\ feed = None /\ release = None
  /\ Blank

Asking(kinds) == pc = "ask" /\ sources[turn] \in kinds
Manifests == {"manifest", "signed manifest"}

------------------------------------------------------------------------------
(* The publisher and the clock, while they matter to the client.            *)

Pending == Asking(Manifests) \/ pc \in {"signature", "expiry"}

(* build with `expires_after`, without it, or with a text that is no time.  *)
Publish ==
  /\ Pending /\ Len(docs) < MaxManifests
  /\ \E v \in Version, e \in {now + Lifetime, None, Bad} :
       /\ v >= Last(docs).version
       /\ docs' = Append(docs, [version |-> v, at |-> now, expires |-> e])
  /\ UNCHANGED << pc, now, body, feed, release, reading, file_vars >>

Tick ==
  /\ Pending /\ now < MaxTime
  /\ now' = now + 1
  /\ UNCHANGED << pc, docs, body, feed, release, reading, file_vars >>

------------------------------------------------------------------------------
(* FallbackSource: the first source that answers; the primary's error.      *)

Reported(e) == IF turn = 1 THEN [by |-> turn, error |-> e] ELSE error

Fails(e) ==
  /\ error' = Reported(e)
  /\ turn' = turn + 1
  /\ pc' = IF turn = Len(sources) THEN "failed" ELSE "ask"
  /\ body' = None /\ feed' = None
  /\ now' = 0 /\ docs' = FirstDocs      \* each source has its own publisher
  /\ UNCHANGED << sources, release, file_vars >>

Answers(answer) ==
  /\ pc' = "answered" /\ release' = answer
  /\ sources' = << >> /\ turn' = 0 /\ error' = None
  /\ UNCHANGED << body, channel, file_vars >>

Unreachable == pc \in {"ask", "signature"} /\ Fails("http")

AskGitHub ==
  /\ Asking({"github"})
  /\ \E list \in Lists, s \in GitHubClients :
       LET answer == GitHub!FetchLatest(list, s)
       IN  IF answer.error # None THEN Fails(answer.error)
           ELSE /\ feed' = [kind |-> "github", list |-> list, settings |-> s]
                /\ Answers(answer)

AskAppcast ==
  /\ Asking({"appcast"})
  /\ \E xml \in Appcasts, c \in Clients :
       LET answer == Appcast!FetchLatest(xml, c)
       IN  IF answer.error # None THEN Fails(answer.error)
           ELSE /\ feed' = [kind |-> "appcast", items |-> xml, client |-> c]
                /\ Answers(answer)

------------------------------------------------------------------------------
(* StaticManifestSource: any manifest ever published may be served, and any *)
(* signature.                                                               *)

FetchBody ==
  /\ Asking(Manifests)
  /\ body' \in ToSet(docs)
  /\ pc' = IF sources[turn] = "signed manifest" THEN "signature" ELSE "expiry"
  /\ UNCHANGED << feed, release, reading, channel, file_vars >>

(* fetch_signed: a signature is of one manifest.                            *)
FetchSignature ==
  /\ pc = "signature"
  /\ \E signed \in ToSet(docs) :
       IF signed = body
       THEN /\ pc' = "expiry"
            /\ UNCHANGED << body, feed, release, reading, channel, file_vars >>
       ELSE Fails("signature")

CheckExpiry ==
  /\ pc = "expiry"
  /\ IF body.expires = None \/ Static!Unexpired(body.expires, now)
     THEN /\ pc' = "trusted"
          /\ feed' = [kind |-> "manifest", version |-> body.version]
          /\ body' = None /\ now' = 0 /\ docs' = FirstDocs
          /\ UNCHANGED << release, reading, file_vars >>
     ELSE Fails(IF body.expires = Bad THEN "parse" ELSE "expired")

(* The manifest says what the builder wrote into it.                        *)
Parse ==
  /\ pc = "trusted"
  /\ \E tree \in Trees, s \in Selectors :
       /\ Static!Builds(tree.files, tree.deltas, tree.opt)
       /\ feed' = [kind |-> "manifest", version |-> feed.version, tree |-> tree,
                   selector |-> s]
  /\ pc' = "parsed"
  /\ UNCHANGED << body, release, reading, channel, file_vars >>

Listing == Static!Assets(feed.tree.files, feed.tree.deltas, feed.tree.opt)

Pick ==
  /\ pc = "parsed"
  /\ LET answer == Static!Read(feed.version, Listing, feed.selector)
     IN  IF answer.error # None THEN Fails(answer.error)
         ELSE Answers(answer) /\ UNCHANGED feed

------------------------------------------------------------------------------
(* UpdateEngine.                                                            *)

(* check.  `secure`: the artifact and its signature have https URLs.        *)
Check ==
  /\ pc = "answered"
  /\ published' = release.published
  /\ \E c \in Config, secure \in BOOLEAN :
       /\ config' = c
       /\ pc' = IF release.version <= Installed THEN "up to date"
                ELSE IF Precheck' /\ secure THEN "offered" ELSE "refused"
  /\ feed' = None
  /\ UNCHANGED << release, body, reading, channel, file >>

(* What the integrity data turn out to be when they are fetched.            *)
Resolved(p) ==
  {q \in Published :
     /\ q.ed25519 = p.ed25519
     /\ q.minisign \in IF p.minisign = "url" THEN {"url", "blank_url"} ELSE {p.minisign}
     /\ q.sum \in IF p.sum = "listed" THEN {"listed", "unlisted"} ELSE {p.sum}}

(* download_cancellable: the artifact, or a delta on the way to it.         *)
Download ==
  /\ pc = "offered"
  /\ \E f \in {release} \union release.deltas : published' \in Resolved(f.published)
  /\ file' \in File /\ UNCHANGED config
  /\ pc' = IF Accepted' THEN "accepted" ELSE "rejected"
  /\ release' = None
  /\ UNCHANGED << body, feed, reading, channel >>

(* reusable: only what was checked.  Otherwise the artifact is downloaded.  *)
Reuse ==
  /\ pc = "offered"
  /\ published' \in Resolved(release.published)
  /\ file' \in File /\ UNCHANGED config
  /\ Checked'
  /\ pc' = "reused" /\ release' = None
  /\ UNCHANGED << body, feed, reading, channel >>

Next ==
  \/ Publish \/ Tick
  \/ Unreachable \/ AskGitHub \/ AskAppcast
  \/ FetchBody \/ FetchSignature \/ CheckExpiry \/ Parse \/ Pick
  \/ Check \/ Download \/ Reuse

Spec == Init /\ [][Next]_vars

------------------------------------------------------------------------------
(* Properties.                                                              *)

(* A signed manifest with `expires` "bounds how long a replay works"        *)
(* (docs/verification.md:137): whatever copies are served, a manifest is    *)
(* trusted only while no newer version was published a lifetime ago.        *)
FreshEnough ==
  [][(pc' = "trusted" /\ pc # "trusted" /\ body.expires # None) =>
       \A d \in ToSet(docs) :
         d.version > body.version => now - d.at < Lifetime]_vars

(* The release a source answers with is the newest one that is for this     *)
(* client: GitHub's first release that is neither a draft nor an unwanted   *)
(* prerelease, also when the list is read for the deltas of earlier ones;   *)
(* the appcast's highest version that applies.  When no source answers, the *)
(* error is the primary's (fallback.rs:16).                                 *)
OffersNewest ==
  /\ pc = "failed" => error.by = 1
  /\ pc = "answered" /\ feed.kind = "github" =>
       LET unwanted(r) == r.draft \/ (r.prerelease /\ ~feed.settings.prereleases)
       IN  \E i \in DOMAIN feed.list :
             /\ ~unwanted(feed.list[i]) /\ release.version = feed.list[i].tag
             /\ \A j \in 1..(i - 1) : unwanted(feed.list[j])
  /\ pc = "answered" /\ feed.kind = "appcast" =>
       LET item(i) == Appcast!ReadItem(feed.items[i])
       IN  /\ \E i \in DOMAIN feed.items :
                /\ Appcast!Offers(item(i), feed.client)
                /\ release = Appcast!Candidate(item(i), feed.client)
           /\ \A i \in DOMAIN feed.items :
                Appcast!Offers(item(i), feed.client) =>
                  Appcast!Candidate(item(i), feed.client).version <= release.version

(* What would be downloaded is a file for this system, never a delta or the *)
(* signature of one (github.rs:311), and every delta that comes with it     *)
(* rebuilds that same file, from the release it is attached to.             *)
AnswerFits ==
  pc = "answered" =>
    /\ feed.kind = "github" =>
         /\ release.asset.of = "mine" /\ release.asset.part \in {"package", "minisig"}
         /\ \A d \in release.deltas : \E r \in ToSet(feed.list) :
              /\ d.to = r.tag /\ ~r.draft
              /\ \E a \in ToSet(r.assets) :
                   a.part = "delta" /\ a.of = "mine" /\ a.from = d.from
    /\ feed.kind = "appcast" =>
         release.asset.os \in
           [macos |-> {None, "macos"}, linux |-> {"linux-x64", "linux"},
            windows |-> {None, "windows", "windows-x64"}][feed.client.os]
    /\ feed.kind = "manifest" =>
         /\ feed.selector.os # None => release.asset.os = feed.selector.os
         /\ feed.selector.arch # None => release.asset.arch = feed.selector.arch
         /\ \A d \in release.deltas : d.of = release.asset.name /\ d.from # Bad

(* A directory that was built with a required target serves it: in a format *)
(* it is there in, a client for the target finds a file with every delta    *)
(* made for it, and when signatures are required nothing the client may     *)
(* download is without one.                                                 *)
TargetsAreServed ==
  pc = "parsed" =>
    \A target \in feed.tree.opt.required :
      LET answer(format) ==
            Static!Read(feed.version, Listing,
              [os |-> target.os, arch |-> target.arch, format |-> format,
               pattern |-> None])
          answers == {answer(asset.format) : asset \in Listing}
          found   == {a \in answers : a.error = None}
      IN  /\ found # {}
          /\ \A a \in found :
               /\ \A d \in feed.tree.deltas :
                    d.asset = a.asset.name /\ d.from # Bad =>
                      \E e \in a.deltas : e.from = d.from
               /\ feed.tree.opt.signatures = "Required" =>
                    \A f \in {a} \union a.deltas : f.published.minisign # "none"

(* What is accepted, or reused, passed what the policy asks for.  "Any      *)
(* mismatch fails the download" (config.rs:27): no policy but Off lets a    *)
(* check that could be made fail, not even when another one passed.  "The   *)
(* Signature/Strict modes instead fail closed" (config.rs:33): a signature, *)
(* a checksum or a named version that is required is there, whichever input *)
(* is missing, blank or does not arrive.  A reused file passed some check.  *)
PolicyHolds ==
  pc \in {"accepted", "reused"} =>
    /\ RequiresSignature =>
         \/ config.minisign_keys /\ file.minisigned
         \/ config.ed25519_key /\ file.ed25519_signed
    /\ RequiresChecksum => file.matches_sum
    /\ ~SkipsAll =>
         /\ SumKnown => file.matches_sum
         /\ Ed25519InReach => file.ed25519_signed
         /\ MinisignKnown => file.minisigned /\ file.names # "another version"
         /\ MinisignKnown /\ config.binding = "Required" => file.names = "this version"
    /\ pc = "reused" => SumKnown \/ Ed25519InReach \/ MinisignKnown

(* "sparkle:minimumUpdateVersion: below it, the update is not offered"      *)
(* (crates/gpui-updater-release/src/appcast.rs:188).                        *)
MinimumUpdateHolds ==
  [][(pc = "answered" /\ pc' = "offered" /\ feed.kind = "appcast") =>
       \E i \in DOMAIN feed.items :
         LET item == feed.items[i]
         IN  /\ Appcast!Offers(Appcast!ReadItem(item), feed.client)
             /\ Appcast!Candidate(Appcast!ReadItem(item), feed.client) = release
             /\ item.minimum_update # None => Installed >= item.minimum_update]_vars

==============================================================================
