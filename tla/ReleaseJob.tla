------------------------------ MODULE ReleaseJob -----------------------------
(***************************************************************************)
(* The macOS release job that gpui-updater-release's README describes: get *)
(* Sparkle, embed and sign it, check the bundle, pack it, make Sparkle     *)
(* deltas, write the appcast, upload (sparkle/distribution.rs, delta.rs,   *)
(* dmg.rs, sign.rs, bin/gpui-updater-release.rs).                          *)
(*                                                                         *)
(* The job stops at the first command that fails, may be killed within any *)
(* of them, and is run again from the beginning in the same directories:   *)
(* the cache, the app bundle, and dist keep what earlier jobs left.  The   *)
(* archive has one name in every release, so a delta left by an earlier    *)
(* release is named like one of this release.                              *)
(*                                                                         *)
(* A file is what it rebuilds or contains, and its length identifies it    *)
(* among the files made under its name.                                    *)
(***************************************************************************)
EXTENDS AppBundle

CONSTANTS
  Releases,  (* The releases, as versions in their order.                  *)
  Olds,      (* The older versions deltas may be made from.                *)
  Secrets,   (* The private keys a job may be given, by their public half. *)
  Parts,     (* What an interrupted ditto may have copied.                 *)
  MaxJobs,   (* Bound: how often the job is run.                           *)
  None       (* No file.                                                   *)

ASSUME ReleasesAssumption ==
  /\ Releases \subseteq Nat \ {0} /\ Olds \subseteq Nat /\ MaxJobs \in Nat
  /\ Parts \subseteq SUBSET SparkleCode
  /\ None \notin Olds

(* A CFBundleVersion that is a build stamp and no release.                  *)
Stamp == 0

VARIABLES
  step,      (* The command the job is at.                                 *)
  jobs,      (* How many jobs have been started; the build of the app.     *)
  release,   (* The release the job makes.                                 *)
  base,      (* The older version whose delta it is making.                *)
  keep,      (* The app is sandboxed and keeps the XPC services.           *)
  cached,    (* Where the cached archive's bytes come from, or none.       *)
  tree,      (* Where the unpacked files come from.                        *)
  archive,   (* The packed app in dist.                                    *)
  deltas,    (* The delta in dist for each old version.                    *)
  notes,     (* <delta>.json in dist for each old version.                 *)
  feed       (* The appcast this job wrote.                                *)

job == << jobs, release, base, keep >>
dist == << archive, deltas, notes >>
sparkle == << cached, tree >>
vars == << step, job, sparkle, dist, feed, bundle >>

Steps ==
  {"idle", "fetch", "check", "unpack", "remove", "copy", "trim", "license", "configure",
   "order", "codesign", "verify", "pack", "deltas", "inspect", "create", "compare", "describe",
   "appcast", "upload"}

Delta == [build : 1..MaxJobs, release : Releases \cup {Stamp}, rebuilds : BOOLEAN]

ReleaseTypeOK ==
  /\ step \in Steps
  /\ jobs \in 0..MaxJobs /\ release \in Releases
  /\ base \in Olds \cup {None} /\ keep \in BOOLEAN
  /\ cached \in Origins \cup {None} /\ tree \subseteq Origins
  /\ code \subseteq SparkleCode /\ origin \subseteq Origins
  /\ signer \in [Code -> {Team, Vendor, Nobody}] /\ intact \subseteq Code
  /\ entitled \in BOOLEAN /\ key \in {Key, NoKey}
  /\ bundleVersion \in Releases \cup {Stamp} /\ shortVersion \in Releases \cup {Stamp}
  /\ unsealed \subseteq SparkleCode
  /\ deltas \in [Olds -> Delta \cup {None}]
  /\ notes \in [Olds -> Delta \cup {None}]

Init ==
  /\ step = "idle" /\ jobs = 0
  /\ release \in Releases /\ \A other \in Releases : release <= other
  /\ base = None /\ keep = FALSE
  /\ cached = None /\ tree = {}
  /\ origin \in {{}, {"other"}} /\ code = (IF origin = {} THEN {} ELSE SparkleCode)
  /\ signer = [piece \in Code |-> IF piece \in code THEN Vendor ELSE Nobody]
  /\ intact = code
  /\ entitled = TRUE
  /\ key = NoKey /\ bundleVersion = release /\ shortVersion = release /\ unsealed = {}
  /\ archive = None
  /\ deltas = [old \in Olds |-> None]
  /\ notes = [old \in Olds |-> None]
  /\ feed = None

(* The job starts: the bundler writes a new build, around the frameworks    *)
(* that are there or into an empty bundle, with the versions it was given.  *)
Begin(version, sandboxed, long, short, clean) ==
  /\ step = "idle" /\ jobs < MaxJobs /\ version >= release
  /\ step' = "fetch" /\ jobs' = jobs + 1
  /\ release' = version /\ keep' = sandboxed /\ base' = base
  /\ code' = (IF clean THEN {} ELSE code)
  /\ origin' = (IF clean THEN {} ELSE origin)
  /\ signer' = [piece \in Code |-> IF clean \/ piece = "App" THEN Nobody ELSE signer[piece]]
  /\ intact' = (IF clean THEN {} ELSE intact \ {"App"})
  /\ key' = NoKey
  /\ bundleVersion' = long /\ shortVersion' = short
  /\ UNCHANGED << entitled, unsealed, feed, sparkle, dist >>

(* SparkleRelease::fetch: an archive with the pinned hash is used again,    *)
(* any other is downloaded over.                                            *)
Fetch(bytes) ==
  /\ step = "fetch"
  /\ cached' = (IF cached = "release" THEN cached ELSE bytes)
  /\ step' = "check"
  /\ UNCHANGED << tree, job, dist, feed, bundle >>

(* unpack: the hash is checked whether or not the archive was downloaded.   *)
Pinned == cached = "release"

(* An unpacking over what is there.                                         *)
Replaced_Not == tree

(* unpack removes what an earlier unpacking left.                           *)
Replaced == {}

Unpack ==
  /\ step = "check" /\ Pinned
  /\ tree' = Replaced \cup {"half"}
  /\ step' = "unpack"
  /\ UNCHANGED << cached, job, dist, feed, bundle >>

Unpacked ==
  /\ step = "unpack"
  /\ tree' = (tree \ {"half"}) \cup {cached}
  /\ step' = (IF base = None THEN "remove" ELSE "inspect")
  /\ UNCHANGED << cached, job, dist, feed, bundle >>

(* sparkle embed.                                                           *)
Remove ==
  /\ step = "remove" /\ RemoveFramework /\ step' = "copy"
  /\ UNCHANGED << job, sparkle, dist, feed >>

Copy(pieces) ==
  /\ step = "copy" /\ "half" \notin origin /\ CopyPart(pieces)
  /\ UNCHANGED << step, job, sparkle, dist, feed >>

Copied ==
  /\ step = "copy" /\ "half" \in origin /\ CopyRest(tree) /\ step' = "trim"
  /\ UNCHANGED << job, sparkle, dist, feed >>

Trim ==
  /\ step = "trim" /\ RemoveServices(keep) /\ step' = "license"
  /\ UNCHANGED << job, sparkle, dist, feed >>

License ==
  /\ step = "license" /\ CopyLicense /\ step' = "configure"
  /\ UNCHANGED << job, sparkle, dist, feed >>

Settle ==
  /\ step = "configure" /\ Configure /\ step' = "order"
  /\ UNCHANGED << job, sparkle, dist, feed >>

(* sparkle codesign, one call of codesign at a time, then the app itself.   *)
Order ==
  /\ step = "order" /\ StartSealing /\ step' = "codesign"
  /\ UNCHANGED << job, sparkle, dist, feed >>

Codesign(piece) ==
  /\ step = "codesign" /\ SealNext(piece)
  /\ UNCHANGED << step, job, sparkle, dist, feed >>

CodesignApp ==
  /\ step = "codesign" /\ unsealed = {} /\ SignApp /\ step' = "verify"
  /\ UNCHANGED << job, sparkle, dist, feed >>

(* sparkle verify, which may be given the feed and the public key or not.   *)
Verify(settings) ==
  /\ step = "verify" /\ VerifyBundle(settings, keep) /\ step' = "pack"
  /\ UNCHANGED << job, sparkle, dist, feed, bundle >>

(* The job packs the bundle into the archive.                               *)
Pack ==
  /\ step = "pack"
  /\ archive' = [build |-> jobs, code |-> code, origin |-> origin, sealed |-> Verifies,
                 entitled |-> entitled, key |-> key,
                 bundleVersion |-> bundleVersion, shortVersion |-> shortVersion]
  /\ step' = "deltas"
  /\ UNCHANGED << deltas, notes, feed, job, sparkle, bundle >>

(* The job ends, after it uploaded the feed and the files of dist, because  *)
(* a command failed, or killed.  What it did not write down is forgotten.   *)
Ends ==
  /\ step' = "idle" /\ base' = None /\ keep' = FALSE /\ feed' = None /\ unsealed' = {}
  /\ UNCHANGED << jobs, release, code, origin, signer, intact, entitled, key, versions >>

Put(files, old, file) == [files EXCEPT ![old] = file]

(* sparkle delta, from an older app: it fetches Sparkle again for its tool. *)
StartDelta(old) ==
  /\ step = "deltas"
  /\ base' = old
  /\ step' = "fetch"
  /\ UNCHANGED << jobs, release, keep, dist, feed, sparkle, bundle >>

(* inspect: the release a delta produces is the new app's CFBundleVersion.  *)
Inspected == bundleVersion

(* create: the file in the way is removed before BinaryDelta writes its     *)
(* own; <delta>.json stays as it was.                                       *)
Create ==
  /\ step = "inspect"
  /\ deltas' = Put(deltas, base, [build |-> jobs, release |-> Inspected, rebuilds |-> FALSE])
  /\ step' = "create"
  /\ UNCHANGED << archive, notes, feed, job, sparkle, bundle >>

(* BinaryDelta fails and its output is removed.                             *)
CreateFails ==
  /\ step = "create" /\ Ends
  /\ deltas' = Put(deltas, base, None)
  /\ UNCHANGED << archive, notes, sparkle >>

(* BinaryDelta ends; what it wrote rebuilds the new app or does not.        *)
Created(right) ==
  /\ step = "create"
  /\ deltas' = Put(deltas, base, [build |-> jobs, release |-> Inspected, rebuilds |-> right])
  /\ step' = "compare"
  /\ UNCHANGED << archive, notes, feed, job, sparkle, bundle >>

(* verify: the delta is applied and the result compared with the new app; a *)
(* delta that fails is removed.                                             *)
Rebuilds == deltas[base].rebuilds
Agrees ==
  /\ step = "compare" /\ Rebuilds /\ step' = "describe"
  /\ UNCHANGED << dist, feed, job, sparkle, bundle >>

Differs ==
  /\ step = "compare" /\ ~Rebuilds /\ Ends
  /\ deltas' = Put(deltas, base, None)
  /\ UNCHANGED << archive, notes, sparkle >>

(* write_metadata.                                                          *)
Describe ==
  /\ step = "describe"
  /\ notes' = Put(notes, base, deltas[base])
  /\ base' = None
  /\ step' = "deltas"
  /\ UNCHANGED << archive, deltas, feed, jobs, release, keep, sparkle, bundle >>

DeltasMade ==
  /\ step = "deltas" /\ step' = "appcast"
  /\ UNCHANGED << job, sparkle, dist, feed, bundle >>

(* A description that is only there.                                        *)
Described_Any(old) == notes[old] # None

(* read_metadata: the description is there and names the file's length.     *)
Described(old) == notes[old] # None /\ notes[old] = deltas[old]

(* The appcast command attaches a delta only when it produces this release. *)
Produces(old) == notes[old].release = release

(* SparkleKey::expect_public_key.                                           *)
ExpectPublicKey(secret) == secret = Key

(* SparkleKey::sign_file, which checks its own signature.                   *)
Signed(file, secret) == [file |-> file, secret |-> secret]

Attached == {old \in Olds : deltas[old] # None}

(* appcast: find_deltas reads every delta in dist; the enclosure and each   *)
(* delta are signed as they are now, with the private key the job is given, *)
(* which is compared with the public key if that is given too.              *)
Appcast(secret, compared) ==
  /\ step = "appcast"
  /\ compared => ExpectPublicKey(secret)
  /\ \A old \in Attached : Described(old) /\ Produces(old)
  /\ feed' = [version |-> release, compared |-> compared, enclosure |-> Signed(archive, secret),
              deltas |-> [old \in Attached |-> Signed(deltas[old], secret)]]
  /\ step' = "upload"
  /\ UNCHANGED << job, dist, sparkle, bundle >>

Stop == step # "idle" /\ Ends /\ UNCHANGED << sparkle, dist >>

(* Another job, or the CI's cache, leaves something else in the cache.      *)
Disturbed(bytes, files) ==
  /\ step = "idle" /\ jobs < MaxJobs
  /\ cached' = bytes /\ tree' = files
  /\ UNCHANGED << step, job, dist, feed, bundle >>

Next ==
  \/ \E version \in Releases, sandboxed, clean \in BOOLEAN :
       \E long \in Releases \cup {Stamp}, short \in Releases :
         Begin(version, sandboxed, long, short, clean)
  \/ \E bytes \in {"release", "other"} : Fetch(bytes)
  \/ Unpack \/ Unpacked
  \/ Remove \/ (\E pieces \in Parts : Copy(pieces)) \/ Copied
  \/ Trim \/ License \/ Settle
  \/ Order \/ (\E piece \in SparkleCode : Codesign(piece)) \/ CodesignApp
  \/ (\E settings \in BOOLEAN : Verify(settings)) \/ Pack
  \/ (\E old \in Olds : StartDelta(old)) \/ Create \/ CreateFails
  \/ (\E right \in BOOLEAN : Created(right)) \/ Agrees \/ Differs \/ Describe \/ DeltasMade
  \/ (\E secret \in Secrets, compared \in BOOLEAN : Appcast(secret, compared)) \/ Stop
  \/ \E bytes \in {None, "other"}, files \in {{}, {"half"}, {"other"}} : Disturbed(bytes, files)

Spec == Init /\ [][Next]_vars

----------------------------------------------------------------------------
(* The check of the bundle never refuses what embed and codesign did: every *)
(* piece is sealed by the team after what it contains, a downloader that is *)
(* kept keeps its entitlement, and no service is left unless it is wanted.  *)
SealedInsideOut ==
  step = "verify" =>
    /\ \A piece \in code \cup {"App"} : piece \in intact /\ signer[piece] = Team
    /\ IF keep THEN code = SparkleCode /\ entitled ELSE code = SparkleCode \ Services

(* Whatever earlier jobs, interrupted copies and the cache left, the packed *)
(* app holds the pinned Sparkle alone, sealed, and trusts the key.          *)
PackedIsPinned ==
  archive # None =>
    /\ archive.origin = {"release"}
    /\ archive.code \in {SparkleCode, SparkleCode \ Services}
    /\ archive.sealed
    /\ archive.key = Key

(* What is uploaded fits together.  The app in the archive has one version, *)
(* which Sparkle compares with the feed's; nothing compares it with the tag *)
(* that the feed announces, but with a delta that this job made of another  *)
(* version no feed is written.  The signatures are over the files that are  *)
(* uploaded with it and by one key, which is the one the app trusts if the  *)
(* command was given the public key.                                        *)
FeedFitsFiles ==
  step = "upload" =>
    /\ archive.bundleVersion = archive.shortVersion
    /\ feed.enclosure.file = archive
    /\ feed.compared => feed.enclosure.secret = archive.key
    /\ \A old \in DOMAIN feed.deltas :
         /\ feed.deltas[old] = Signed(deltas[old], feed.enclosure.secret)
         /\ deltas[old].build = archive.build => archive.bundleVersion = feed.version

(* No uploaded feed names a delta that was not compared with the app it     *)
(* should rebuild, or that rebuilds an app of another release.  A delta of  *)
(* an earlier job of the release was compared with that job's build.        *)
DeltasRebuildRelease ==
  step = "upload" =>
    \A old \in DOMAIN feed.deltas :
      /\ feed.deltas[old].file.rebuilds
      /\ feed.deltas[old].file.release = feed.version
=============================================================================
