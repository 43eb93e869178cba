--------------------------- MODULE ReleaseJobProofs --------------------------
(***************************************************************************)
(* What the release job packs and uploads, for any number of jobs,         *)
(* releases and older versions.                                            *)
(***************************************************************************)
EXTENDS ReleaseJob, TLAPS

(* The steps of the job, once Sparkle is unpacked for the bundle.           *)
Bundling ==
  {"copy", "trim", "license", "configure", "order", "codesign", "verify", "pack"}
Embedded == Bundling \ {"copy"}
Making == {"inspect", "create", "compare", "describe"}
Fetching == {"fetch", "check", "unpack"}

(* The bundle is in the archive: the job is past Pack.                      *)
IsPacked ==
  step \in Making \cup {"deltas", "appcast", "upload"} \/ (step \in Fetching /\ base # None)

Shapes ==
  /\ step \in Steps /\ jobs \in Nat
  /\ signer \in [Code -> {Team, Vendor, Nobody}]
  /\ deltas = [old \in Olds |-> deltas[old]]
  /\ notes = [old \in Olds |-> notes[old]]

(* Where the bytes are from: what is unpacked passed the check of the hash, *)
(* and the bundle's framework was copied from what is unpacked.             *)
PinnedBytes ==
  /\ step = "unpack" => tree = {"half"} /\ cached = "release"
  /\ step \in {"remove", "copy", "inspect"} => tree = {"release"}
  /\ step = "copy" => origin \subseteq {"half"}
  /\ step \in Embedded => origin = {"release"}

(* What is in the bundle, command by command.                               *)
Trimmed == IF keep THEN code = SparkleCode ELSE code = SparkleCode \ Services
Contents ==
  /\ step = "trim" => code = SparkleCode
  /\ step \in Embedded \ {"trim"} => Trimmed
  /\ step \in Embedded => entitled = TRUE
  /\ step \in {"order", "codesign", "verify", "pack"} =>
       key = Key /\ bundleVersion = shortVersion

(* What is sealed stays sealed: the framework is the last to be signed.     *)
Sealing ==
  /\ step = "codesign" =>
       /\ unsealed \subseteq code
       /\ unsealed # {} => Framework \in unsealed
       /\ \A piece \in code \ unsealed : piece \in intact /\ signer[piece] = Team
  /\ step \in {"verify", "pack"} =>
       \A piece \in code \cup {"App"} : piece \in intact /\ signer[piece] = Team

(* The archive, while the job that made it runs, holds the bundle.          *)
PackedForUpload ==
  IsPacked =>
    /\ archive.build = jobs /\ archive.key = Key
    /\ archive.bundleVersion = bundleVersion /\ archive.shortVersion = bundleVersion

(* A delta the running job made produces the version that is packed.        *)
OwnDeltas ==
  \A old \in Olds : deltas[old] # None =>
    /\ deltas[old].build \in Nat /\ deltas[old].build <= jobs
    /\ ~IsPacked /\ step # "idle" => deltas[old].build < jobs
    /\ IsPacked /\ deltas[old].build = jobs => deltas[old].release = bundleVersion

(* A delta's description was written for a delta that was compared.         *)
DescribedRebuild ==
  /\ step \in {"idle", "remove"} \cup Bundling => base = None
  /\ step \in Making => base \in Olds
  /\ step \in Fetching => base = None \/ base \in Olds
  /\ step = "describe" => deltas[base].rebuilds
  /\ \A old \in Olds : notes[old] # None => notes[old].rebuilds

(* The feed is of the files in dist.                                        *)
FeedIsCurrent ==
  step = "upload" =>
    /\ feed.version = release
    /\ feed.enclosure.file = archive
    /\ feed.compared => feed.enclosure.secret = Key
    /\ DOMAIN feed.deltas = Attached
    /\ \A old \in Attached :
         /\ feed.deltas[old] = Signed(deltas[old], feed.enclosure.secret)
         /\ deltas[old] = notes[old] /\ notes[old].release = release

ReleaseInv ==
  /\ Shapes /\ PinnedBytes /\ Contents /\ Sealing
  /\ PackedForUpload /\ OwnDeltas /\ DescribedRebuild /\ FeedIsCurrent /\ PackedIsPinned

USE DEF Steps, Bundling, Embedded, Making, Fetching, versions

(* No job has run, so nothing is packed, described or written.              *)
LEMMA InitReleaseInv == Init => ReleaseInv
  BY DEF Init, ReleaseInv, Shapes, PinnedBytes, Contents, Trimmed, Sealing, IsPacked,
         PackedForUpload, OwnDeltas, DescribedRebuild, FeedIsCurrent, PackedIsPinned

----------------------------------------------------------------------------
(* A command of the job up to Pack.                                         *)
Assembles ==
  \/ Remove \/ (\E pieces \in Parts : Copy(pieces)) \/ Copied
  \/ Trim \/ License \/ Settle
  \/ Order \/ (\E piece \in SparkleCode : Codesign(piece)) \/ CodesignApp
  \/ (\E settings \in BOOLEAN : Verify(settings)) \/ Pack

(* A command that gets Sparkle, or what is between jobs.                    *)
Provides ==
  \/ \E version \in Releases, sandboxed, clean \in BOOLEAN :
       \E long \in Releases \cup {Stamp}, short \in Releases :
         Begin(version, sandboxed, long, short, clean)
  \/ \E bytes \in {"release", "other"} : Fetch(bytes)
  \/ Unpack \/ Unpacked \/ Stop
  \/ \E bytes \in {None, "other"}, files \in {{}, {"half"}, {"other"}} : Disturbed(bytes, files)

(* A command after Pack.                                                    *)
Publishes ==
  \/ (\E old \in Olds : StartDelta(old)) \/ Create \/ CreateFails
  \/ (\E right \in BOOLEAN : Created(right)) \/ Agrees \/ Differs \/ Describe \/ DeltasMade
  \/ (\E secret \in Secrets, compared \in BOOLEAN : Appcast(secret, compared))

(* Every step is one of the three kinds.                                    *)
LEMMA NextKinds == Next => Assembles \/ Provides \/ Publishes
  BY DEF Next, Assembles, Provides, Publishes
(* The variables keep their shapes. *)
LEMMA ShapesKept ==
  ASSUME ReleaseInv, Next
  PROVE  Shapes'
<1>1. CASE Assembles
  BY <1>1 DEF Assembles, ReleaseInv, Shapes, Code,
       Remove, Copy, Copied, Trim, License, Settle, Order, Codesign, CodesignApp, Verify, Pack,
       RemoveFramework, CopyPart, CopyRest, RemoveServices, CopyLicense, Configure, StartSealing,
       SealNext, SignApp, Sign, bundle, job, dist, sparkle
<1>2. CASE Provides
  BY <1>2 DEF Provides, ReleaseInv, Shapes, Code,
       Begin, Fetch, Unpack, Unpacked, Stop, Ends, Disturbed, bundle, job, dist, sparkle
<1>3. CASE Publishes
  BY <1>3 DEF Publishes, ReleaseInv, Shapes, Put,
       StartDelta, Create, CreateFails, Created, Agrees, Differs, Describe, DeltasMade, Appcast, Ends, bundle, job, dist, sparkle
<1> QED  BY <1>1, <1>2, <1>3, NextKinds

(* Only the pinned release reaches the framework. *)
LEMMA PinnedBytesKept ==
  ASSUME ReleaseInv, Next
  PROVE  PinnedBytes'
<1>1. CASE Assembles
  BY <1>1 DEF Assembles, ReleaseInv, Shapes, PinnedBytes,
       Remove, Copy, Copied, Trim, License, Settle, Order, Codesign, CodesignApp, Verify, Pack,
       RemoveFramework, CopyPart, CopyRest, RemoveServices, CopyLicense, Configure, StartSealing,
       SealNext, SignApp, Sign, bundle, job, dist, sparkle
<1>2. CASE Provides
  BY <1>2 DEF Provides, ReleaseInv, Shapes, PinnedBytes, Pinned, Replaced, DescribedRebuild,
       Begin, Fetch, Unpack, Unpacked, Stop, Ends, Disturbed, bundle, job, dist, sparkle
<1>3. CASE Publishes
  BY <1>3 DEF Publishes, ReleaseInv, Shapes, PinnedBytes, DescribedRebuild,
       StartDelta, Create, CreateFails, Created, Agrees, Differs, Describe, DeltasMade, Appcast, Ends, bundle, job, dist, sparkle
<1> QED  BY <1>1, <1>2, <1>3, NextKinds

(* The bundle holds what the commands so far put in it. *)
LEMMA ContentsKept ==
  ASSUME ReleaseInv, Next
  PROVE  Contents'
<1>1. CASE Assembles
  <2> USE DEF ReleaseInv, Contents, Trimmed, bundle, job
  <2>1. CASE Remove
    BY <2>1 DEF Remove, RemoveFramework
  <2>2. CASE \E pieces \in Parts : Copy(pieces)
    BY <2>2 DEF Copy, CopyPart
  <2>3. CASE Copied
    BY <2>3 DEF Copied, CopyRest
  <2>4. CASE Trim
    BY <2>4 DEF Trim, RemoveServices
  <2>5. CASE License
    BY <2>5 DEF License, CopyLicense
  <2>6. CASE Settle
    BY <2>6 DEF Settle, Configure, CheckBundleVersion
  <2>7. CASE Order
    BY <2>7 DEF Order, StartSealing
  <2>8. CASE \E piece \in SparkleCode : Codesign(piece)
    BY <2>8 DEF Codesign, SealNext, Sign, Preserves
  <2>9. CASE CodesignApp
    BY <2>9 DEF CodesignApp, SignApp, Sign
  <2>10. CASE \E settings \in BOOLEAN : Verify(settings)
    BY <2>10 DEF Verify, bundle
  <2>11. CASE Pack
    BY <2>11 DEF Pack, bundle
  <2> QED  BY <1>1, <2>1, <2>2, <2>3, <2>4, <2>5, <2>6, <2>7, <2>8, <2>9, <2>10, <2>11 DEF Assembles
<1>2. CASE Provides
  BY <1>2 DEF Provides, ReleaseInv, Shapes, Contents, Trimmed,
       Begin, Fetch, Unpack, Unpacked, Stop, Ends, Disturbed, bundle, job, dist, sparkle
<1>3. CASE Publishes
  BY <1>3 DEF Publishes, ReleaseInv, Shapes, Contents, Trimmed,
       StartDelta, Create, CreateFails, Created, Agrees, Differs, Describe, DeltasMade, Appcast, Ends, bundle, job, dist, sparkle
<1> QED  BY <1>1, <1>2, <1>3, NextKinds

(* The archive is of the bundle and the job. *)
LEMMA PackedForUploadKept ==
  ASSUME ReleaseInv, Next
  PROVE  PackedForUpload'
<1>1. CASE Assembles
  <2>1. CASE Pack
    <3>1. key = Key /\ bundleVersion = shortVersion
      BY <2>1 DEF Pack, ReleaseInv, Contents
    <3>2. /\ archive'.build = jobs' /\ archive'.key = Key
          /\ archive'.bundleVersion = bundleVersion' /\ archive'.shortVersion = bundleVersion'
      BY <2>1, <3>1 DEF Pack, bundle, job
    <3> QED  BY <3>2 DEF PackedForUpload
  <2>2. CASE ~Pack
    BY <1>1, <2>2 DEF Assembles, PackedForUpload, IsPacked,
       Remove, Copy, Copied, Trim, License, Settle, Order, Codesign, CodesignApp, Verify
  <2> QED  BY <2>1, <2>2
<1>2. CASE Provides
  BY <1>2 DEF Provides, ReleaseInv, Shapes, PackedForUpload, IsPacked, Contents, DescribedRebuild,
       Begin, Fetch, Unpack, Unpacked, Stop, Ends, Disturbed, bundle, job, dist, sparkle
<1>3. CASE Publishes
  BY <1>3 DEF Publishes, ReleaseInv, Shapes, PackedForUpload, IsPacked, Contents, DescribedRebuild,
       StartDelta, Create, CreateFails, Created, Agrees, Differs, Describe, DeltasMade, Appcast, Ends, bundle, job, dist, sparkle
<1> QED  BY <1>1, <1>2, <1>3, NextKinds

(* A delta is made of the bundle that was packed, under the job's number,   *)
(* which no delta has before.                                               *)
LEMMA OwnDeltasKept ==
  ASSUME ReleaseInv, Next
  PROVE  OwnDeltas'
<1> USE DEF ReleaseInv, OwnDeltas, IsPacked
<1>0. jobs \in Nat
  BY DEF Shapes
<1>1. CASE Assembles
  <2>1. /\ step \in {"remove"} \cup Bundling /\ base = None
        /\ deltas' = deltas /\ jobs' = jobs
    BY <1>1 DEF Assembles, DescribedRebuild,
         Remove, Copy, Copied, Trim, License, Settle, Order, Codesign, CodesignApp, Verify, Pack,
         job, dist
  <2>2. \A old \in Olds : deltas[old] # None => deltas[old].build \in Nat /\ deltas[old].build < jobs
    BY <2>1
  <2> QED  BY <1>0, <2>1, <2>2
<1>2. CASE Provides
  <2>1. CASE \E version \in Releases, sandboxed, clean \in BOOLEAN :
               \E long \in Releases \cup {Stamp}, short \in Releases :
                 Begin(version, sandboxed, long, short, clean)
    <3>1. /\ step' = "fetch" /\ base' = None /\ jobs' = jobs + 1 /\ deltas' = deltas
          /\ \A old \in Olds : deltas[old] # None =>
               deltas[old].build \in Nat /\ deltas[old].build <= jobs
      BY <2>1 DEF Begin, dist, DescribedRebuild
    <3>2. \A old \in Olds : deltas[old] # None => deltas[old].build < jobs + 1
      BY <1>0, <3>1
    <3> QED  BY <1>0, <3>1, <3>2
  <2>2. CASE \/ \E bytes \in {"release", "other"} : Fetch(bytes)
             \/ Unpack \/ Unpacked \/ Stop
             \/ \E bytes \in {None, "other"}, files \in {{}, {"half"}, {"other"}} :
                  Disturbed(bytes, files)
    <3>1. /\ deltas' = deltas /\ jobs' = jobs /\ bundleVersion' = bundleVersion
          /\ step' = "idle" \/ ((IsPacked' <=> IsPacked) /\ step # "idle")
      BY <2>2 DEF Fetch, Unpack, Unpacked, Stop, Ends, Disturbed, bundle, job, dist, sparkle,
           DescribedRebuild
    <3> QED  BY <3>1
  <2> QED  BY <1>2, <2>1, <2>2 DEF Provides
<1>3. CASE Publishes
  <2>1. IsPacked
    BY <1>3 DEF Publishes, StartDelta, Create, CreateFails, Created, Agrees, Differs, Describe,
         DeltasMade, Appcast
  <2>2. CASE Create \/ (\E right \in BOOLEAN : Created(right))
    <3>1. /\ IsPacked' /\ step' # "idle" /\ jobs' = jobs /\ bundleVersion' = bundleVersion
          /\ \E right \in BOOLEAN :
               deltas' = [deltas EXCEPT ![base] =
                            [build |-> jobs, release |-> bundleVersion, rebuilds |-> right]]
      BY <2>2 DEF Create, Created, Put, Inspected, bundle, job
    <3>2. PICK right \in BOOLEAN :
                 deltas' = [deltas EXCEPT ![base] =
                              [build |-> jobs, release |-> bundleVersion, rebuilds |-> right]]
      BY <3>1
    <3>3. \A old \in Olds : \/ deltas'[old] = deltas[old]
                            \/ deltas'[old].build = jobs /\ deltas'[old].release = bundleVersion
      BY <3>2 DEF Shapes
    <3> QED  BY <1>0, <2>1, <3>1, <3>3
  <2>3. CASE CreateFails \/ Differs
    <3>1. /\ step' = "idle" /\ base' = None /\ jobs' = jobs /\ deltas' = [deltas EXCEPT ![base] = None]
      BY <2>3 DEF CreateFails, Differs, Ends, Put
    <3>2. \A old \in Olds : deltas'[old] = deltas[old] \/ deltas'[old] = None
      BY <3>1 DEF Shapes
    <3> QED  BY <1>0, <2>1, <3>1, <3>2
  <2>4. CASE \/ (\E old \in Olds : StartDelta(old)) \/ Agrees \/ Describe \/ DeltasMade
             \/ (\E secret \in Secrets, compared \in BOOLEAN : Appcast(secret, compared))
    <3>1. /\ IsPacked'
          /\ deltas' = deltas /\ jobs' = jobs /\ bundleVersion' = bundleVersion
      BY <2>4, ReleasesAssumption
      DEF StartDelta, Agrees, Describe, DeltasMade, Appcast, bundle, job, dist
    <3> QED  BY <2>1, <3>1
  <2> QED  BY <1>3, <2>2, <2>3, <2>4 DEF Publishes
<1> QED  BY <1>1, <1>2, <1>3, NextKinds

(* A description is written only for a delta that was compared. *)
LEMMA DescribedRebuildKept ==
  ASSUME ReleaseInv, Next
  PROVE  DescribedRebuild'
<1>1. CASE Assembles
  BY <1>1 DEF Assembles, ReleaseInv, Shapes, DescribedRebuild, IsPacked,
       Remove, Copy, Copied, Trim, License, Settle, Order, Codesign, CodesignApp, Verify, Pack,
       RemoveFramework, CopyPart, CopyRest, RemoveServices, CopyLicense, Configure, StartSealing,
       SealNext, SignApp, Sign, bundle, job, dist, sparkle
<1>2. CASE Provides
  BY <1>2 DEF Provides, ReleaseInv, Shapes, DescribedRebuild, IsPacked,
       Begin, Fetch, Unpack, Unpacked, Stop, Ends, Disturbed, bundle, job, dist, sparkle
<1>3. CASE Publishes
  BY <1>3 DEF Publishes, ReleaseInv, Shapes, DescribedRebuild, IsPacked, Put, Inspected, Rebuilds,
       StartDelta, Create, CreateFails, Created, Agrees, Differs, Describe, DeltasMade, Appcast, Ends, bundle, job, dist, sparkle
<1> QED  BY <1>1, <1>2, <1>3, NextKinds

(* The feed is written from the files that are there, and then uploaded. *)
LEMMA FeedIsCurrentKept ==
  ASSUME ReleaseInv, Next
  PROVE  FeedIsCurrent'
<1>1. CASE Assembles
  BY <1>1 DEF Assembles, ReleaseInv, Shapes, FeedIsCurrent,
       Remove, Copy, Copied, Trim, License, Settle, Order, Codesign, CodesignApp, Verify, Pack,
       RemoveFramework, CopyPart, CopyRest, RemoveServices, CopyLicense, Configure, StartSealing,
       SealNext, SignApp, Sign, bundle, job, dist, sparkle
<1>2. CASE Provides
  BY <1>2 DEF Provides, ReleaseInv, Shapes, FeedIsCurrent,
       Begin, Fetch, Unpack, Unpacked, Stop, Ends, Disturbed, bundle, job, dist, sparkle
<1>3. CASE Publishes
  <2>1. CASE \E secret \in Secrets, compared \in BOOLEAN : Appcast(secret, compared)
    <3>1. PICK secret \in Secrets, compared \in BOOLEAN : Appcast(secret, compared)
      BY <2>1
    <3>2. /\ feed'.version = release /\ feed'.compared = compared
          /\ feed'.enclosure.file = archive /\ feed'.enclosure.secret = secret
          /\ feed'.deltas = [old \in Attached |-> Signed(deltas[old], secret)]
          /\ compared => secret = Key
          /\ \A old \in Attached : notes[old] = deltas[old] /\ notes[old].release = release
          /\ UNCHANGED << release, archive, deltas, notes >>
      BY <3>1 DEF Appcast, ExpectPublicKey, Described, Produces, Signed, job, dist
    <3>3. Attached' = Attached
      BY <3>2 DEF Attached
    <3> QED  BY <3>2, <3>3 DEF FeedIsCurrent, Signed
  <2>2. CASE ~(\E secret \in Secrets, compared \in BOOLEAN : Appcast(secret, compared))
    BY <1>3, <2>2 DEF Publishes, FeedIsCurrent,
       StartDelta, Create, CreateFails, Created, Agrees, Differs, Describe, DeltasMade, Ends
  <2> QED  BY <2>1, <2>2
<1> QED  BY <1>1, <1>2, <1>3, NextKinds

(* A bundle is packed only after its check. *)
LEMMA PackedIsPinnedKept ==
  ASSUME ReleaseInv, Next
  PROVE  PackedIsPinned'
<1>1. CASE Assembles
  <2>1. CASE Pack
    <3>1. Verifies
      BY <2>1, SignersAssumption DEF Pack, ReleaseInv, Sealing, Verifies
    <3>2. key = Key /\ origin = {"release"} /\ code \in {SparkleCode, SparkleCode \ Services}
      BY <2>1 DEF Pack, ReleaseInv, Contents, Trimmed, PinnedBytes
    <3> QED  BY <2>1, <3>1, <3>2 DEF Pack, PackedIsPinned
  <2>2. CASE ~Pack
    BY <1>1, <2>2 DEF Assembles, ReleaseInv, PackedIsPinned, dist,
       Remove, Copy, Copied, Trim, License, Settle, Order, Codesign, CodesignApp, Verify
  <2> QED  BY <2>1, <2>2
<1>2. CASE Provides
  BY <1>2 DEF Provides, ReleaseInv, PackedIsPinned, PinnedBytes, Contents, Trimmed, Sealing,
       Begin, Fetch, Unpack, Unpacked, Stop, Ends, Disturbed, bundle, job, dist, sparkle
<1>3. CASE Publishes
  BY <1>3 DEF Publishes, ReleaseInv, PackedIsPinned, PinnedBytes, Contents, Trimmed, Sealing,
       StartDelta, Create, CreateFails, Created, Agrees, Differs, Describe, DeltasMade, Appcast, Ends, bundle, job, dist, sparkle
<1> QED  BY <1>1, <1>2, <1>3, NextKinds

(* Sealing a piece breaks only the seals of what contains it, and the       *)
(* framework, which contains the others, is sealed after them.              *)
LEMMA SealingKept ==
  ASSUME ReleaseInv, Next
  PROVE  Sealing'
<1> USE DEF ReleaseInv, Sealing
<1>1. CASE \E piece \in SparkleCode : Codesign(piece)
  <2>1. PICK piece \in SparkleCode : Codesign(piece)
    BY <1>1
  <2>2. /\ step = "codesign" /\ step' = "codesign" /\ code' = code
        /\ piece \in unsealed /\ \A other \in unsealed : Rank[piece] <= Rank[other]
        /\ signer' = [signer EXCEPT ![piece] = Team]
        /\ intact' = (intact \ Containers(piece)) \cup {piece}
        /\ unsealed' = unsealed \ {piece}
    BY <2>1 DEF Codesign, SealNext, NextToSeal, Sign
  <2>3. piece # Framework => Framework \in unsealed'
    BY <2>2
  <2>4. piece = Framework => unsealed' = {}
    <3>1. \A other \in SparkleCode \ {Framework} : Rank[other] < Rank[Framework]
      BY DEF Rank, SparkleCode, Services, Helpers, Framework
    <3>2. unsealed \subseteq SparkleCode
      BY <2>2 DEF Contents, Trimmed
    <3>3. \A other \in SparkleCode : Rank[other] \in 1..5
      BY DEF Rank, SparkleCode, Services, Helpers, Framework
    <3> QED  BY <2>1, <2>2, <3>1, <3>2, <3>3
  <2>5. /\ Containers(piece) \subseteq {Framework, "App"}
        /\ piece = Framework => Framework \notin Containers(piece)
    BY DEF Containers, Framework
  <2>6. "App" \notin code
    BY <2>2 DEF Contents, Trimmed, SparkleCode, Services, Helpers, Framework
  <2>7. \A done \in code \ unsealed' : done \in intact' /\ signer'[done] = Team
    <3>1. piece \in DOMAIN signer /\ \A done \in code : done \in DOMAIN signer
      BY <2>2 DEF Shapes, Contents, Trimmed, SparkleCode, Code
    <3> QED  BY <2>2, <2>3, <2>4, <2>5, <2>6, <3>1
  <2> QED  BY <2>2, <2>3, <2>4, <2>7
<1>2. CASE Order
  <2>1. CodeInsideOut = code
    BY <1>2 DEF Order, Contents, Trimmed, CodeInsideOut, SparkleCode, Services, Helpers, Framework
  <2> QED  BY <1>2, <2>1 DEF Order, StartSealing, CodeInsideOut
<1>3. CASE CodesignApp
  <2>1. \A piece \in code : piece \in Code \ {"App"}
    BY <1>3 DEF CodesignApp, Contents, Trimmed, SparkleCode, Services, Helpers, Framework, Code
  <2> QED  BY <1>3, <2>1 DEF CodesignApp, SignApp, Sign, Containers, Shapes, Code
<1>4. CASE (\E settings \in BOOLEAN : Verify(settings)) \/ Pack
  BY <1>4 DEF Verify, Pack, bundle
<1>5. CASE Remove \/ (\E pieces \in Parts : Copy(pieces)) \/ Copied \/ Trim \/ License \/ Settle
  BY <1>5 DEF Remove, Copy, Copied, Trim, License, Settle
<1>6. CASE Provides
  BY <1>6 DEF Provides, Begin, Fetch, Unpack, Unpacked, Stop, Ends, Disturbed
<1>7. CASE Publishes
  BY <1>7 DEF Publishes,
     StartDelta, Create, CreateFails, Created, Agrees, Differs, Describe, DeltasMade, Appcast, Ends
<1> QED  BY <1>1, <1>2, <1>3, <1>4, <1>5, <1>6, <1>7, NextKinds DEF Assembles

(* A stuttering step changes nothing.                                       *)
LEMMA StutterKept ==
  ASSUME ReleaseInv, UNCHANGED vars
  PROVE  ReleaseInv'
<1> USE DEF ReleaseInv, vars, bundle, job, dist, sparkle
<1>1. Shapes' /\ PinnedBytes' /\ Contents' /\ Sealing'
  BY DEF Shapes, PinnedBytes, Contents, Trimmed, Sealing
<1>2. PackedForUpload' /\ OwnDeltas'
  BY DEF PackedForUpload, OwnDeltas, IsPacked
<1>3. DescribedRebuild' /\ FeedIsCurrent' /\ PackedIsPinned'
  BY DEF DescribedRebuild, FeedIsCurrent, PackedIsPinned, Attached
<1> QED  BY <1>1, <1>2, <1>3

(* The invariant of the job, whatever leftovers, kills and re-runs.         *)
THEOREM ReleaseInvHolds == Spec => []ReleaseInv
<1>1. ReleaseInv /\ [Next]_vars => ReleaseInv'
  BY ShapesKept, PinnedBytesKept, ContentsKept, SealingKept, PackedForUploadKept,
     OwnDeltasKept, DescribedRebuildKept, FeedIsCurrentKept, PackedIsPinnedKept, StutterKept
     DEF ReleaseInv
<1> QED  BY InitReleaseInv, <1>1, PTL DEF Spec

(* The check of the bundle never refuses what embed and codesign did: every *)
(* piece is sealed by the team after what it contains.                      *)
THEOREM SealedInsideOutHolds == Spec => []SealedInsideOut
<1>1. ReleaseInv => SealedInsideOut
  BY DEF ReleaseInv, Sealing, Contents, Trimmed, SealedInsideOut
<1> QED  BY ReleaseInvHolds, <1>1, PTL

(* What is packed is the pinned Sparkle, sealed, in an app that trusts the  *)
(* key, whatever the cache and earlier jobs left.                           *)
THEOREM PackedIsPinnedHolds == Spec => []PackedIsPinned
<1>1. ReleaseInv => PackedIsPinned
  BY DEF ReleaseInv
<1> QED  BY ReleaseInvHolds, <1>1, PTL

(* An uploaded feed has signatures over the files that are uploaded with    *)
(* it, by one key, the one the app trusts if it was compared with that; the *)
(* app has one version, and if the job made a delta that is announced, it   *)
(* is the version that is.                                                  *)
THEOREM FeedFitsFilesHolds == Spec => []FeedFitsFiles
<1>1. ReleaseInv => FeedFitsFiles
  <2> SUFFICES ASSUME ReleaseInv, step = "upload" PROVE FeedFitsFiles
    BY DEF FeedFitsFiles
  <2>1. /\ archive.build = jobs /\ archive.key = Key
        /\ archive.bundleVersion = bundleVersion /\ archive.shortVersion = bundleVersion
    BY DEF ReleaseInv, PackedForUpload, IsPacked
  <2>2. /\ feed.version = release /\ feed.enclosure.file = archive
        /\ feed.compared => feed.enclosure.secret = Key
    BY DEF ReleaseInv, FeedIsCurrent
  <2>3. ASSUME NEW old \in DOMAIN feed.deltas
        PROVE  /\ feed.deltas[old] = Signed(deltas[old], feed.enclosure.secret)
               /\ deltas[old].build = archive.build => archive.bundleVersion = feed.version
    <3>1. /\ old \in Olds /\ deltas[old] # None
          /\ feed.deltas[old] = Signed(deltas[old], feed.enclosure.secret)
          /\ deltas[old].release = release
      BY DEF ReleaseInv, FeedIsCurrent, Attached
    <3>2. deltas[old].build = jobs => deltas[old].release = bundleVersion
      BY <3>1 DEF ReleaseInv, OwnDeltas, IsPacked
    <3> QED  BY <2>1, <2>2, <3>1, <3>2
  <2> QED  BY <2>1, <2>2, <2>3 DEF FeedFitsFiles
<1> QED  BY ReleaseInvHolds, <1>1, PTL

(* Every delta of an uploaded feed was compared with an app of its release. *)
THEOREM DeltasRebuildReleaseHolds == Spec => []DeltasRebuildRelease
<1>1. ReleaseInv => DeltasRebuildRelease
  <2> SUFFICES ASSUME ReleaseInv, step = "upload", NEW old \in DOMAIN feed.deltas
               PROVE  /\ feed.deltas[old].file.rebuilds
                      /\ feed.deltas[old].file.release = feed.version
    BY DEF DeltasRebuildRelease
  <2>1. /\ old \in Attached /\ feed.version = release
        /\ feed.deltas[old] = Signed(deltas[old], feed.enclosure.secret)
        /\ deltas[old] = notes[old] /\ notes[old].release = release
    BY DEF ReleaseInv, FeedIsCurrent
  <2>2. feed.deltas[old].file = notes[old]
    BY <2>1 DEF Signed
  <2>3. notes[old].rebuilds
    BY <2>1 DEF ReleaseInv, DescribedRebuild, Attached
  <2> QED  BY <2>1, <2>2, <2>3
<1> QED  BY ReleaseInvHolds, <1>1, PTL
=============================================================================
