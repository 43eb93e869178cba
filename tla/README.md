# gpui-updater: models, checks and proofs

A verification development kept beside this repository: TLA+ modules of the
update machinery, TLC runs that check them on small instances, and TLAPS proofs
that hold for every value of the constants. `PROJECT.json` lists the
components, the source lines each definition stands for, the runs, the mistakes
each property is known to notice, the hazards and the theorems.

Contents: [The system](#the-system) · [Modules](#modules) ·
[Runs](#runs) · [Where code and docs disagree](#where-code-and-docs-disagree) ·
[Fairness and deadlock](#fairness-and-deadlock) · [Proofs](#proofs) ·
[What is not modelled](#what-is-not-modelled) · [Plan](#plan)

## The system

`gpui-updater` finds, downloads, verifies and installs updates of a desktop
app. Paths below are relative to `crates/`; `core` is `gpui-updater-core/src`,
`release` is `gpui-updater-release/src`.

| Component | State it keeps | Operations | Hard behaviour | What makes it correct |
| --- | --- | --- | --- | --- |
| **`Updater` entity**, engine backend (`gpui-updater/src/lib.rs`, the same code in `gpui-updater-pre`) | status, available release, foreground task, cancel token | `new`, `check`, `download_and_install`, `cancel`, `restart`, drop, and the task between its awaits | blocking jobs run on background threads and outlive the entity; `available` is read long after the check that set it; cancel races the end of a download | one operation at a time; cancel reaches the download on screen only; nothing older is installed; busy ends; a view sees the lifecycle it expects |
| **`Updater` entity**, driver backend (`gpui-updater-pre/src/lib.rs`) and **Sparkle driver** (`gpui-updater-sparkle`) | event queue, pump, kept installation block, Sparkle's session | `with_driver`, `check`, `download_and_install`, `restart`, drop, every delegate callback | calls, callbacks and the pump interleave, so the view lags behind Sparkle; every session ends with `Settled` after the event that says how | the view shows the outcome; an old offer does not come back; `restart` installs what is shown |
| **Engine** (`core/engine.rs`, `engine/hops.rs`) | download directory, trees of a chain of deltas | `check`, `download_cancellable`: reuse, deltas, full download | every step may fail or be cancelled; installed files and leftovers may be anything | what is returned was verified; no scratch remains; deltas never make an update fail |
| **HTTP download** (`core/http.rs`, `cancel.rs`) | partial file, validator, retries | retry loop, resumed requests, cancellation | the file is replaced on the server between two requests; every answer a server can give; cancel at any moment | one whole body within the limits, or no file; offline clients and cancels end |
| **Verification** (`core/engine/config.rs`, `verify.rs`) | policy, keys, binding | `precheck`, `verify_file` | many combinations; inputs that are missing, blank or cannot be fetched | fails closed; a mismatch always fails |
| **Release sources** (`core/source/`) | none between calls | `fetch_latest` of GitHub, appcast, static manifest, and chains of them | names that contain each other; items in any order; body and signature fetched apart; replayed copies and expiry | the newest release for the client, with files that belong together |
| **Feed and manifest builder** (`release/manifest.rs`, `artifact.rs`, `appcast.rs`) | builder options | `build`, `render` | deltas attached after assets are checked; options that hide each other | a required target is served, and signed when it has to be |
| **Installers** (`core/install/`) | the directory of the install root | swap of a bundle, a directory, a single executable | crashes and failures between renames; leftovers under fixed names; overlap | the app is never missing; a success is the new version, whole |
| **Delta planning** (`core/delta/plan.rs`) | layers of Bellman-Ford | `cheapest`, `delta_bases` | unknown sizes, the limit of hops, ties | the chain connects, is the cheapest, and saves bytes |
| **Delta files** (`core/delta/`, `release/native_delta.rs`) | output tree, header | create, verify, apply | modified installations, damaged or foreign deltas, failing calls | rebuilds exactly or leaves nothing; stays inside |
| **Ownership detection** (`core/install/ownership.rs`) | none | `managed_by` | locations, receipts and databases may disagree; a query is late or fails; the app has two names | an app that a manager owns does not replace itself |
| **Payload checks** (`core/engine/payload.rs`) | none | `check` | what can be read of the installed app decides how strict the check is | only an app of the same signer, and of the release, is installed |
| **Release job**: Sparkle bundling, signing, command line (`release/sparkle/`, `sign.rs`, `bin/`) | cached archive, unpacked tree, app bundle, `dist` with archive, deltas, descriptions and feed | `fetch`, `embed`, `codesign`, `verify`, `pack`, `delta`, `appcast` | a job fails or is killed within any command and is run again over what it left | the packed app holds the pinned Sparkle, sealed; the feed fits the files |
| HTTP options, staging, error types, package checks, examples | - | - | - | not modelled, [see below](#what-is-not-modelled) |

How they interact: the entity runs `check`, `download` and `install` of the
engine as background jobs and reads their results when it polls them. The
engine asks a source, verifies what the source answered, downloads through the
HTTP module and delta planning, verifies the file, and hands it to an
installer. With a driver, the entity forwards calls to it and applies the
events it sends through an unbounded channel. Before anything else an app may
ask who owns it, and `check` refuses a place it cannot install to. An `.msi` is
not installed by the process: a script beside the package does it after a
restart. The release tools write the
feeds and delta files that sources and `apply` read in another process, often
months later.

## Modules

```
 UpdateLifecycle  <--- refines ---  Updater   <--- EXTENDS ---  UpdaterFiles
                                                   both proved about in UpdaterProofs
 SparkleUpdater  --------------------------------------------->  SparkleProofs
 EngineDownload  (uses the promises of the modules below)
   ^
 EngineInstall   EXTENDS EngineDownload, Ownership, Payload -->  EngineProofs
   HttpDownload  --------------------------------------------->  HttpDownloadProofs
   DeltaPlan, DeltaFile  ------------------------------------->  DeltaProofs
   Install       --------------------------------------------->  InstallProofs
   UpdateSource  EXTENDS Verification,
                 INSTANCEs GitHubSource, AppcastSource,
                 ManifestSource  ----------------------------->  UpdateSourceProofs
 ReleaseJob      EXTENDS AppBundle  -------------------------->  ReleaseJobProofs
```

`MC*` modules hold the definitions TLC needs for one instance. Each module's
header says what it abstracts. Names follow the code: an action has the name of
the function or of the step between two awaits it stands for.

An operator named `Original_Something` stands just before `Original` and is the
same operator with a plausible mistake in it. Nothing uses it; substituting it
for the original must violate a property, which shows that the property notices.

* **Updater**: `status`, `available`, `cancel` are the entity's fields, `task`
  the await its foreground task is at, `job[s]` a background job in slot `s`
  (owned by the task or left behind), `running` the version of the process and
  `disk` that at the install root. `StopDownload`, `PassLastCheckpoint` and
  `EndDownload` are the points of a download at which a cancel still counts or
  no longer does.
* **UpdaterFiles**: every step of `Updater` with what it does to files. `fetch[s]`
  is where the download in slot `s` writes, `file` what is at each path,
  `script` the package that the script at the app's restart path installs,
  `proven` a history of whether what is installed had been checked. A download
  goes to `download_dir` if the app set one, else to a fresh directory, and
  `ApplyMsi` runs the script once the process is gone. Every entity of a process
  uses the same `download_dir`, so two jobs may write, truncate, remove and copy
  one file; `apart` is a history of whether that could not be: it turns false when
  an entity is created while a job of a dropped one uses the directory, and true
  when one is created and no such job is left.
* **UpdateLifecycle**: what a view that draws a status may rely on, with
  `offer` and `target` refined by `available` and the release of the task.
* **SparkleUpdater**: the entity with a driver, the channel, the pump, the
  driver's calls and Sparkle's sessions as far as the driver relies on them.
* **HttpDownload**: `partial` is the code's `Partial`, `file` the file on disk
  with the bodies its bytes came from, `response` the open response.
* **EngineDownload**: one call of `download_cancellable`; `trees` are the
  rebuilt trees of a chain and `delta` the delta being applied. The artifact and
  each delta may be such that a check has something to hold them against
  (`vouched`, `held`). A directory that persists may hold the trees of an earlier
  call, and removals may fail, which the code never looks at: `stays` and `spilt`
  are histories of both.
* **EngineInstall**: `EngineDownload` between its gate and its end. `Ownership`
  and `Payload` are operators only: who claims the app by location, receipt and
  database, in the order the code asks, and what the app in an artifact must be.
  `accepts_rebuilt` and the dispatch of the Windows installer are the two places
  that have to agree with the gate.
* **UpdateSource**: a check from the feed to the accepted file. `docs` is every
  manifest a publisher made so far, `feed` what the document that was read
  says, `release` the answer, `config`, `published` and `file` the inputs of
  `Verification`. What a feed holds is chosen when it is first looked at and
  forgotten when nothing reads it any more, which keeps the run small and loses
  no behaviour. The three source modules have operators only: pure selection
  from a feed, and for manifests and appcasts also what the builder writes.
* **Verification**: `Precheck`, `Accepted` and `Checked` are
  `precheck_integrity` and the two results of `verify_file`.
* **Install**: `dir` maps the names beside the install root to objects, so a
  copy that is still being written follows its object when it is renamed.
  Removals may fail, which the code never looks at; `stuck` is a history of the
  steps that could not remove something.
* **DeltaPlan**: an action is one turn of the inner loop of `cheapest`. `chains`
  and `arrived` are not in the code: they collect all chains for the properties.
  `Doubled` is the `step` that `delta_bases` doubles.
* **ReleaseJob**, **AppBundle**: one action per command, and one per step of a
  command that can be interrupted. `tree` is the unpacked Sparkle, `code`,
  `intact`, `signer` the pieces of the bundle and their seals, `archive`,
  `deltas`, `notes` (the descriptions) and `feed` the files in `dist`. A job
  stops at the first command that fails, may be killed in any, and starts from
  the beginning in the same directories. The archive has one name in all
  releases, the case in which leftovers are most alike. `bundleVersion` and
  `shortVersion` are whatever the app was built with, a stamp or a release that need
  not be the job's; what a command compares only if an argument is given
  (`Verify`, `Appcast`) is compared or not. codesign, ditto and BinaryDelta are
  modelled by what the code relies on.
* **DeltaFile**: `Make`, then `apply` entry by entry, by the release to verify
  and by the app; `Fault` lets a call fail. `damaged` says what was damaged on the
  way: a blob (`BlobDamage`), or one field of one entry of the header or the kind
  of its root (`HeaderDamage`), which no checksum of the format covers.

## Runs

Every run finishes within two or three minutes with two workers on a small machine,
most within one.

| Run | Instance | Shows |
| --- | --- | --- |
| `updater` | 3 versions, 2 entities in a row, 2 job slots, 3 private paths or `download_dir`, which the two entities share, copied and `.msi` packages | the safety properties of the entity and of the files its jobs leave, and that it implements `UpdateLifecycle` under fair executors |
| `updater_msi` | one entity, an `.msi` in `download_dir` | a disagreement with a comment |
| `http` | 3 bodies (two of one size with different validators, a shorter one without), 5 retries, 4 bytes limit | what is left of a download, and that cancelled and offline downloads end |
| `sources` | 3 versions; all lists of up to 2 releases over 5 sets of uploads; all appcasts of up to 2 of 32 items; 19 directories with 6 sets of deltas and 27 option sets; 3 manifests, 4 ticks | selection, signed and expiring manifests, fallbacks, and every policy |
| `appcast_minimum` | the appcasts of `sources` | a disagreement with a doc |
| `engine` | 3 versions, so a delta of one hop or a chain of two; trees of an earlier download or none; one or two claims on the app; 5 kinds of place; 6 kinds of installation and asset; 5 policies against 4 payloads | the whole self-update: gate, download, checks, dispatch |
| `install` | 3 attempts in a row on each kind of installation; copies, renames and removals that fail, crashes at every step | the app survives, and what a success leaves |
| `install_overlap` | 2 attempts at once on a single executable | a disagreement with a doc |
| `sparkle` | 2 versions and one that cannot be parsed, queue of 4, both policies | the view under every interleaving |
| `deltaplan` | every list of 6 deltas between 4 versions with sizes 0-4, and published histories of 16 releases with 5 hops or 16 | the planned chain |
| `release` | 3 jobs for 2 releases in any order, deltas from 2 older versions, any two versions in the bundle, arguments given or not, 2 private keys of which one is trusted, copies interrupted at 2 points | the release job over leftovers |
| `deltafile` | trees of a file or link, a directory and what is in it; single executables; one blob or header field damaged; calls and the removal of the output that fail; deltas of up to 3 arbitrary entries | rebuilding, rejecting and cleaning up |

Why the bounds are enough:

* *Updater*. Two entities give one that is left behind and one that is alive,
  three versions a source that goes forwards and back again; two slots are one
  job of the living entity and one of each before it. Dropping is enabled in
  every state, so more entities repeat the situation. Three private paths serve
  both slots and the staged script. `.msi` in `download_dir` is the run
  `updater_msi`.
* *HttpDownload*. A body breaks off before, between and after its chunks; one
  body has the size of another and a different validator, one has no validator.
  `MaxLen` is one more than the largest body. Retries are five in a row, as in
  the code, so the counter reaches its limit. The published size may be that of one body, of
  another, too large, or unknown.
* *UpdateSource*. Selection compares releases or items in pairs. Two releases
  give a newest one and an earlier one with deltas; a page always holds them
  (`MinPage` = 2, against 30 in the code), so the cut at a page's end is left
  out. Two items give every order. Chains of two sources have a first and a
  last. `Lifetime` = 2 and `MaxTime` = 4 let a manifest be replaced before,
  at and after the moment an earlier one expires.
* *EngineDownload*. `MaxHops` = 2 is a first and a last hop; a hop in between
  does nothing else. Earlier trees are in the way of both hops or of none.
* *EngineInstall*. The place and the payload are looked at one after the other
  and do not influence each other, so each varies while the other is fixed.
  Claims come from one source at a time, and queries in pairs with receipt and
  cask.
* *ReleaseJob*. Three jobs: one that leaves something, one that is killed over
  it, one that succeeds. Two releases are one whose leftovers the other meets.
* *Install*. Three attempts: one that fails or crashes, one that meets what it
  left and may fail again, and one more. `rollback` is not among the faults of
  the passing run: when the rename *back* fails too, a second failed attempt
  leaves no copy (listed as a hazard at `macos.rs:58`).
* *SparkleUpdater*. The longest batch of events a callback sends is two, so a
  queue of four lets two callbacks come before the pump runs.
* *DeltaPlan*. `limit` 2 and 3 against routes that need one to three deltas;
  unknown sizes on four of six deltas; ties; deltas that cannot be used. Of the
  published histories 5 hops are just what the longest gap may need.
* *DeltaFile*. A header is checked entry by entry against those before it, so
  three entries have a parent, a child and one between them.

What the properties say is in the comment before each. The ones with the most
behind them: `Implements` (refinement with liveness), `InstallsWhatItChecked`
(bytes, from the download to the restart), `WholeFile` and `PartialIsOnDisk`
(what a file holds over any number of resumed, restarted and replaced
responses), `FreshEnough` (replay of manifests), `TargetsAreServed` (builder and
reader agree), `InstallerIsForeseen` (three places that decide the same thing),
`ACopySurvives`, `OutcomeIsShown` and `OfferIsLastAnswer`, `GapIsShort`,
`Rebuilds`, `DeltasApply`, `DeltasRebuildRelease`.

## Where code and docs disagree

Each is a run whose one property is the doc's sentence, and which TLC refutes.

1. `updater_msi`: "Only an `Artifact` returned by `download` is accepted, so
   nothing reaches the installer without passing the engine's checks"
   (`core/engine.rs:257`). `stage_msi` leaves the package where the download put
   it and a script that installs it after the restart. With `download_dir` set,
   the next download of an asset of that name truncates the same file: a restart
   during that download, or after it failed its checks, installs a package that
   passed no check.
2. `install_overlap`: "atomically replace the executable"
   (`gpui-updater-core/docs/install.md:10`). Two overlapping installs share the
   temporary name of `core/install/linux.rs:221`; one renames into place what
   the other is writing.
3. `appcast_minimum`: "`<sparkle:minimumUpdateVersion>`: below it, the update is
   not offered" (`release/appcast.rs:188`). `AppcastSource`, which the writer's
   header says reads its feeds, ignores the element.

Remarks that are not runs of their own, met on the way:

* "The download stops at its next checkpoint ... and the status returns to
  `Available`" (`gpui-updater/src/lib.rs:338`). After `core/engine.rs:172` there
  is no checkpoint: a cancel while the file is verified is ignored and the
  install follows (`PassLastCheckpoint`).
* "`Staged`: The update is installed and ready to launch" (`core/status.rs:39`).
  An install left behind by a dropped entity can finish after a new entity
  staged another version, so `StagedIsReady` says it of copied packages for the
  first entity only.
* The sentence of finding 1 does not hold for copied packages either once two
  entities share a `download_dir`: an install that outlives its entity
  (`gpui-updater/src/lib.rs:379`) copies the file which a new entity's download has
  emptied or is writing. `InstallsWhatItChecked` excepts just that, an entity
  created while a job of a dropped one still uses the directory; with directories
  of their own, entities never meet.
* "We never leave the app missing" (`core/install/macos.rs:50`) holds, but a
  reported success need not be the new version alone. `macos.rs:45` does not look
  at whether the staging directory could be removed, and ditto then merges the new
  app into what an earlier attempt left there; `linux.rs:194` returns `Ok` with
  the old tree still beside the new one. `SuccessInstalls` says which of the two
  needs which failure.
* Descriptions of Sparkle deltas compare the delta's length only
  (`release/sparkle/delta.rs:170`): a stale description beside an unfinished
  delta of the same length would be attached. The model takes lengths for
  identities; `DeltasRebuildRelease` holds under that assumption.
* A delta that an earlier job of the same release left, with its description, is
  attached again, though it was compared with the app of that job.
  `DeltasRebuildRelease` asks for an app of the release, not for this archive.
* Nothing compares the version in the bundle with the release that `appcast`
  announces, the tag or `--bundle-version` (`bin/gpui-updater-release.rs:667`): `check_bundle_version`
  (`release/sparkle/bundle.rs:361`) compares `CFBundleVersion` with
  `CFBundleShortVersionString` only, so a bundle that has both of another release is
  packed and announced. It is noticed when the job makes a delta, since a delta's
  description names the version it produces. Nor is the private key compared with
  one the app trusts, unless the public key is given to `appcast` (676).
  `FeedFitsFiles` says what fits in each case.
* The bundle check compares the Team IDs of all code; ad-hoc signed code has
  none, and none equals none, so an app that is ad-hoc signed throughout passes.
* `gpui-updater-release/README.md:113` says that `embed` adds the runpath; the
  code leaves that to the app's build.
* "A user `d` releases behind ... can always reach the newest release"
  (`core/delta/plan.rs:124`) needs at least one direct delta: with `direct` = 0,
  which the test at 273 calls, no release ships a delta from the one before it.
  `GapIsShort` is about one or more.
* `manifest` attaches native deltas by the name of their file; their target
  version is not compared with the release.
* A delta is checked by its files' hashes, and the header that lists them "carries
  no signature of its own" (`core/delta.rs:34`). Without a signature of the whole
  file, `apply` accepts a header in which a path, a mode or a link target reads
  otherwise, and succeeds with a tree that is not the new build. `Rebuilds` says
  what holds then: the tree is the one listed, and no file holds what no file of
  the new build does.
* `http.rs:431` allows one retry less than the comment at 433 suggests, and a
  download that is made to start over again and again resets its retry count
  each time: it ends only when the server stops sending bytes (`OfflineEnds`).
* `GitHubSource` keeps deltas and their signatures from being picked as the
  asset, not the `.minisig` of the asset itself: listed before its file it
  matches the same pattern. `AnswerFits` states what holds.
* An appcast item that is informational only *below* some version is never
  offered by `AppcastSource`, to anybody. The writer has no checksum attribute,
  so clients that require a checksum refuse the feeds it writes.
* `expires` is checked for unsigned manifests too. `os` and `arch` of
  `StaticManifestSource` leave the default name pattern in place; only `format`
  clears it. `TargetsAreServed` is about clients that ask for a format.
* Delta creation accepts absolute links that application refuses; only the
  release's verification notices. When it does, the delta file stays at the
  output path (`release/native_delta.rs:77`).

## Fairness and deadlock

* *Updater*: weak fairness of the foreground and of each background job. gpui
  runs what is ready; a job ends because every phase of a request has a
  deadline (`http.rs:4`) and retries are bounded without progress. The app's
  calls are not fair.
* *HttpDownload*: weak fairness of the download's own steps, for the same
  deadlines. Cancel is not fair.
* *SparkleUpdater*: weak fairness of the pump and of Sparkle's own work. What
  the user chooses is not fair, and a session that asks the user may end, but
  is not made to. Sessions start only when none is in progress, as
  `can_check_for_updates` documents; that Sparkle also takes a check while its
  prompt is up, and shows the prompt again, is left out.
* *UpdaterFiles*: the fairness of *Updater*, for its steps with their files.
* The other modules state safety only.

`CHECK_DEADLOCK FALSE` is set where a run has an end: a download, a plan, an
application or a check is over, an app has used all its attempts, the last
release job has ended. `updater` and
`sparkle` are checked for deadlock.

## Proofs

Every safety invariant a passing run checks, and every action property, is also
proved, for all values of the constants; those of `UpdaterFiles` and `Install` under
the conditions named below (`KeptIsCopied`, `OneByOne`), which their runs meet.
tlapm checks each proof to the last leaf.

`UpdaterProofs` proves, for every set of versions, any number of job slots and
of entities: `TypeOK`, `OneOperation`, `CancelReachesDownload`, `NoDowngrade`,
`OrphansAreCancelled`, `InstallsOnlyVerified` and `FirstEntityStages`. The
invariant `IInv` adds to them what makes them inductive:

* `TaskInStep`: the status and the await of the task go together, and the job
  the task waits for is owned and of the right kind;
* `OwnedJob`: no other job is owned;
* `ResultIsNewer`: what a check returned, or a job installs, is newer than what
  runs. `disk >= running` needs it, because an install writes what its job
  holds long after the entity that started it is gone.

There is one lemma per action (`NewInv` ... `SpawnInv`, `BackgroundInv`) and
`StepInv` puts them together. `FirstEntityStages` needs a second invariant,
`FirstInv`: while a process created one entity, all jobs are that entity's, and
what its install wrote is still on disk.

It also proves that every step of the entity is one a view may rely on, or none
that it sees (`EntityRefinesLifecycle`): `UpdateLifecycle`'s initial state and
next-state relation, under the mapping of `offer` and `target`. That needs one
fact more (`Targeted`): the task holds a release only while it downloads or
installs one.

Of `UpdaterFiles` it proves, for any versions, slots, entities and paths,
`InstallsWhatItChecked`, unless an `.msi` is kept in a download directory
(`KeptIsCopied`): that is the configuration for which `updater_msi` finds it
violated. `FInv` says who may write where, and holds as long as the entity has its
files for itself (`apart`). No two jobs, and no job and the staged script, share a
path (`Holds`), because a private path is fresh and for the kept one there is only
one job that uses it (`Single`); so what a job has verified is still that when it
is installed. `Shape` is what holds in a race too: whatever is at a path where a job works
is newer than what runs, so a race installs no downgrade either; and the entity has
its files for itself again only when it is created with no such job left, which
makes `FInv` true again. Each step is split into what
becomes of its job (`Carries`), of its file, and of the files that nothing
refers to any more (`SettleInv`). `EntityInv` shows that `IInv` survives the one
step that is not a step of `Updater`, the script that installs after the process
has ended, so `NoDowngrade` holds with it (`FilesNeverDowngrade`). Both rest on
`FreshAssumption`: there is always a private path nobody uses. Under the same
`KeptIsCopied`, `StagedCanLaunch` proves `StagedIsReady` (`Promise`). For a
package that is copied, every step is one of `Updater` as far as the status is
concerned, and `FirstInv` carries over (`CopiedPromise`); for an `.msi`, which has
a private path, no later download touches the file the script installs
(`ScriptKeepsFile`). `FilesRefineLifecycle`, `FilesOneAtATime` and
`FilesInstallsFollowDownloads` are the properties of the run `updater` in the
module that the run checks. `FilesRefineEntity` says when `UpdaterFiles` is
`Updater` to the letter: when no package is an `.msi`, since only the script that
installs one after the process has ended does what no step of `Updater` does, and
no two entities share a directory, since a copy of what another download has
written installs a version that its job did not ask for.

`DeltaProofs` has two parts. Of planning it proves, for every list of deltas, route,
limit and size: `PlanConnects`, `BestIsCheapest` (which the other two rest on: no
chain within the limit costs less than the one found), `PlanSavesBytes` and
`GapIsShort`. The invariant `PlanInv` is the one behind Bellman-Ford: `layer` and
`next` hold chains of the right length (`Sound`), at least as cheap as every chain
(`LayerCheapest`), for the part of the list the inner loop has looked at
(`NextCheapest`). The sets of all chains in these statements are the variables
`chains` and `arrived`. `GapIsShort` needs the converse (`ReachInv`): every chain
there is has been collected, and if all deltas cost the same, cost is length. That
a short chain exists (`ShortChain`) is an argument about the gap: its last delta
bridges the largest power of two that fits, and what remains is less than that.
The induction is written with a least counterexample, and so is the proof that the
recursive function `Doubled` is one (`DoubledIs`).

Of applying deltas it proves, for any trees, headers and damage,
`TouchesOutputOnly`, `Rebuilds` and `DeltasApply`. `IInv` has four parts: in what
state the output path is at each step (`Phases`), where the delta comes from and
what its header therefore describes (`Provenance`), which part of the listed tree
is written when an entry is next (`Progress`: the first `place` - 1 entries, their
files rebuilt, with directories writable until their modes are set), and that
nothing stops a delta whose files are what they were when it was made
(`Succeeding`). The lemmas are about headers: what creation lists is valid, parents
come first, a tree laid out entry by entry is the one listed (`LaidIsListed`) and,
if the header is what was made, the tree that was walked (`LaidIsExpected`). Of a
damaged header there remains that each of its files has the content of a file of
the new build or the source of one (`Traced`): since what is produced is compared
with what is recorded, that is enough (`LaidIsGenuine`). Assumed of the
constants: `Order` lists all paths, parents first, the unsafe ones are no root, and
a foreign header is any sequence of entries.

`EngineProofs` proves, for any versions and chains of any length:
`ReturnedIsGenuine`, `NoScratchLeft`, `DeltasNeverFail` and
`CancelledDeltasDoNotFallBack`. The invariant follows the chain: the deltas
still to apply lead from the files that are there to the target (`Leads`), the
only tree this call could remove is the one the next delta applies to (`Scratch`), and
what passed a check is genuine (`Checked`): of a chain it is enough that the last
delta passed one, since a delta applies to nothing but what it was made from.
Without `Leads` the last delta could rebuild a version nobody asked for and the
result would not be the target's tree.
`CancelHolds` needs no invariant of its own but a set of states that is never
left: cancelled, and in the delta path, at the token's next check or at the end.
A self-update implements the download (`InstallRefinesDownload`), so all of that
holds in it; `OwnersAreAsked`, `OnlyOurAppIsInstalled` and `InstallerIsForeseen`
are proved from `InstallInv`, which carries each answer (the owner, the gate, the
payload's check) from the step that asked to the installer that relies on it. The
rest is about `ownership` and `PayloadOk` as functions: that a search which stops
at the first that knows names an owner, if there is one. The one claim that does
not keep an app from updating itself is that of several dpkg packages sharing its
path (`dpkg_owner`; rpm and pacman name the first of theirs), so `claims` keeps it
apart as `"sharers"` and `OwnersAreAsked` names it.

`UpdateSourceProofs` proves, for feeds, directories, clients and chains of any
length: `OffersNewest`, `AnswerFits`, `TargetsAreServed`, `PolicyHolds` and
`FreshEnough`. `IInv` says what each step has established: whose error is kept
while sources are asked (`Turns`), that manifests were published in order and
expire when they say (`Documents`, `Fetched`), that an answer is what its source
makes of the document that was read (`Understood`), and that what was taken passed
the check (`Taken`). The properties of answers are then lemmas about selection:
the first release that is wanted (`FirstIsWanted`), the best ranked file
(`BestIsRanked`), the newest offer of an appcast (`NewestIsNewest`: the loop over
its items, by a least counterexample), the file of a manifest (`PicksListed`), and
that a target `build` accepted is served, with its signatures (`TargetServed`,
`ListedIsSigned`). Assumed: feeds, directories and chains are of their kinds, and
`None` is no error.

`SparkleProofs` proves, for any versions and any bound of the channel:
`OutcomeIsShown`, `OfferIsLastAnswer` and `HostCanRelaunch`. The entity lags
behind Sparkle, so `SInv` is not about what it shows but about what it will show:
the last event in the channel that offers a release tells the offer
(`OfferAfter`), the last one that shows anything, with a `Settled` after it or
not, the status (`EndsIn`), and that status has to fit how far Sparkle's session
is (`Fits`). Applying an event moves neither (`OfferTail`, `EndsTail`); each
callback has to show that it keeps them fitting. `HostCanRelaunch` is about the
events that still wait, so also about a `restart` between the staging callback and
the event that tells the view. It needs `Leaving`: while an update is fetched, the
event that takes every earlier report off the screen is on its way or applied, so
a block whose update is never reported replaces none that stays there.

`ReleaseJobProofs` proves, for any number of jobs, releases, older versions and
interrupted copies: `SealedInsideOut`, `PackedIsPinned`, `FeedFitsFiles` and
`DeltasRebuildRelease`. `ReleaseInv` follows what a job relies on from command to
command: what is unpacked passed the check of the pinned hash (`PinnedBytes`),
what is in the bundle after each command (`Contents`), that what is sealed stays
sealed because the framework is signed after its parts (`Sealing`), that the
archive of a job that is past `pack` is the bundle it built and has one version
(`PackedForUpload`), that a delta with the job's number produces that version
(`OwnDeltas`), and that a description in `dist` was written for a delta that had
been compared (`DescribedRebuild`). The last two have to survive from job to job.

`HttpDownloadProofs` proves, for any bodies, sizes, limits and number of retries:
`TypeOK`, `PartialIsOnDisk`, `WholeFile`, and that a download that ends as
cancelled leaves no file. `partial` and the file are in step whenever no response
is read (`PartialIsOnDisk`), and while one is, every byte is of its body
(`Reading`): a request is only continued for the body its validator names, and
`TagAssumption` says that it names one.

`InstallProofs` proves the four invariants of `Install` for any number of
attempts, if they come one at a time and the roll-back does not fail (`OneByOne`):
`install_overlap` shows what overlap does, and after a failed roll-back the next
attempt may remove the only copy (`macos.rs:58`). The invariant says, step by
step, where the old app is and that it is whole (`OldIs`), where the new version is
(`NewIs`), and which names are free (`Gap`, `Unused`); that is enough because
nothing is removed or overwritten but what an attempt that is over left behind.
Because removals fail, an attempt may find its own names taken: `Merges` says which
attempts that can make copy into an old tree, and as long as none did, what is at a
name is one version (`Sound`); what an attempt has in its way is at most a leftover
(`Gap`, `Touched`).
`Startable` carries it from attempt to attempt: whenever nothing is under way the
root holds a whole app, and a process only starts from one. `MovesOn` and
`MovesOut` say what a step inside an attempt, and one that ends it, have to show.

Assumptions: the `ASSUME`s of the modules (constants are of their kinds,
`None` is no version), which TLC evaluates in the runs.

Only model-checked: liveness (`CancelEnds`, `OfflineEnds`, `BusyEnds`, and the
fairness `UpdateLifecycle` asks for in `Implements`, of which the steps are proved)
and what needs `ENABLED`.

## What is not modelled

* **HTTP options, redirect policy, staging directories, error types**: builders,
  predicates and data types without state of their own.
* **Disk images (`dmg.rs`), key files (`keys`), examples, xtask**: calls of
  external tools and libraries in a row, and file formats.
* Of the release job: `--no-verify`, `--allow-any-bundle-version`, minisign
  signatures, several architectures in one appcast.
* Inside modelled parts: the syntax of XML, JSON, dates and names; hashing,
  signatures, bsdiff and LZMA, each by what it promises; sums of sizes beyond
  64 bits; what `msiexec` does, disk images and archives; the reports of
  codesign, PowerShell and package managers; progress counts of the
  entity; custom `asset()` entries of a manifest; version attributes of
  enclosures in older feeds; two bodies with the same `Last-Modified` (an
  assumption of `HttpDownload`, and a hazard); overlap of installs that move
  directories; crashes while a delta is applied, whose output is scratch; in
  `DeltaFile`, files that are reached through a link to a directory. Creation reads
  through such a link of the old build (`create.rs:313`), and the delta then needs the
  link in the installation too, so `DeltasApply` is about builds without it.

## Plan

In order of what it is worth:

1. *Install with failing roll-back* as a run of its own (`macos.rs:58`), and two
   processes of one app over one install root.
2. *Abstract specifications*: a download as "a genuine file or nothing", with
   `EngineDownload` and `HttpDownload` shown to implement it; an install as an
   atomic replacement, with `Install` shown to implement it without overlap.
3. *Metadata requests* of `http.rs` with their own retry loop.
4. *Proofs*: the refinements of 2; `Install` with a roll-back that fails, once it
   is a run of its own.
