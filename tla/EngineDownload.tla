---------------------------- MODULE EngineDownload ----------------------------
(***************************************************************************)
(* UpdateEngine::download_cancellable: reuse an earlier download, else     *)
(* rebuild the update from deltas, else download the full artifact         *)
(* (crates/gpui-updater-core/src/engine.rs and engine/hops.rs).            *)
(*                                                                         *)
(* What a file holds is abstracted to whether it is what the publisher     *)
(* made.  `vouched` is whether the release publishes something a check can *)
(* hold its artifact against, `held` whether it does for the delta of the  *)
(* last hop; Verification says when that is so, HttpDownload what a        *)
(* download leaves, DeltaPlan which chain is chosen.                       *)
(*                                                                         *)
(* An operator whose name has an underscore is its namesake with a mistake *)
(* in it; no action uses it.  The properties are checked to notice it.     *)
(***************************************************************************)
EXTENDS Naturals, Sequences

CONSTANTS
  Version,      (* Versions with a release; larger is newer.             *)
  Running,      (* EngineConfig::current_version.                        *)
  Target,       (* The version of the release that is downloaded.        *)
  MaxHops,      (* EngineConfig::max_delta_hops.                         *)
  Earlier       (* The sets of versions whose trees an earlier download  *)
                (* may have left in a directory that persists.           *)

ASSUME VersionAssumption == Version \subseteq Nat
ASSUME TargetAssumption == Running \in Version /\ Target \in Version /\ Running < Target
ASSUME HopsAssumption == MaxHops \in Nat
ASSUME EarlierAssumption == Earlier \subseteq SUBSET Version

VARIABLES
  persists,     (* EngineConfig::download_dir is set.                    *)
  vouched,      (* The artifact can be checked.                          *)
  pristine,     (* The installed files are as published.                 *)
  pc,           (* What the download does next.                          *)
  hops,         (* The deltas still to apply, as pairs of versions.      *)
  base,         (* The version of the files the next delta applies to.   *)
  artifact,     (* The file at the artifact's path.                      *)
  delta,        (* The delta file.                                       *)
  held,         (* The delta fetched last could be checked.              *)
  trees,        (* The rebuilt trees, by version.                        *)
  stays,        (* History: the versions whose tree an earlier download  *)
                (* left, or could not be removed.                        *)
  spilt,        (* History: a delta could not be removed.                *)
  cancelled,    (* The cancel token's flag.                              *)
  result        (* What the download returned.                           *)

setting == << persists, vouched, pristine >>
scratch == << delta, held, trees, stays, spilt >>
vars == << setting, pc, hops, base, artifact, scratch, cancelled, result >>

Content == {"none", "part", "genuine", "other"}

Hop == {h \in Version \X Version : h[1] < h[2]}

(* The chains a plan may be.                                                *)
Chains ==
  {c \in UNION {[1 .. n -> Hop] : n \in 1 .. MaxHops} :
     /\ c[1][1] = Running
     /\ c[Len(c)][2] = Target
     /\ \A i \in 1 .. Len(c) - 1 : c[i][2] = c[i + 1][1]}

Stage ==
  {"start", "reuse", "plan", "hop", "fetch_hop", "verify_hop", "apply", "rebuilt",
   "full", "fetch", "fetched", "verify", "done"}

(* Types; a hop starts from the files the one before it rebuilt.            *)
TypeOK ==
  /\ persists \in BOOLEAN /\ vouched \in BOOLEAN /\ pristine \in BOOLEAN
  /\ pc \in Stage
  /\ hops \in Seq(Hop)
  /\ hops # << >> <=> pc \in {"hop", "fetch_hop", "verify_hop", "apply"}
  /\ base \in Version
  /\ hops # << >> => base = Head(hops)[1]
  /\ artifact \in Content
  /\ delta \in Content
  /\ trees \in [Version -> Content]
  /\ stays \subseteq Version /\ spilt \in BOOLEAN /\ held \in BOOLEAN
  /\ cancelled \in BOOLEAN
  /\ result \in {"none", "artifact", "rebuilt", "cancelled", "error"}

(* A download directory that persists may hold what an earlier download     *)
(* left at the artifact's path, and trees it did not remove.                *)
Init ==
  /\ persists \in BOOLEAN /\ vouched \in BOOLEAN /\ pristine \in BOOLEAN
  /\ pc = "start"
  /\ hops = << >>
  /\ base = Running
  /\ artifact \in IF persists THEN Content ELSE {"none"}
  /\ delta = "none"
  /\ stays \in IF persists THEN Earlier ELSE {{}}
  /\ trees = [v \in Version |-> IF v \in stays THEN "other" ELSE "none"]
  /\ spilt = FALSE /\ held = FALSE
  /\ cancelled = FALSE
  /\ result = "none"

------------------------------------------------------------------------------
End(outcome) == pc' = "done" /\ result' = outcome
Go(stage) == pc' = stage /\ UNCHANGED result

(* verify_file: a genuine file is accepted unless its checksums or          *)
(* signature cannot be fetched, any other only with nothing to check.       *)
MayAccept(content, checked) ==
  content = "genuine" \/ (content = "other" /\ ~checked)

Start ==
  /\ pc = "start"
  /\ \/ cancelled /\ End("cancelled")
     \/ ~cancelled /\ End("error")
     \/ ~cancelled /\ Go(IF persists THEN "reuse" ELSE "plan")
  /\ UNCHANGED << setting, hops, base, artifact, scratch, cancelled >>

(* reusable: verify_file must have checked something.                       *)
Reuse ==
  /\ pc = "reuse"
  /\ \/ vouched /\ MayAccept(artifact, vouched) /\ End("artifact")
     \/ Go("plan")
  /\ UNCHANGED << setting, hops, base, artifact, scratch, cancelled >>

------------------------------------------------------------------------------
(* try_deltas.                                                              *)

Plan ==
  /\ pc = "plan"
  /\ \/ Go("full") /\ UNCHANGED hops
     \/ \E chain \in Chains : Go("hop") /\ hops' = chain
  /\ base' = Running
  /\ UNCHANGED << setting, artifact, scratch, cancelled >>

(* remove_dir_all, whose failure nobody looks at.  A tree that stays, or a  *)
(* part of it, is never read: apply refuses an output that exists.          *)
TreesLeft(versions, stuck) ==
  [v \in Version |-> IF v \in versions \ stuck THEN "none" ELSE trees[v]]

StaysLeft(versions, stuck) ==
  (stays \ versions) \cup {v \in versions \cap stuck : trees[v] # "none"}

(* remove_file of a hop's delta, whose failure nobody looks at either.  The *)
(* delta of another hop has another name, and one of the same is replaced.  *)
DropDelta ==
  \/ delta' = "none" /\ UNCHANGED spilt
  \/ delta' = "part" /\ spilt' = TRUE

(* The trees a hop that fails removes: the one it started from, unless that *)
(* is the installed app, and its own.                                       *)
Spent_ThisHop == {Head(hops)[2]}
Spent == ({base} \ {Running}) \cup {Head(hops)[2]}

(* After a hop that fails the full artifact is downloaded instead.          *)
AfterDeltas == Go("full")

HopFails ==
  /\ AfterDeltas
  /\ \E stuck \in SUBSET Spent :
       trees' = TreesLeft(Spent, stuck) /\ stays' = StaysLeft(Spent, stuck)
  /\ hops' = << >> /\ held' = FALSE
  /\ UNCHANGED << base, artifact >>

BeginHop ==
  /\ pc = "hop"
  /\ \/ cancelled /\ HopFails /\ UNCHANGED << delta, spilt >>
     \/ ~cancelled /\ Go("fetch_hop") /\ UNCHANGED << hops, base, artifact, scratch >>
  /\ UNCHANGED << setting, cancelled >>

FetchHop ==
  /\ pc = "fetch_hop"
  /\ \/ HopFails /\ DropDelta
     \/ /\ delta' \in {"genuine", "other"} /\ held' \in BOOLEAN
        /\ Go("verify_hop")
        /\ UNCHANGED << hops, base, artifact, trees, stays, spilt >>
  /\ UNCHANGED << setting, cancelled >>

(* The signatures and the header: this delta, for this pair of versions.    *)
VerifyHop ==
  /\ pc = "verify_hop"
  /\ \/ HopFails /\ DropDelta
     \/ /\ MayAccept(delta, held)
        /\ Go("apply")
        /\ UNCHANGED << hops, base, artifact, scratch >>
  /\ UNCHANGED << setting, cancelled >>

(* delta::apply rebuilds what was published only from the files the delta   *)
(* was made against; it checks what it reads and what it writes against the *)
(* hashes in the delta.                                                     *)
BaseIntact == IF base = Running THEN pristine ELSE trees[base] = "genuine"

Rebuilt == IF delta = "genuine" /\ BaseIntact THEN "genuine" ELSE "other"

HashesMatch_Unchecked == TRUE
HashesMatch == delta = "genuine" => BaseIntact

(* Each intermediate tree is only needed as the next hop's base.            *)
NextBase == Head(hops)[2]

Applied(stuck) ==
  [TreesLeft({base} \ {Running}, stuck) EXCEPT ![NextBase] = Rebuilt]

(* An older tree is removed first; if that fails, so does apply.            *)
Apply ==
  /\ pc = "apply"
  /\ \/ HopFails /\ DropDelta
     \/ /\ HashesMatch
        /\ \E stuck \in SUBSET ({base} \ {Running}) :
             /\ trees' = Applied(stuck)
             /\ stays' = StaysLeft({base} \ {Running}, stuck) \ {NextBase}
        /\ base' = NextBase
        /\ hops' = Tail(hops)
        /\ DropDelta /\ UNCHANGED held
        /\ Go(IF Len(hops) = 1 THEN "rebuilt" ELSE "hop")
        /\ UNCHANGED artifact
  /\ UNCHANGED << setting, cancelled >>

(* check_payload of the rebuilt tree.                                       *)
CheckRebuilt ==
  /\ pc = "rebuilt"
  /\ \/ End("rebuilt") /\ UNCHANGED << trees, stays >>
     \/ /\ AfterDeltas
        /\ \E stuck \in SUBSET {base} :
             trees' = TreesLeft({base}, stuck) /\ stays' = StaysLeft({base}, stuck)
  /\ UNCHANGED << setting, hops, base, artifact, delta, held, spilt, cancelled >>

------------------------------------------------------------------------------
(* The full artifact.                                                       *)

BeginFull_Unasked == pc = "full" /\ Go("fetch")

BeginFull ==
  /\ pc = "full"
  /\ IF cancelled THEN End("cancelled") ELSE Go("fetch")

Full ==
  /\ BeginFull
  /\ UNCHANGED << setting, hops, base, artifact, scratch, cancelled >>

(* HttpDownload: nothing of a cancelled download is left.                   *)
Fetch ==
  /\ pc = "fetch"
  /\ \/ cancelled /\ End("cancelled") /\ artifact' = "none"
     \/ End("error") /\ artifact' \in Content
     \/ Go("fetched") /\ artifact' \in {"genuine", "other"}
  /\ UNCHANGED << setting, hops, base, scratch, cancelled >>

Fetched ==
  /\ pc = "fetched"
  /\ IF cancelled THEN End("cancelled") ELSE Go("verify")
  /\ UNCHANGED << setting, hops, base, artifact, scratch, cancelled >>

(* verify_file and check_payload.                                           *)
Verify ==
  /\ pc = "verify"
  /\ \/ MayAccept(artifact, vouched) /\ End("artifact")
     \/ End("error")
  /\ UNCHANGED << setting, hops, base, artifact, scratch, cancelled >>

------------------------------------------------------------------------------
Cancel ==
  /\ pc # "done"
  /\ ~cancelled
  /\ cancelled' = TRUE
  /\ UNCHANGED << setting, pc, hops, base, artifact, scratch, result >>

Next ==
  \/ Start
  \/ Reuse
  \/ Plan
  \/ BeginHop
  \/ FetchHop
  \/ VerifyHop
  \/ Apply
  \/ CheckRebuilt
  \/ Full
  \/ Fetch
  \/ Fetched
  \/ Verify
  \/ Cancel

Spec == Init /\ [][Next]_vars

------------------------------------------------------------------------------
(* Properties.                                                              *)

DeltaStage == {"hop", "fetch_hop", "verify_hop", "apply", "rebuilt"}

(* What is handed to the installer was checked, whichever way it was had:   *)
(* reused, rebuilt from any chain on top of any installation, or downloaded *)
(* (engine.rs:257, "nothing reaches the installer without passing the       *)
(* engine's checks").  Of a chain it is enough that the last delta could be *)
(* checked, since a delta names what it applies to and what it produces.    *)
ReturnedIsGenuine ==
  /\ result = "artifact" /\ vouched => artifact = "genuine"
  /\ result = "rebuilt" /\ held => trees[Target] = "genuine"

(* A download that is over leaves no delta and no tree but the one it       *)
(* returned, what an earlier download had left, and what it tried to remove *)
(* in vain.  What it returns is none of the latter two.                     *)
NoScratchLeft ==
  pc = "done" =>
    /\ delta # "none" => spilt
    /\ \A v \in Version : trees[v] # "none" =>
         IF result = "rebuilt" /\ v = Target THEN v \notin stays ELSE v \in stays

(* "Deltas can never make an update fail" (engine.rs:105): no step of the   *)
(* delta path ends the download with an error.                              *)
DeltasNeverFail == [][(pc \in DeltaStage) => result' # "error"]_vars

(* "A delta attempt that is cancelled does not fall back to the full        *)
(* download" (engine.rs:130), whatever ends the attempt.                    *)
CancelledDeltasDoNotFallBack ==
  [](cancelled /\ pc \in DeltaStage => [](pc # "fetch"))

==============================================================================
