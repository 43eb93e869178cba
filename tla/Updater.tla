------------------------------- MODULE Updater -------------------------------
(***************************************************************************)
(* The `Updater` entity of crates/gpui-updater/src/lib.rs with the engine  *)
(* as its backend (gpui-updater-pre has the same code).                    *)
(*                                                                         *)
(* The entity's methods and its foreground task run on the UI thread, one  *)
(* at a time: an action of the entity is what runs between two awaits.     *)
(* The blocking work (check, download, install) is a job on the background *)
(* executor; jobs run concurrently with the UI thread and outlive the      *)
(* entity once they have begun.                                            *)
(*                                                                         *)
(* Abstracted: the byte counts `Downloading` carries, error messages, and  *)
(* everything inside a job but the points where it can still be cancelled. *)
(* The path given to App::set_restart_path is the install root's, so it is *)
(* one with `disk`.                                                        *)
(*                                                                         *)
(* An operator whose name has an underscore is its namesake with a mistake *)
(* in it; no action uses it.  The properties are checked to notice it.     *)
(***************************************************************************)
EXTENDS Naturals

CONSTANTS
  Version,      (* Versions the source may publish; larger is newer.     *)
  None,         (* No version, no slot.                                  *)
  Slot,         (* Names for the jobs that exist at the same time.       *)
  Running0,     (* The version of the app when it is first started.      *)
  MaxEntities   (* Bound: entities one process creates, one at a time.   *)

ASSUME VersionAssumption == Version \subseteq Nat /\ None \notin Version
ASSUME SlotAssumption == None \notin Slot
ASSUME RunningAssumption == Running0 \in Version
ASSUME EntitiesAssumption == MaxEntities \in Nat \ {0}

VARIABLES
  alive,        (* The entity exists.                                    *)
  born,         (* Entities this process has created.                    *)
  status,       (* Updater::status.                                      *)
  available,    (* Updater::available.                                   *)
  task,         (* Updater::task: where the foreground task is suspended,*)
                (* and the job it waits for.                             *)
  cancel,       (* Updater::cancel: the job whose token it holds.        *)
  job,          (* The jobs, by slot.                                    *)
  running,      (* EngineConfig::current_version: the running version.   *)
  disk          (* The version at the install root, which a restart runs.*)

entity == << alive, born, status, available, task, cancel >>
world == << running, disk >>
vars == << entity, job, world >>

OptVersion == Version \cup {None}

(* A job is `unspawned` while only the foreground task that will spawn it   *)
(* exists, `queued` until a background thread picks it up, `running`,       *)
(* `settling` when a download is past its last cancellation checkpoint, and *)
(* `returned` when its result is there.                                     *)
Kind   == {"free", "check", "download", "install"}
Phase  == {"unspawned", "queued", "running", "settling", "returned"}
Result == {"none", "ok", "cancelled", "error"}

Job ==
  [kind : Kind, phase : Phase, release : OptVersion, result : Result,
   cancelled : BOOLEAN, owned : BOOLEAN]

NoJob ==
  [kind |-> "free", phase |-> "unspawned", release |-> None, result |-> "none",
   cancelled |-> FALSE, owned |-> FALSE]

NewJob(kind, phase, release) ==
  [kind |-> kind, phase |-> phase, release |-> release, result |-> "none",
   cancelled |-> FALSE, owned |-> TRUE]

WithPhase(j, phase) == [j EXCEPT !.phase = phase]
WithCancel(j)       == [j EXCEPT !.cancelled = TRUE]
Detached(j)         == [j EXCEPT !.owned = FALSE]
WithResult(j, result, release) ==
  [j EXCEPT !.phase = "returned", !.result = result, !.release = release]

(* A token lives as long as anyone holds it, so its slot is not reused.     *)
Free(s) == job[s] = NoJob /\ cancel # s

At == {"none", "check", "await_check", "download", "progress", "await_install"}

NoTask == [at |-> "none", slot |-> None, release |-> None]
TaskAt(at, s, v) == [at |-> at, slot |-> s, release |-> v]

Show(tag)       == [tag |-> tag, version |-> None]
Release(tag, v) == [tag |-> tag, version |-> v]

Status ==
  [tag : {"Idle", "Checking", "UpToDate", "Downloading", "Installing", "Errored"},
   version : {None}]
    \cup [tag : {"Available", "Staged"}, version : Version]

Busy_NotInstalling == status.tag \in {"Checking", "Downloading"}
Busy == status.tag \in {"Checking", "Downloading", "Installing"}

TypeOK ==
  /\ alive \in BOOLEAN
  /\ born \in 0 .. MaxEntities
  /\ status \in Status
  /\ available \in OptVersion
  /\ task \in [at : At, slot : Slot \cup {None}, release : OptVersion]
  /\ cancel \in Slot \cup {None}
  /\ job \in [Slot -> Job]
  /\ running \in Version
  /\ disk \in Version

Init ==
  /\ alive = FALSE
  /\ born = 0
  /\ status = Show("Idle")
  /\ available = None
  /\ task = NoTask
  /\ cancel = None
  /\ job = [s \in Slot |-> NoJob]
  /\ running = Running0
  /\ disk = Running0

------------------------------------------------------------------------------
(* The entity's methods, called by the app on the UI thread.                *)

New ==
  /\ ~alive
  /\ born < MaxEntities
  /\ alive' = TRUE
  /\ born' = born + 1
  /\ status' = Show("Idle")
  /\ available' = None
  /\ task' = NoTask
  /\ cancel' = None
  /\ UNCHANGED << job, world >>

Check ==
  /\ alive
  /\ ~Busy
  /\ status' = Show("Checking")
  /\ \E s \in Slot :
       /\ Free(s)
       /\ job' = [job EXCEPT ![s] = NewJob("check", "unspawned", None)]
       /\ task' = TaskAt("check", s, None)
  /\ UNCHANGED << alive, born, available, cancel, world >>

DownloadAndInstall ==
  /\ alive
  /\ ~Busy
  /\ available # None
  /\ status' = Show("Downloading")
  /\ \E s \in Slot :
       /\ Free(s)
       /\ job' = [job EXCEPT ![s] = NewJob("download", "unspawned", available)]
       /\ task' = TaskAt("download", s, available)
       /\ cancel' = s
  /\ UNCHANGED << alive, born, available, world >>

Cancel ==
  /\ alive
  /\ cancel # None
  /\ job' = [job EXCEPT ![cancel] = WithCancel(@)]
  /\ UNCHANGED << entity, world >>

(* Dropping the entity cancels the download's token...                      *)
Released(s) == IF s = cancel THEN WithCancel(job[s]) ELSE job[s]

(* ... and drops the foreground task; that drops the handle of the job it   *)
(* waits for, which discards a job no thread has picked up and detaches one *)
(* that runs.                                                               *)
Orphan(j) ==
  IF ~j.owned THEN j
  ELSE IF j.phase \in {"unspawned", "queued", "returned"} THEN NoJob
  ELSE Detached(j)

Drop ==
  /\ alive
  /\ alive' = FALSE
  /\ status' = Show("Idle")
  /\ available' = None
  /\ task' = NoTask
  /\ cancel' = None
  /\ job' = [s \in Slot |-> Orphan(Released(s))]
  /\ UNCHANGED << born, world >>

(* The process ends, with every thread in it, and the app starts again from *)
(* the install root.                                                        *)
EndProcess ==
  /\ alive' = FALSE
  /\ born' = 0
  /\ status' = Show("Idle")
  /\ available' = None
  /\ task' = NoTask
  /\ cancel' = None
  /\ job' = [s \in Slot |-> NoJob]
  /\ running' = disk
  /\ UNCHANGED disk

Restart == alive /\ EndProcess

(* The user quits or the app crashes while no entity exists.                *)
Quit == ~alive /\ EndProcess

------------------------------------------------------------------------------
(* The foreground task, resumed on the UI thread.                           *)

(* First poll of either task: the job goes to the background executor.      *)
Spawn ==
  /\ task.at \in {"check", "download"}
  /\ job' = [job EXCEPT ![task.slot] = WithPhase(@, "queued")]
  /\ task' = TaskAt(IF task.at = "check" THEN "await_check" ELSE "progress",
                    task.slot, task.release)
  /\ UNCHANGED << alive, born, status, available, cancel, world >>

Returned(at) == task.at = at /\ job[task.slot].phase = "returned"

FinishCheck ==
  /\ Returned("await_check")
  /\ LET result == job[task.slot] IN
       \/ /\ result.result = "ok" /\ result.release # None
          /\ available' = result.release
          /\ status' = Release("Available", result.release)
       \/ /\ result.result = "ok" /\ result.release = None
          /\ status' = Show("UpToDate")
          /\ UNCHANGED available
       \/ /\ result.result = "error"
          /\ status' = Show("Errored")
          /\ UNCHANGED available
  /\ task' = NoTask
  /\ job' = [job EXCEPT ![task.slot] = NoJob]
  /\ UNCHANGED << alive, born, cancel, world >>

Succeeded_OrCancelled(j) == j.result # "error"
Succeeded(j) == j.result = "ok"

ForgetToken_Kept == UNCHANGED cancel
ForgetToken == cancel' = None

(* download_failed: cancelling is not a failure.                            *)
DownloadFailed_Idle(result, v) ==
  IF result = "cancelled" THEN Show("Idle") ELSE Show("Errored")
DownloadFailed(result, v) ==
  IF result = "cancelled" THEN Release("Available", v) ELSE Show("Errored")

FailDownload ==
  /\ Returned("progress")
  /\ ~Succeeded(job[task.slot])
  /\ status' = DownloadFailed(job[task.slot].result, task.release)
  /\ task' = NoTask
  /\ ForgetToken
  /\ job' = [job EXCEPT ![task.slot] = NoJob]
  /\ UNCHANGED << alive, born, available, world >>

(* The verified artifact goes straight on to the installer.                 *)
StartInstall ==
  /\ Returned("progress")
  /\ Succeeded(job[task.slot])
  /\ status' = Show("Installing")
  /\ ForgetToken
  /\ job' = [job EXCEPT ![task.slot] = NewJob("install", "queued", task.release)]
  /\ task' = TaskAt("await_install", task.slot, task.release)
  /\ UNCHANGED << alive, born, available, world >>

InstalledStatus_Always(result, v) == Release("Staged", v)
InstalledStatus(result, v) == IF result = "ok" THEN Release("Staged", v) ELSE Show("Errored")

FinishInstall ==
  /\ Returned("await_install")
  /\ status' = InstalledStatus(job[task.slot].result, task.release)
  /\ task' = NoTask
  /\ job' = [job EXCEPT ![task.slot] = NoJob]
  /\ UNCHANGED << alive, born, available, cancel, world >>

------------------------------------------------------------------------------
(* The background executor.                                                 *)

BeginJob(s) ==
  /\ job[s].phase = "queued"
  /\ job' = [job EXCEPT ![s] = WithPhase(@, "running")]
  /\ UNCHANGED << entity, world >>

(* A job that ends with nobody waiting for it is gone.                      *)
Ended(j, result, release) ==
  IF j.owned THEN WithResult(j, result, release) ELSE NoJob

Return(s, result, release) ==
  job' = [job EXCEPT ![s] = Ended(job[s], result, release)]

InPhase(s, kind, phase) == job[s].kind = kind /\ job[s].phase = phase

(* UpdateEngine::check: only a version newer than the running one counts.   *)
Newer_OrSame(latest) == IF latest >= running THEN latest ELSE None
Newer(latest) == IF latest > running THEN latest ELSE None

RunCheck(s) ==
  /\ InPhase(s, "check", "running")
  /\ \/ \E latest \in Version : Return(s, "ok", Newer(latest))
     \/ Return(s, "error", None)
  /\ UNCHANGED << entity, world >>

(* UpdateEngine::download_cancellable: a cancel seen at a checkpoint ends   *)
(* it; past the last checkpoint only a failure can.                         *)
StopDownload(s) ==
  /\ InPhase(s, "download", "running")
  /\ job[s].cancelled
  /\ Return(s, "cancelled", job[s].release)
  /\ UNCHANGED << entity, world >>

PassLastCheckpoint(s) ==
  /\ InPhase(s, "download", "running")
  /\ ~job[s].cancelled
  /\ job' = [job EXCEPT ![s] = WithPhase(@, "settling")]
  /\ UNCHANGED << entity, world >>

EndDownload(s) ==
  /\ job[s].kind = "download"
  /\ \/ job[s].phase = "settling" /\ Return(s, "ok", job[s].release)
     \/ job[s].phase \in {"running", "settling"} /\ Return(s, "error", job[s].release)
  /\ UNCHANGED << entity, world >>

(* UpdateEngine::install replaces what is at the install root, or fails and *)
(* leaves it.                                                               *)
RunInstall(s) ==
  /\ InPhase(s, "install", "running")
  /\ \/ disk' = job[s].release /\ Return(s, "ok", job[s].release)
     \/ disk' = disk /\ Return(s, "error", job[s].release)
  /\ UNCHANGED << entity, running >>

------------------------------------------------------------------------------
App == New \/ Check \/ DownloadAndInstall \/ Cancel \/ Drop \/ Restart \/ Quit

Foreground == Spawn \/ FinishCheck \/ FailDownload \/ StartInstall \/ FinishInstall

Background(s) ==
  \/ BeginJob(s)
  \/ RunCheck(s)
  \/ StopDownload(s)
  \/ PassLastCheckpoint(s)
  \/ EndDownload(s)
  \/ RunInstall(s)

Next == App \/ Foreground \/ \E s \in Slot : Background(s)

(* Both executors keep running what is ready to run; the app need never     *)
(* call anything.  Every phase of a request has a deadline, so a job ends.  *)
Fairness ==
  /\ WF_vars(Foreground)
  /\ \A s \in Slot : WF_vars(Background(s))

Spec == Init /\ [][Next]_vars
FairSpec == Spec /\ Fairness

------------------------------------------------------------------------------
(* Properties.                                                              *)

(* The entity has one operation in flight, of the kind its status shows, or *)
(* none: `is_busy` on entry to check and download_and_install is all that   *)
(* keeps a second job from being started, and a job that is still owned is  *)
(* the one the foreground task waits for.                                   *)
KindOf == [Checking |-> "check", Downloading |-> "download", Installing |-> "install"]

OneOperation ==
  /\ \A s \in Slot : job[s].owned => alive /\ Busy /\ s = task.slot
  /\ Busy => /\ task.at # "none"
             /\ job[task.slot].owned
             /\ job[task.slot].kind = KindOf[status.tag]

(* `cancel` holds the token of the download that runs, from the call of     *)
(* download_and_install until the download has returned and no longer: a    *)
(* cancel reaches the download on screen and never a later one.             *)
CancelReachesDownload ==
  /\ cancel # None <=> status.tag = "Downloading"
  /\ cancel # None => cancel = task.slot

(* No release that is not newer than the running version is ever offered,   *)
(* downloaded or installed, so what is on disk is never older than what     *)
(* runs, whatever versions the source publishes between two checks.         *)
NoDowngrade ==
  /\ available # None => available > running
  /\ \A s \in Slot : job[s].kind \in {"download", "install"} => job[s].release > running
  /\ disk >= running

(* "Staged: the update is installed and ready to launch on restart"         *)
(* (status.rs:39): the version shown is the one a restart would run.        *)
StagedIsInstalled == status.tag = "Staged" => disk = status.version

(* The same while the process has created one entity only: whatever is      *)
(* called in whatever order, an entity that is alone tells the truth.       *)
FirstEntityStages == born <= 1 => StagedIsInstalled

(* A dropped entity leaves no download behind that nobody stops: the        *)
(* orphaned jobs are checks, cancelled downloads and installs that began.   *)
OrphansAreCancelled ==
  \A s \in Slot :
    job[s].kind = "download" /\ ~job[s].owned => job[s].cancelled

(* An install starts only in a living entity, from a download of the same   *)
(* release that returned a verified artifact; dropping the entity never     *)
(* lets one start.                                                          *)
InstallsOnlyVerified ==
  [][\A s \in Slot :
       job'[s].kind = "install" /\ job[s].kind # "install" =>
         /\ alive /\ alive'
         /\ job[s].kind = "download" /\ job[s].result = "ok"
         /\ job'[s].release = job[s].release]_vars

(* The entity is an implementation of what its views rely on.               *)
Lifecycle == INSTANCE UpdateLifecycle WITH offer <- available, target <- task.release
Implements == Lifecycle!Spec

==============================================================================
