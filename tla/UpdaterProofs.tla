---------------------------- MODULE UpdaterProofs ----------------------------
(***************************************************************************)
(* The invariants of Updater and UpdaterFiles, for any versions, slots,    *)
(* paths and number of entities, and that every step of the entity is one  *)
(* its views may rely on (UpdateLifecycle).                                *)
(*                                                                         *)
(* What the entity shows is not inductive on its own: it has to be tied to *)
(* where the foreground task is suspended, and that to the job it waits    *)
(* for.  TaskInStep and OwnedJob say how, ResultIsNewer carries "newer     *)
(* than the running version" from a check to the entity.  FirstInv, for a  *)
(* process that has created one entity, carries what an install did to the *)
(* disk to the status that reports it.                                     *)
(*                                                                         *)
(* With files the argument is about who may write where.  While the entity *)
(* has its files for itself (apart), no two jobs, and no job and the       *)
(* staged script, share a path: a private one is fresh, and for the kept   *)
(* one there is never more than one job (Single).  So what a job verified  *)
(* stays what it verified until it was installed (Holds).  Shape is what   *)
(* is left when it shares them: whose bytes are at the path is open, but   *)
(* they are of a release that is newer than the running one.               *)
(***************************************************************************)
EXTENDS UpdaterFiles, TLAPS


Dead == ~alive => status = Show("Idle") /\ available = None /\ task = NoTask /\ cancel = None

TaskInStep ==
  /\ status.tag = "Checking"    <=> task.at \in {"check", "await_check"}
  /\ status.tag = "Downloading" <=> task.at \in {"download", "progress"}
  /\ status.tag = "Installing"  <=> task.at = "await_install"
  /\ task.at # "none" =>
       /\ alive
       /\ task.slot \in Slot
       /\ job[task.slot].owned
       /\ job[task.slot].kind = KindOf[status.tag]
  /\ task.at \in {"download", "progress", "await_install"} =>
       /\ task.release \in Version
       /\ job[task.slot].release = task.release

OwnedJob == \A s \in Slot : job[s].owned => task.at # "none" /\ s = task.slot

ResultIsNewer ==
  \A s \in Slot :
    /\ job[s].kind = "check" /\ job[s].release # None => job[s].release > running
    /\ job[s].kind \in {"download", "install"} => job[s].release \in Version
    /\ job[s].kind = "free" => job[s] = NoJob

IInv ==
  /\ TypeOK
  /\ Dead
  /\ TaskInStep
  /\ OwnedJob
  /\ ResultIsNewer
  /\ CancelReachesDownload
  /\ NoDowngrade
  /\ OrphansAreCancelled

(* In a process that has created one entity a job that is left behind       *)
(* outlives every entity, so the jobs of a living one are its own, and what *)
(* its install put on disk stays there.                                     *)
Alone ==
  alive /\ born <= 1 =>
    /\ \A s \in Slot : job[s].kind # "free" => job[s].owned
    /\ \A s \in Slot : job[s].kind = "install" /\ job[s].result = "ok" => disk = job[s].release
    /\ StagedIsInstalled

FirstInv ==
  /\ alive => born > 0
  /\ born = 0 => \A s \in Slot : job[s] = NoJob
  /\ Alone

------------------------------------------------------------------------------
(* An empty slot is a job record of kind `free` that nobody owns.           *)
LEMMA NoJobType ==
  /\ NoJob \in Job
  /\ NoJob.kind = "free"
  /\ ~NoJob.owned
  /\ NoJob.release = None
  BY DEF NoJob, Job, Kind, Phase, Result, OptVersion

(* With no entity and no job there is nothing to relate.                    *)
Nothing ==
  /\ alive = FALSE
  /\ born \in 0 .. MaxEntities
  /\ status = Show("Idle")
  /\ available = None
  /\ task = NoTask
  /\ cancel = None
  /\ job = [s \in Slot |-> NoJob]
  /\ running \in Version
  /\ disk = running

(* The invariant holds when the process has just started.                   *)
LEMMA NothingInv == Nothing => IInv
<1> SUFFICES ASSUME Nothing PROVE IInv
  OBVIOUS
<1> USE VersionAssumption, SlotAssumption DEF Nothing
<1>1. \A s \in Slot : job[s] = NoJob
  OBVIOUS
<1>2. NoJob \in Job /\ NoJob.kind = "free" /\ ~NoJob.owned /\ NoJob.release = None
  BY NoJobType
<1>3. TypeOK
  <2>1. job \in [Slot -> Job]
    BY <1>2
  <2>2. status \in Status /\ task \in [at : At, slot : Slot \cup {None}, release : OptVersion]
    BY DEF Show, Status, NoTask, At, OptVersion
  <2>3. QED BY <2>1, <2>2 DEF TypeOK, OptVersion
<1>4. status.tag = "Idle" /\ task.at = "none"
  BY DEF Show, NoTask
<1>5. Dead /\ OwnedJob /\ ResultIsNewer /\ OrphansAreCancelled /\ CancelReachesDownload
  BY <1>1, <1>2, <1>4 DEF Dead, OwnedJob, ResultIsNewer, OrphansAreCancelled, CancelReachesDownload
<1>6. TaskInStep
  BY <1>4 DEF TaskInStep
<1>7. NoDowngrade
  <2>1. running \in Nat
    OBVIOUS
  <2>2. QED BY <1>1, <1>2, <2>1 DEF NoDowngrade
<1>8. QED
  BY <1>3, <1>5, <1>6, <1>7 DEF IInv

(* What the updates of a job's record change and what they leave.           *)
SameBut(j, k, fields) ==
  /\ k \in Job
  /\ "phase" \notin fields => k.phase = j.phase
  /\ "release" \notin fields => k.release = j.release
  /\ "result" \notin fields => k.result = j.result
  /\ "cancelled" \notin fields => k.cancelled = j.cancelled
  /\ "owned" \notin fields => k.owned = j.owned
  /\ k.kind = j.kind

(* WithPhase moves a job to a phase and changes nothing else of it.         *)
LEMMA PhaseUpdate ==
  ASSUME NEW j \in Job, NEW p \in Phase
  PROVE  SameBut(j, WithPhase(j, p), {"phase"}) /\ WithPhase(j, p).phase = p
  BY Zenon DEF SameBut, WithPhase, Job

(* WithCancel sets the flag of the token and changes nothing else.          *)
LEMMA CancelUpdate ==
  ASSUME NEW j \in Job
  PROVE  SameBut(j, WithCancel(j), {"cancelled"}) /\ WithCancel(j).cancelled
  BY Zenon DEF SameBut, WithCancel, Job

(* Detached takes the job from the entity and changes nothing else.         *)
LEMMA OwnedUpdate ==
  ASSUME NEW j \in Job
  PROVE  SameBut(j, Detached(j), {"owned"}) /\ ~Detached(j).owned
  BY Zenon DEF SameBut, Detached, Job

(* WithResult returns a job with a result and a release.                    *)
LEMMA ResultUpdate ==
  ASSUME NEW j \in Job, NEW x \in Result, NEW v \in OptVersion
  PROVE  /\ SameBut(j, WithResult(j, x, v), {"phase", "result", "release"})
         /\ WithResult(j, x, v).phase = "returned"
         /\ WithResult(j, x, v).result = x
         /\ WithResult(j, x, v).release = v
  BY Zenon DEF SameBut, WithResult, Job, Phase

(* A step of the background executor changes one job and leaves the entity  *)
(* alone.  It either ends a job nobody owns or keeps what the job is for.   *)
Advances(j, k) ==
  /\ j.kind # "free"
  /\ \/ k = NoJob /\ ~j.owned
     \/ /\ k.kind = j.kind
        /\ k.owned = j.owned
        /\ j.cancelled => k.cancelled
        /\ IF k.kind = "check" THEN k.release # None => k.release > running
           ELSE k.release = j.release

(* A step that advances one job keeps the invariant.                        *)
LEMMA BackgroundStep ==
  ASSUME NEW s \in Slot, NEW k \in Job,
         IInv,
         job' = [job EXCEPT ![s] = k],
         Advances(job[s], k),
         UNCHANGED << entity, running >>,
         disk' \in Version, disk' >= running
  PROVE  IInv'
<1> USE VersionAssumption, SlotAssumption DEF IInv, entity
<1>1. job \in [Slot -> Job] /\ job' \in [Slot -> Job]
  BY DEF TypeOK
<1>2. job'[s] = k /\ \A r \in Slot : r # s => job'[r] = job[r]
  BY <1>1
<1>3. TypeOK'
  BY <1>1 DEF TypeOK
<1>4. Dead'
  BY DEF Dead
<1>5. k = NoJob => ~k.owned /\ k.kind = "free" /\ k.release = None
  BY DEF NoJob
<1>6. TaskInStep'
  <2>1. ASSUME task.at # "none"
        PROVE  /\ job'[task.slot].owned
               /\ job'[task.slot].kind = job[task.slot].kind
               /\ task.at \in {"download", "progress", "await_install"} =>
                    job'[task.slot].release = job[task.slot].release
    <3>1. task.slot \in Slot /\ job[task.slot].owned
      BY <2>1 DEF TaskInStep
    <3>2. task.at \in {"download", "progress", "await_install"} =>
            job[task.slot].kind \in {"download", "install"}
      BY <2>1 DEF TaskInStep, KindOf
    <3>3. CASE task.slot = s
      BY <3>1, <3>2, <3>3, <1>2, <1>5 DEF Advances
    <3>4. CASE task.slot # s
      BY <3>1, <3>4, <1>2
    <3>5. QED BY <3>3, <3>4
  <2>2. QED BY <2>1 DEF TaskInStep, KindOf
<1>7. OwnedJob'
  BY <1>2, <1>5 DEF OwnedJob, Advances
<1>8. ResultIsNewer'
  BY <1>2, <1>5 DEF ResultIsNewer, Advances
<1>9. CancelReachesDownload'
  BY DEF CancelReachesDownload
<1>10. NoDowngrade'
  BY <1>2, <1>5 DEF NoDowngrade, Advances
<1>11. OrphansAreCancelled'
  BY <1>2, <1>5 DEF OrphansAreCancelled, Advances
<1>12. QED
  BY <1>3, <1>4, <1>6, <1>7, <1>8, <1>9, <1>10, <1>11

(* The methods and the foreground task: Updater::new keeps it.              *)
LEMMA NewInv == IInv /\ New => IInv'
  BY VersionAssumption, SlotAssumption, EntitiesAssumption
  DEF IInv, New, TypeOK, Dead, TaskInStep, OwnedJob, ResultIsNewer,
      CancelReachesDownload, NoDowngrade, OrphansAreCancelled, Show, Release, Status,
      NoTask, TaskAt, NoJob, NewJob, Free, Job, Kind, Phase, Result, OptVersion, At, KindOf,
      Busy, entity, world, Returned, DownloadFailed

(* check spawns a check when nothing is in flight.                          *)
LEMMA CheckInv == IInv /\ Check => IInv'
  BY VersionAssumption, SlotAssumption, EntitiesAssumption
  DEF IInv, Check, TypeOK, Dead, TaskInStep, OwnedJob, ResultIsNewer,
      CancelReachesDownload, NoDowngrade, OrphansAreCancelled, Show, Release, Status,
      NoTask, TaskAt, NoJob, NewJob, Free, Job, Kind, Phase, Result, OptVersion, At, KindOf,
      Busy, entity, world, Returned, DownloadFailed

(* download_and_install takes the release that is available.                *)
LEMMA DownloadAndInstallInv == IInv /\ DownloadAndInstall => IInv'
  BY VersionAssumption, SlotAssumption, EntitiesAssumption
  DEF IInv, DownloadAndInstall, TypeOK, Dead, TaskInStep, OwnedJob, ResultIsNewer,
      CancelReachesDownload, NoDowngrade, OrphansAreCancelled, Show, Release, Status,
      NoTask, TaskAt, NoJob, NewJob, Free, Job, Kind, Phase, Result, OptVersion, At, KindOf,
      Busy, entity, world, Returned, DownloadFailed

(* A check that returns a release returns a newer one.                      *)
LEMMA FinishCheckInv == IInv /\ FinishCheck => IInv'
  BY VersionAssumption, SlotAssumption, EntitiesAssumption
  DEF IInv, FinishCheck, TypeOK, Dead, TaskInStep, OwnedJob, ResultIsNewer,
      CancelReachesDownload, NoDowngrade, OrphansAreCancelled, Show, Release, Status,
      NoTask, TaskAt, NoJob, NewJob, Free, Job, Kind, Phase, Result, OptVersion, At, KindOf,
      Busy, entity, world, Returned, DownloadFailed

(* A download that failed or was cancelled ends the operation.              *)
LEMMA FailDownloadInv == IInv /\ FailDownload => IInv'
  BY VersionAssumption, SlotAssumption, EntitiesAssumption
  DEF IInv, FailDownload, ForgetToken, Succeeded, TypeOK, Dead, TaskInStep, OwnedJob, ResultIsNewer,
      CancelReachesDownload, NoDowngrade, OrphansAreCancelled, Show, Release, Status,
      NoTask, TaskAt, NoJob, NewJob, Free, Job, Kind, Phase, Result, OptVersion, At, KindOf,
      Busy, entity, world, Returned, DownloadFailed

(* The install is of the release that was downloaded.                       *)
LEMMA StartInstallInv == IInv /\ StartInstall => IInv'
  BY VersionAssumption, SlotAssumption, EntitiesAssumption
  DEF IInv, StartInstall, ForgetToken, Succeeded, TypeOK, Dead, TaskInStep, OwnedJob, ResultIsNewer,
      CancelReachesDownload, NoDowngrade, OrphansAreCancelled, Show, Release, Status,
      NoTask, TaskAt, NoJob, NewJob, Free, Job, Kind, Phase, Result, OptVersion, At, KindOf,
      Busy, entity, world, Returned, DownloadFailed

(* An install that returns ends the operation.                              *)
LEMMA FinishInstallInv == IInv /\ FinishInstall => IInv'
  BY VersionAssumption, SlotAssumption, EntitiesAssumption
  DEF IInv, FinishInstall, InstalledStatus, TypeOK, Dead, TaskInStep, OwnedJob, ResultIsNewer,
      CancelReachesDownload, NoDowngrade, OrphansAreCancelled, Show, Release, Status,
      NoTask, TaskAt, NoJob, NewJob, Free, Job, Kind, Phase, Result, OptVersion, At, KindOf,
      Busy, entity, world, Returned, DownloadFailed

(* The invariant holds initially.                                           *)
LEMMA InitInv == Init => IInv
<1>1. Init => Nothing
  BY RunningAssumption, EntitiesAssumption DEF Init, Nothing
<1>2. QED
  BY <1>1, NothingInv

(* A process that ends leaves what is on disk, which is what runs next.     *)
LEMMA EndProcessInv == IInv /\ EndProcess => IInv'
<1>1. IInv /\ EndProcess => Nothing'
  BY EntitiesAssumption DEF EndProcess, IInv, TypeOK, Nothing, NoTask, NoJob, Show
<1>2. QED
  BY <1>1, NothingInv, PTL

(* Cancel only sets a flag of the job on screen.                            *)
LEMMA CancelInv == IInv /\ Cancel => IInv'
<1> SUFFICES ASSUME IInv, Cancel PROVE IInv'
  OBVIOUS
<1>1. /\ cancel \in Slot
      /\ job[cancel] \in Job
      /\ job[cancel].owned
      /\ job[cancel].kind = "download"
  BY SlotAssumption DEF Cancel, IInv, TypeOK, CancelReachesDownload, TaskInStep, KindOf
<1>2. /\ SameBut(job[cancel], WithCancel(job[cancel]), {"cancelled"})
      /\ WithCancel(job[cancel]).cancelled
  BY <1>1, CancelUpdate
<1>3. Advances(job[cancel], WithCancel(job[cancel]))
  BY <1>1, <1>2 DEF Advances, SameBut
<1>4. /\ WithCancel(job[cancel]) \in Job
      /\ job' = [job EXCEPT ![cancel] = WithCancel(job[cancel])]
      /\ UNCHANGED << entity, running >>
      /\ disk' \in Version /\ disk' >= running
  BY <1>2 DEF Cancel, SameBut, world, IInv, TypeOK, NoDowngrade
<1>5. QED
  BY <1>1, <1>3, <1>4, BackgroundStep

(* Dropping the entity leaves the jobs that have begun, disowned.           *)
LEMMA DropJobs ==
  ASSUME IInv, Drop, NEW s \in Slot
  PROVE  \/ job'[s] = NoJob
         \/ ~job[s].owned /\ job'[s] = job[s] /\ s # cancel
         \/ /\ job[s].owned
            /\ job'[s] \in Job
            /\ ~job'[s].owned
            /\ job'[s].kind = job[s].kind
            /\ job'[s].release = job[s].release
            /\ job'[s].cancelled = (job[s].cancelled \/ s = cancel)
<1> USE VersionAssumption, SlotAssumption
<1> DEFINE before == IF s = cancel THEN WithCancel(job[s]) ELSE job[s]
<1>1. /\ before \in Job
      /\ before.kind = job[s].kind
      /\ before.release = job[s].release
      /\ before.owned = job[s].owned
      /\ before.cancelled = (job[s].cancelled \/ s = cancel)
  <2>1. job[s] \in Job /\ job[s].cancelled \in BOOLEAN
    BY DEF IInv, TypeOK, Job
  <2>2. SameBut(job[s], WithCancel(job[s]), {"cancelled"}) /\ WithCancel(job[s]).cancelled = TRUE
    BY <2>1, CancelUpdate DEF SameBut, Job
  <2>3. QED
    BY <2>1, <2>2 DEF SameBut
<1>2. job'[s] = Orphan(before)
  BY DEF Drop, Released
<1>3. SameBut(before, Detached(before), {"owned"}) /\ ~Detached(before).owned
  BY <1>1, OwnedUpdate
<1>4. s = cancel => job[s].owned
  BY DEF IInv, CancelReachesDownload, TaskInStep
<1>5. QED
  BY <1>1, <1>2, <1>3, <1>4 DEF Orphan, SameBut

(* Dropping the entity disowns every job and cancels the download.          *)
LEMMA DropInv == IInv /\ Drop => IInv'
<1> SUFFICES ASSUME IInv, Drop PROVE IInv'
  OBVIOUS
<1> USE VersionAssumption, SlotAssumption
<1>2. ASSUME NEW s \in Slot
      PROVE  \/ job'[s] = NoJob
             \/ ~job[s].owned /\ job'[s] = job[s] /\ s # cancel
             \/ /\ job[s].owned
                /\ job'[s] \in Job
                /\ ~job'[s].owned
                /\ job'[s].kind = job[s].kind
                /\ job'[s].release = job[s].release
                /\ job'[s].cancelled = (job[s].cancelled \/ s = cancel)
  BY DropJobs
<1>3. /\ NoJob \in Job /\ NoJob.kind = "free" /\ ~NoJob.owned
      /\ NoJob.release = None
  BY NoJobType
<1>4. TypeOK'
  <2>1. job' \in [Slot -> Job]
    <3>1. \A s \in Slot : job'[s] \in Job
      BY <1>2, <1>3 DEF IInv, TypeOK
    <3>2. QED BY <3>1 DEF Drop
  <2>2. QED
    BY <2>1 DEF IInv, TypeOK, Drop, Show, Status, NoTask, At, OptVersion, world
<1>5. Dead' /\ TaskInStep' /\ CancelReachesDownload'
  <2>1. status'.tag = "Idle" /\ task'.at = "none" /\ cancel' = None
    BY DEF Drop, Show, NoTask
  <2>2. QED
    BY <2>1 DEF Drop, Dead, TaskInStep, CancelReachesDownload
<1>6. OwnedJob'
  BY <1>2, <1>3 DEF OwnedJob
<1>7. ResultIsNewer' /\ NoDowngrade'
  <2>1. running' = running /\ disk' = disk /\ available' = None
    BY DEF Drop, world
  <2>2. ResultIsNewer'
    <3>1. \A s \in Slot : job[s].owned => job[s].kind # "free"
      BY NoJobType DEF IInv, ResultIsNewer
    <3>2. QED
      BY <1>2, <1>3, <2>1, <3>1 DEF IInv, ResultIsNewer
  <2>3. NoDowngrade'
    BY <1>2, <1>3, <2>1 DEF IInv, NoDowngrade
  <2>4. QED
    BY <2>2, <2>3
<1>8. OrphansAreCancelled'
  <2>1. ASSUME NEW s \in Slot, job[s].kind = "download", job[s].owned
        PROVE  s = cancel
    <3>1. task.at # "none" /\ task.at \in At /\ s = task.slot
      BY <2>1 DEF IInv, OwnedJob, TypeOK
    <3>2. status.tag = "Downloading"
      BY <2>1, <3>1 DEF IInv, TaskInStep, KindOf, At
    <3>3. QED
      BY <3>1, <3>2 DEF IInv, CancelReachesDownload
  <2>2. QED
    BY <2>1, <1>2, <1>3 DEF IInv, OrphansAreCancelled
<1>9. QED
  BY <1>4, <1>5, <1>6, <1>7, <1>8 DEF IInv

(* Spawn queues the job of the foreground task.                             *)
LEMMA SpawnInv == IInv /\ Spawn => IInv'
<1> SUFFICES ASSUME IInv, Spawn PROVE IInv'
  OBVIOUS
<1> USE VersionAssumption, SlotAssumption
<1> DEFINE k == WithPhase(job[task.slot], "queued")
<1>1. /\ task.slot \in Slot
      /\ job[task.slot] \in Job
      /\ SameBut(job[task.slot], k, {"phase"})
  BY PhaseUpdate DEF Spawn, IInv, TypeOK, TaskInStep, Phase
<1>2. /\ job'[task.slot] = k
      /\ \A s \in Slot : s # task.slot => job'[s] = job[s]
      /\ job' \in [Slot -> Job]
  BY <1>1 DEF Spawn, IInv, TypeOK, SameBut
<1>3. \A s \in Slot : /\ job'[s].kind = job[s].kind
                      /\ job'[s].release = job[s].release
                      /\ job'[s].owned = job[s].owned
                      /\ job'[s].cancelled = job[s].cancelled
  BY <1>1, <1>2 DEF SameBut
<1>4. /\ task'.slot = task.slot /\ task'.release = task.release
      /\ task'.at = IF task.at = "check" THEN "await_check" ELSE "progress"
      /\ task' \in [at : At, slot : Slot \cup {None}, release : OptVersion]
  BY DEF Spawn, TaskAt, At, IInv, TypeOK
<1>5. job[task.slot].kind # "free"
  BY DEF Spawn, IInv, TaskInStep, KindOf
<1>6. TypeOK'
  BY <1>2, <1>4 DEF IInv, TypeOK, Spawn, world
<1>7. Dead' /\ TaskInStep'
  BY <1>1, <1>3, <1>4 DEF IInv, Dead, TaskInStep, Spawn
<1>8. OwnedJob' /\ CancelReachesDownload' /\ OrphansAreCancelled' /\ NoDowngrade'
  BY <1>1, <1>3, <1>4
  DEF IInv, OwnedJob, CancelReachesDownload, OrphansAreCancelled, NoDowngrade, Spawn, world
<1>9. ResultIsNewer'
  BY <1>1, <1>2, <1>3, <1>5 DEF IInv, ResultIsNewer, Spawn, world
<1>10. QED
  BY <1>6, <1>7, <1>8, <1>9 DEF IInv

------------------------------------------------------------------------------
(* The background executor.                                                 *)

(* What a returning job leaves in its slot.                                 *)
LEMMA ReturnStep ==
  ASSUME NEW s \in Slot, NEW x \in Result, NEW v \in OptVersion,
         IInv,
         job[s].kind # "free",
         Return(s, x, v),
         IF job[s].kind = "check" THEN v # None => v > running ELSE v = job[s].release
  PROVE  \E k \in Job : job' = [job EXCEPT ![s] = k] /\ Advances(job[s], k)
<1> DEFINE k == Ended(job[s], x, v)
<1>1. job[s] \in Job
  BY DEF IInv, TypeOK
<1>2. CASE job[s].owned
  <2>1. k = WithResult(job[s], x, v)
    BY <1>2 DEF Ended
  <2>2. /\ SameBut(job[s], WithResult(job[s], x, v), {"phase", "result", "release"})
        /\ WithResult(job[s], x, v).release = v
    BY <1>1, ResultUpdate
  <2>3. k \in Job /\ Advances(job[s], k)
    BY <2>1, <2>2 DEF SameBut, Advances
  <2>4. QED
    BY <2>3 DEF Return
<1>3. CASE ~job[s].owned
  <2>1. k = NoJob
    BY <1>3 DEF Ended
  <2>2. k \in Job /\ Advances(job[s], k)
    BY <1>3, <2>1, NoJobType DEF Advances
  <2>3. QED
    BY <2>2 DEF Return
<1>4. QED
  BY <1>2, <1>3

(* Moving a job that exists to another phase advances it.                   *)
LEMMA PhaseStep ==
  ASSUME NEW s \in Slot, NEW p \in Phase, IInv,
         job[s].kind # "free",
         job' = [job EXCEPT ![s] = WithPhase(job[s], p)]
  PROVE  \E k \in Job : job' = [job EXCEPT ![s] = k] /\ Advances(job[s], k)
<1>1. job[s] \in Job
  BY DEF IInv, TypeOK
<1>2. SameBut(job[s], WithPhase(job[s], p), {"phase"})
  BY <1>1, PhaseUpdate
<1>3. WithPhase(job[s], p) \in Job /\ Advances(job[s], WithPhase(job[s], p))
  BY <1>1, <1>2 DEF SameBut, Advances, IInv, ResultIsNewer
<1>4. QED
  BY <1>3

(* Every step of the background executor advances one job.                  *)
LEMMA BackgroundAdvances ==
  ASSUME NEW s \in Slot, IInv, Background(s)
  PROVE  /\ \E k \in Job : job' = [job EXCEPT ![s] = k] /\ Advances(job[s], k)
         /\ UNCHANGED << entity, running >>
         /\ disk' # disk => job[s].kind = "install" /\ disk' = job[s].release
<1> USE VersionAssumption
<1>1. /\ job[s].phase # "unspawned" => job[s].kind # "free"
      /\ job[s].kind \in {"download", "install"} => job[s].release \in OptVersion
  BY DEF IInv, ResultIsNewer, NoJob, OptVersion
<1>2. CASE BeginJob(s)
  BY <1>1, <1>2, PhaseStep DEF BeginJob, Phase, world
<1>3. CASE RunCheck(s)
  <2>1. \A v \in Version : v \in OptVersion
    BY DEF OptVersion
  <2>2. None \in OptVersion
    BY DEF OptVersion
  <2>3. PICK x \in Result, v \in OptVersion : Return(s, x, v) /\ (v # None => v > running)
    BY <1>3, <2>1, <2>2 DEF RunCheck, Newer, Result
  <2>4. QED
    BY <1>3, <2>3, ReturnStep DEF RunCheck, InPhase, world
<1>4. CASE StopDownload(s)
  BY <1>1, <1>4, ReturnStep DEF StopDownload, InPhase, Result, world
<1>5. CASE PassLastCheckpoint(s)
  BY <1>1, <1>5, PhaseStep DEF PassLastCheckpoint, InPhase, Phase, world
<1>6. CASE EndDownload(s)
  BY <1>1, <1>6, ReturnStep DEF EndDownload, Result, world
<1>7. CASE RunInstall(s)
  BY <1>1, <1>7, ReturnStep DEF RunInstall, InPhase, Result
<1>8. QED
  BY <1>2, <1>3, <1>4, <1>5, <1>6, <1>7 DEF Background

(* So the background executor keeps the invariant.                          *)
LEMMA BackgroundInv == ASSUME NEW s \in Slot, IInv, Background(s) PROVE IInv'
<1> USE VersionAssumption
<1>1. PICK k \in Job : job' = [job EXCEPT ![s] = k] /\ Advances(job[s], k)
  BY BackgroundAdvances
<1>2. UNCHANGED << entity, running >>
  BY BackgroundAdvances
<1>3. disk' \in Version /\ disk' >= running
  <2>1. disk \in Version /\ disk >= running /\ running \in Nat
    BY DEF IInv, TypeOK, NoDowngrade
  <2>2. CASE disk' = disk
    BY <2>1, <2>2
  <2>3. CASE disk' # disk
    <3>1. job[s].kind = "install" /\ disk' = job[s].release
      BY <2>3, BackgroundAdvances
    <3>2. disk' \in Version /\ disk' > running
      BY <3>1 DEF IInv, NoDowngrade, ResultIsNewer
    <3>3. disk' \in Nat
      BY <3>2
    <3>4. QED
      BY <2>1, <3>2, <3>3
  <2>4. QED
    BY <2>2, <2>3
<1>4. QED
  BY <1>1, <1>2, <1>3, BackgroundStep

(* Every step keeps the invariant.                                          *)
LEMMA StepInv == IInv /\ [Next]_vars => IInv'
<1> SUFFICES ASSUME IInv, [Next]_vars PROVE IInv'
  OBVIOUS
<1>1. CASE App
  BY <1>1, NewInv, CheckInv, DownloadAndInstallInv, CancelInv, DropInv, EndProcessInv
  DEF App, Restart, Quit
<1>2. CASE Foreground
  BY <1>2, SpawnInv, FinishCheckInv, FailDownloadInv, StartInstallInv, FinishInstallInv
  DEF Foreground
<1>3. CASE \E s \in Slot : Background(s)
  BY <1>3, BackgroundInv
<1>4. CASE UNCHANGED vars
  BY <1>4 DEF vars, entity, world, IInv, TypeOK, Dead, TaskInStep, OwnedJob, ResultIsNewer,
      CancelReachesDownload, NoDowngrade, OrphansAreCancelled
<1>5. QED
  BY <1>1, <1>2, <1>3, <1>4 DEF Next

(* Every reachable state satisfies the inductive invariant.                 *)
THEOREM Invariant == Spec => []IInv
  BY InitInv, StepInv, PTL DEF Spec

(* TypeOK: every variable keeps its type.                                   *)
THEOREM TypeCorrect == Spec => []TypeOK
  BY Invariant, PTL DEF IInv

(* What shows as busy is the one operation in flight.                       *)
LEMMA OneOperationHolds == IInv => OneOperation
<1> SUFFICES ASSUME IInv PROVE OneOperation
  OBVIOUS
<1>1. task.at \in At
  BY DEF IInv, TypeOK
<1>2. Busy <=> task.at # "none"
  BY <1>1 DEF IInv, TaskInStep, Busy, At
<1>3. QED
  BY <1>2 DEF IInv, TaskInStep, OwnedJob, OneOperation

(* OneOperation: the entity never has two operations in flight.             *)
THEOREM OneAtATime == Spec => []OneOperation
  BY OneOperationHolds, Invariant, PTL

(* CancelReachesDownload: the token `cancel` holds is the token of the      *)
(* download on screen.                                                      *)
THEOREM CancelIsAimed == Spec => []CancelReachesDownload
  BY Invariant, PTL DEF IInv

(* NoDowngrade: nothing but a newer version is offered, downloaded or       *)
(* installed.                                                               *)
THEOREM NeverDowngrades == Spec => []NoDowngrade
  BY Invariant, PTL DEF IInv

(* OrphansAreCancelled: a download left behind by a dropped entity was told *)
(* to stop.                                                                 *)
THEOREM OrphansStop == Spec => []OrphansAreCancelled
  BY Invariant, PTL DEF IInv

(* A job becomes an install only after a download of its release.           *)
InstallFollows ==
  \A s \in Slot :
    job'[s].kind = "install" /\ job[s].kind # "install" =>
      /\ alive /\ alive'
      /\ job[s].kind = "download" /\ job[s].result = "ok"
      /\ job'[s].release = job[s].release

(* Only StartInstall makes an install of a job.                             *)
LEMMA InstallFollowsStep == IInv /\ Next => InstallFollows
<1> SUFFICES ASSUME IInv, Next, NEW s \in Slot,
                    job'[s].kind = "install", job[s].kind # "install"
             PROVE  /\ alive /\ alive'
                    /\ job[s].kind = "download" /\ job[s].result = "ok"
                    /\ job'[s].release = job[s].release
  BY DEF InstallFollows
<1>1. job \in [Slot -> Job]
  BY DEF IInv, TypeOK
<1>2. CASE StartInstall
  BY <1>1, <1>2 DEF StartInstall, Succeeded, Returned, NewJob, IInv, TaskInStep, KindOf
<1>3. /\ NoJob.kind # "install"
      /\ \A v \in OptVersion : /\ NewJob("check", "unspawned", v).kind = "check"
                               /\ NewJob("download", "unspawned", v).kind = "download"
  BY NoJobType DEF NewJob
<1>4. CASE App
  <2>1. CASE Cancel
    <3>1. cancel \in Slot /\ job[cancel] \in Job
      BY <1>1, <2>1 DEF Cancel, IInv, TypeOK
    <3>2. WithCancel(job[cancel]).kind = job[cancel].kind
      BY <3>1, CancelUpdate DEF SameBut
    <3>3. QED
      BY <1>1, <2>1, <3>1, <3>2 DEF Cancel
  <2>2. CASE Drop
    BY <1>3, <2>2, DropJobs
  <2>3. CASE New
    BY <2>3 DEF New
  <2>4. CASE Check
    BY <1>1, <2>4 DEF Check, NewJob
  <2>5. CASE DownloadAndInstall
    BY <1>1, <2>5 DEF DownloadAndInstall, NewJob
  <2>6. CASE EndProcess
    BY <1>3, <2>6 DEF EndProcess
  <2>7. QED
    BY <1>4, <2>1, <2>2, <2>3, <2>4, <2>5, <2>6 DEF App, Restart, Quit
<1>5. CASE Spawn
  <2>1. task.slot \in Slot /\ job[task.slot] \in Job
    BY <1>1, <1>5 DEF Spawn, IInv, TaskInStep
  <2>2. WithPhase(job[task.slot], "queued").kind = job[task.slot].kind
    BY <2>1, PhaseUpdate DEF SameBut, Phase
  <2>3. QED
    BY <1>1, <1>5, <2>1, <2>2 DEF Spawn
<1>6. CASE FinishCheck \/ FailDownload \/ FinishInstall
  BY <1>1, <1>3, <1>6 DEF FinishCheck, FailDownload, FinishInstall
<1>7. CASE \E r \in Slot : Background(r)
  <2>1. PICK r \in Slot : Background(r)
    BY <1>7
  <2>2. PICK k \in Job : job' = [job EXCEPT ![r] = k] /\ Advances(job[r], k)
    BY <2>1, BackgroundAdvances
  <2>3. QED
    BY <1>1, <1>3, <2>2 DEF Advances
<1>8. QED
  BY <1>2, <1>4, <1>5, <1>6, <1>7 DEF Next, Foreground

(* InstallsOnlyVerified: an install follows a download of the same release  *)
(* that returned an artifact, in an entity that lives.                      *)
THEOREM InstallsFollowDownloads == Spec => InstallsOnlyVerified
<1>1. IInv /\ [Next]_vars => [InstallFollows]_vars
  BY InstallFollowsStep
<1>2. QED
  BY <1>1, Invariant, PTL DEF Spec, InstallsOnlyVerified, InstallFollows

------------------------------------------------------------------------------
(* A process with one entity.                                               *)

(* No job, and no entity or a new one.                                      *)
LEMMA NoJobs ==
  ASSUME \A s \in Slot : job[s] = NoJob, status.tag = "Idle", alive => born > 0
  PROVE  FirstInv
  BY NoJobType DEF FirstInv, Alone, StagedIsInstalled

(* The app's calls, none of which touches what is installed.                *)
LEMMA FirstApp == IInv /\ FirstInv /\ App => FirstInv'
<1> SUFFICES ASSUME IInv, FirstInv, App PROVE FirstInv'
  OBVIOUS
<1> USE VersionAssumption, SlotAssumption
<1>1. job \in [Slot -> Job] /\ born \in Nat
  BY EntitiesAssumption DEF IInv, TypeOK
<1>2. CASE New
  <2>1. status'.tag = "Idle" /\ born' = born + 1 /\ job' = job /\ alive'
    BY <1>2 DEF New, Show
  <2>2. CASE born = 0
    BY <1>1, <2>1, <2>2, NoJobType DEF FirstInv, Alone, StagedIsInstalled
  <2>3. CASE born # 0
    BY <1>1, <2>1, <2>3 DEF FirstInv, Alone
  <2>4. QED
    BY <2>2, <2>3
<1>3. CASE Check
  <2>1. NewJob("check", "unspawned", None).owned /\ NewJob("check", "unspawned", None).kind = "check"
    BY DEF NewJob
  <2>2. status'.tag = "Checking" /\ alive' = alive /\ born' = born /\ disk' = disk /\ alive
    BY <1>3 DEF Check, Show, world
  <2>3. PICK s \in Slot : job' = [job EXCEPT ![s] = NewJob("check", "unspawned", None)]
    BY <1>3 DEF Check
  <2>4. QED
    BY <1>1, <2>1, <2>2, <2>3 DEF FirstInv, Alone, StagedIsInstalled
<1>4. CASE DownloadAndInstall
  <2>1. /\ NewJob("download", "unspawned", available).owned
        /\ NewJob("download", "unspawned", available).kind = "download"
    BY DEF NewJob
  <2>2. status'.tag = "Downloading" /\ alive' = alive /\ born' = born /\ disk' = disk /\ alive
    BY <1>4 DEF DownloadAndInstall, Show, world
  <2>3. PICK s \in Slot : job' = [job EXCEPT ![s] = NewJob("download", "unspawned", available)]
    BY <1>4 DEF DownloadAndInstall
  <2>4. QED
    BY <1>1, <2>1, <2>2, <2>3 DEF FirstInv, Alone, StagedIsInstalled
<1>5. CASE Cancel
  <2>1. cancel \in Slot
    BY <1>5 DEF Cancel, IInv, TypeOK
  <2>2. SameBut(job[cancel], WithCancel(job[cancel]), {"cancelled"})
    BY <1>1, <2>1, CancelUpdate
  <2>3. job' = [job EXCEPT ![cancel] = WithCancel(job[cancel])]
    BY <1>5 DEF Cancel
  <2>4. \A s \in Slot : /\ job'[s].kind = job[s].kind /\ job'[s].owned = job[s].owned
                        /\ job'[s].result = job[s].result /\ job'[s].release = job[s].release
    BY <1>1, <2>1, <2>2, <2>3 DEF SameBut
  <2>5. QED
    BY <1>5, <2>4 DEF FirstInv, Alone, StagedIsInstalled, Cancel, entity, world
<1>6. CASE Drop
  <2>1. born' = born /\ alive' = FALSE
    BY <1>6 DEF Drop
  <2>2. alive
    BY <1>6 DEF Drop
  <2>3. QED
    BY <2>1, <2>2 DEF FirstInv, Alone
<1>7. CASE EndProcess
  BY <1>7 DEF EndProcess, FirstInv, Alone
<1>8. QED
  BY <1>2, <1>3, <1>4, <1>5, <1>6, <1>7 DEF App, Restart, Quit

(* The foreground task reports what its own install did.                    *)
LEMMA FirstForeground == IInv /\ FirstInv /\ Foreground => FirstInv'
<1> SUFFICES ASSUME IInv, FirstInv, Foreground PROVE FirstInv'
  OBVIOUS
<1> USE VersionAssumption, SlotAssumption
<1>1. /\ job \in [Slot -> Job]
      /\ task.slot \in Slot
      /\ alive
      /\ UNCHANGED << alive, born, world >>
  BY DEF IInv, TypeOK, TaskInStep, Foreground, Spawn, FinishCheck, FailDownload,
         StartInstall, FinishInstall, Returned
<1>2. born > 0 /\ born' = born /\ born \in Nat
  BY <1>1, EntitiesAssumption DEF FirstInv, IInv, TypeOK
<1>3. CASE Spawn
  <2>1. SameBut(job[task.slot], WithPhase(job[task.slot], "queued"), {"phase"})
    BY <1>1, PhaseUpdate DEF Phase
  <2>2. \A s \in Slot : /\ job'[s].kind = job[s].kind /\ job'[s].owned = job[s].owned
                        /\ job'[s].result = job[s].result /\ job'[s].release = job[s].release
    BY <1>1, <1>3, <2>1 DEF Spawn, SameBut
  <2>3. QED
    BY <1>1, <1>2, <1>3, <2>2 DEF FirstInv, Alone, StagedIsInstalled, Spawn, world
<1>4. CASE FinishCheck \/ FailDownload
  <2>1. status'.tag # "Staged"
    BY <1>4 DEF FinishCheck, FailDownload, DownloadFailed, Show, Release
  <2>2. job' = [job EXCEPT ![task.slot] = NoJob]
    BY <1>4 DEF FinishCheck, FailDownload
  <2>3. QED
    BY <1>1, <1>2, <2>1, <2>2, NoJobType DEF FirstInv, Alone, StagedIsInstalled, world
<1>5. CASE StartInstall
  <2>1. NewJob("install", "queued", task.release).owned /\ NewJob("install", "queued", task.release).result = "none"
    BY DEF NewJob
  <2>2. status'.tag # "Staged" /\ job' = [job EXCEPT ![task.slot] = NewJob("install", "queued", task.release)]
    BY <1>5 DEF StartInstall, Show
  <2>3. QED
    BY <1>1, <1>2, <2>1, <2>2 DEF FirstInv, Alone, StagedIsInstalled, world
<1>6. CASE FinishInstall
  <2>1. job' = [job EXCEPT ![task.slot] = NoJob]
    BY <1>6 DEF FinishInstall
  <2>2. /\ job[task.slot].kind = "install"
        /\ job[task.slot].release = task.release
    BY <1>6 DEF FinishInstall, Returned, IInv, TaskInStep, KindOf
  <2>3. ASSUME born <= 1, status'.tag = "Staged" PROVE disk' = status'.version
    <3>1. job[task.slot].result = "ok" /\ status'.version = task.release
      BY <1>6, <2>3 DEF FinishInstall, InstalledStatus, Release, Show
    <3>2. disk = task.release
      BY <1>1, <2>2, <2>3, <3>1 DEF FirstInv, Alone
    <3>3. QED
      BY <1>1, <3>1, <3>2 DEF world
  <2>4. QED
    BY <1>1, <1>2, <2>1, <2>3, NoJobType DEF FirstInv, Alone, StagedIsInstalled, world
<1>7. QED
  BY <1>3, <1>4, <1>5, <1>6 DEF Foreground

(* An install that comes to return "ok" has put its release on disk.        *)
LEMMA InstallReturns ==
  ASSUME NEW s \in Slot, IInv, Background(s),
         job[s].kind = "install", job[s].owned,
         job[s].result # "ok", job'[s].result = "ok"
  PROVE  disk' = job[s].release
<1>1. job \in [Slot -> Job] /\ job[s] \in Job /\ job[s].release \in OptVersion
  BY VersionAssumption DEF IInv, TypeOK, ResultIsNewer, OptVersion
<1>2. CASE BeginJob(s)
  <2>1. WithPhase(job[s], "running").result = job[s].result
    BY <1>1, PhaseUpdate DEF SameBut, Phase
  <2>2. QED
    BY <1>1, <1>2, <2>1 DEF BeginJob
<1>3. CASE RunInstall(s)
  <2>1. WithResult(job[s], "error", job[s].release).result = "error"
    BY <1>1, ResultUpdate DEF Result
  <2>2. QED
    BY <1>1, <1>3, <2>1 DEF RunInstall, Return, Ended
<1>4. QED
  BY <1>2, <1>3
  DEF Background, RunCheck, StopDownload, PassLastCheckpoint, EndDownload, InPhase

(* While the entity lives, what its job installs is what the job returns.   *)
LEMMA FirstBackground ==
  ASSUME NEW s \in Slot, IInv, FirstInv, Background(s) PROVE FirstInv'
<1> USE VersionAssumption
<1>1. PICK k \in Job : job' = [job EXCEPT ![s] = k] /\ Advances(job[s], k)
  BY BackgroundAdvances
<1>2. UNCHANGED << entity, running >>
  BY BackgroundAdvances
<1>3. job \in [Slot -> Job] /\ job[s].kind # "free"
  BY <1>1 DEF IInv, TypeOK, Advances
<1>4. born # 0
  BY <1>3, NoJobType DEF FirstInv
<1>5. SUFFICES ASSUME alive, born <= 1 PROVE Alone'
  BY <1>2, <1>4 DEF FirstInv, Alone, entity
<1>6. /\ job[s].owned
      /\ k.kind = job[s].kind /\ k.owned
      /\ s = task.slot /\ status.tag \in {"Checking", "Downloading", "Installing"}
  <2>1. job[s].owned
    BY <1>3, <1>5 DEF FirstInv, Alone
  <2>2. task.at # "none" /\ task.at \in At /\ s = task.slot
    BY <2>1 DEF IInv, OwnedJob, TypeOK
  <2>3. QED
    BY <1>1, <2>1, <2>2 DEF Advances, IInv, TaskInStep, At
<1>7. \A r \in Slot : r # s => job'[r] = job[r] /\ job[r].kind = "free"
  BY <1>1, <1>3, <1>5, <1>6 DEF FirstInv, Alone, IInv, OwnedJob
<1>8. ASSUME k.kind = "install", k.result = "ok" PROVE disk' = k.release
  <2>1. k.release = job[s].release
    BY <1>1, <1>6, <1>8, NoJobType DEF Advances
  <2>2. CASE disk' # disk
    BY <2>1, <2>2, BackgroundAdvances
  <2>3. CASE disk' = disk
    <3>1. CASE job[s].result = "ok"
      BY <1>5, <1>6, <1>8, <2>1, <2>3, <3>1 DEF FirstInv, Alone
    <3>2. CASE job[s].result # "ok"
      <4>1. job'[s] = k
        BY <1>1, <1>3
      <4>2. QED
        BY <1>6, <1>8, <2>1, <3>2, <4>1, InstallReturns
    <3>3. QED
      BY <3>1, <3>2
  <2>4. QED
    BY <2>2, <2>3
<1>9. QED
  BY <1>1, <1>2, <1>3, <1>6, <1>7, <1>8 DEF Alone, StagedIsInstalled, entity

(* FirstEntityStages: the first entity of a process shows Staged for the    *)
(* version a restart runs, whatever the app calls and the jobs do.          *)
THEOREM FirstEntityTellsTheTruth == Spec => []FirstEntityStages
<1>1. Init => FirstInv
  BY NoJobs DEF Init, Show
<1>2. IInv /\ FirstInv /\ [Next]_vars => FirstInv'
  <2> SUFFICES ASSUME IInv, FirstInv, [Next]_vars PROVE FirstInv'
    OBVIOUS
  <2>1. CASE UNCHANGED vars
    BY <2>1 DEF vars, entity, world, FirstInv, Alone, StagedIsInstalled
  <2>2. QED
    BY <2>1, FirstApp, FirstForeground, FirstBackground DEF Next
<1>3. IInv /\ FirstInv => FirstEntityStages
  BY DEF IInv, Dead, FirstInv, Alone, FirstEntityStages, StagedIsInstalled, Show
<1>4. QED
  BY <1>1, <1>2, <1>3, Invariant, PTL DEF Spec

------------------------------------------------------------------------------
(* Views.                                                                   *)

(* A release is in flight only while it is downloaded or installed.         *)
Targeted == task.at \notin {"download", "progress", "await_install"} => task.release = None

(* Every step of the entity is a step of the lifecycle, or the views see    *)
(* nothing of it: the methods.                                              *)
LEMMA AppSimulates ==
  ASSUME IInv, Targeted, App
  PROVE  (Lifecycle!Next \/ UNCHANGED Lifecycle!vars) /\ Targeted'
<1> USE DEF Lifecycle!Next, Lifecycle!vars, Lifecycle!Show, Show, TaskAt, NoTask, Targeted
<1>1. CASE New \/ Drop \/ EndProcess
  <2>1. Lifecycle!Anew
    BY <1>1 DEF New, Drop, EndProcess, Lifecycle!Anew
  <2>2. QED BY <1>1, <2>1 DEF New, Drop, EndProcess
<1>2. CASE Check
  <2>1. task.at = "none"
    BY <1>2 DEF Check, Busy, IInv, TypeOK, At, TaskInStep
  <2>2. Lifecycle!StartCheck
    BY <1>2, <2>1 DEF Check, Busy, Lifecycle!StartCheck, Lifecycle!Busy
  <2>3. QED BY <1>2, <2>2 DEF Check
<1>3. CASE DownloadAndInstall
  <2>1. Lifecycle!StartDownload
    BY <1>3 DEF DownloadAndInstall, Busy, Lifecycle!StartDownload, Lifecycle!Busy
  <2>2. QED BY <1>3, <2>1 DEF DownloadAndInstall
<1>4. CASE Cancel
  BY <1>4 DEF Cancel, entity
<1>5. QED
  BY <1>1, <1>2, <1>3, <1>4 DEF App, Restart, Quit

(* The foreground task.                                                     *)
LEMMA ForegroundSimulates ==
  ASSUME IInv, Targeted, Foreground
  PROVE  (Lifecycle!Next \/ UNCHANGED Lifecycle!vars) /\ Targeted'
<1> USE DEF Lifecycle!Next, Lifecycle!vars, Lifecycle!Show, Lifecycle!Release,
            Show, Release, TaskAt, NoTask, Targeted
<1>1. CASE Spawn
  BY <1>1 DEF Spawn, IInv, TypeOK, At
<1>2. CASE FinishCheck
  <2>1. /\ status.tag = "Checking"
        /\ job[task.slot] \in Job
    BY <1>2 DEF FinishCheck, Returned, IInv, TypeOK, TaskInStep
  <2>2. Lifecycle!EndCheck
    BY <1>2, <2>1 DEF FinishCheck, Returned, Lifecycle!EndCheck, Job, OptVersion
  <2>3. QED BY <1>2, <2>2 DEF FinishCheck
<1>3. CASE FailDownload \/ StartInstall
  <2>1. status.tag = "Downloading"
    BY <1>3 DEF FailDownload, StartInstall, Returned, IInv, TaskInStep
  <2>2. Lifecycle!EndDownload
    BY <1>3, <2>1 DEF FailDownload, StartInstall, DownloadFailed, Lifecycle!EndDownload
  <2>3. QED BY <1>3, <2>2 DEF FailDownload, StartInstall
<1>4. CASE FinishInstall
  <2>1. status.tag = "Installing"
    BY <1>4 DEF FinishInstall, Returned, IInv, TaskInStep
  <2>2. Lifecycle!EndInstall
    BY <1>4, <2>1 DEF FinishInstall, InstalledStatus, Lifecycle!EndInstall
  <2>3. QED BY <1>4, <2>2 DEF FinishInstall
<1>5. QED
  BY <1>1, <1>2, <1>3, <1>4 DEF Foreground

(* The mapped variables start as the lifecycle does.                        *)
LEMMA LifecycleStart == Init => Lifecycle!Init /\ Targeted
  BY DEF Init, Lifecycle!Init, Lifecycle!Show, Show, NoTask, Targeted

(* Every step of the entity.                                                *)
LEMMA LifecycleStep ==
  ASSUME IInv, Targeted, [Next]_vars
  PROVE  (Lifecycle!Next \/ UNCHANGED Lifecycle!vars) /\ Targeted'
<1>1. CASE App
  BY <1>1, AppSimulates
<1>2. CASE Foreground
  BY <1>2, ForegroundSimulates
<1>3. CASE (\E s \in Slot : Background(s)) \/ UNCHANGED vars
  <2>1. UNCHANGED entity
    BY <1>3 DEF vars, Background, BeginJob, RunCheck, StopDownload, PassLastCheckpoint,
                EndDownload, RunInstall
  <2>2. QED BY <2>1 DEF entity, Lifecycle!vars, Targeted
<1>4. QED BY <1>1, <1>2, <1>3 DEF Next

(* The safety part of Implements: whatever the app calls and whatever the   *)
(* jobs return, the status, the offer and the release in flight move only   *)
(* as UpdateLifecycle lets them; that an operation ends is left to TLC.     *)
THEOREM EntityRefinesLifecycle == Spec => Lifecycle!Init /\ [][Lifecycle!Next]_(Lifecycle!vars)
<1>1. IInv /\ Targeted /\ [Next]_vars => [Lifecycle!Next]_(Lifecycle!vars) /\ Targeted'
  BY LifecycleStep
<1>2. QED
  BY <1>1, LifecycleStart, Invariant, PTL DEF Spec


------------------------------------------------------------------------------
(* Files.                                                                   *)


(* The configuration that MCUpdaterMsi refutes is left out.                 *)
KeptIsCopied == \A c \in Settings : c.kept => c.artifact # "msi"

(* What jobs j, their fetches f, the contents c and the script sc have to   *)
(* do with each other.                                                      *)
Holds(j, f, c, sc) ==
  /\ f \in [Slot -> [path : Path \cup {None}, step : Steps]]
  /\ c \in [Path -> File]
  /\ sc \in Path \cup {None}
  /\ sc # None => c[sc].checked /\ c[sc].release \in Version
  /\ \A s \in Slot : j[s].kind # "free" =>
       /\ f[s].path # None => f[s].path # sc
       /\ f[s].path # None =>
            \A t \in Slot : j[t].kind # "free" /\ f[t].path = f[s].path => s = t
       /\ f[s].step = "none" <=> f[s].path = None
       /\ j[s].kind = "check" => f[s].step = "none"
       /\ j[s].kind = "install" => f[s].step = "verified"
       /\ j[s].kind = "download" /\ j[s].result = "ok" => f[s].step = "verified"
       /\ f[s].step = "verified" =>
            c[f[s].path].checked /\ c[f[s].path].release = j[s].release

(* With a kept directory one job uses it at a time, and while the entity    *)
(* lives it is the entity's.                                                *)
Single ==
  setting.kept =>
    /\ \A s, t \in Slot : UsesFiles(s) /\ UsesFiles(t) => s = t
    /\ alive => \A s \in Slot : UsesFiles(s) => job[s].owned

FInv ==
  /\ setting \in Settings
  /\ setting.kept => setting.artifact # "msi"
  /\ script # None => setting.artifact = "msi"
  /\ Holds(job, fetch, file, script)
  /\ \A s \in Slot : job[s].kind = "free" => fetch[s] = NoFetch
  /\ Single

(* What holds of them whoever shares a path: what is at the path of a job   *)
(* that has opened it, if anything, is newer than what runs.                *)
Shaped(j, f, c, sc, now) ==
  /\ f \in [Slot -> [path : Path \cup {None}, step : Steps]]
  /\ c \in [Path -> File]
  /\ sc \in Path \cup {None}
  /\ \A s \in Slot : j[s].kind # "free" =>
       /\ f[s].step = "none" <=> f[s].path = None
       /\ j[s].kind = "check" => f[s].step = "none"
       /\ j[s].kind = "install" => f[s].step = "verified"
       /\ j[s].kind = "download" /\ j[s].result = "ok" => f[s].step = "verified"
       /\ f[s].step \in {"writing", "written", "verified"} /\ c[f[s].path].state # "absent" =>
            c[f[s].path].release \in Version /\ c[f[s].path].release > now

Shape ==
  /\ setting \in Settings
  /\ setting.kept => setting.artifact # "msi"
  /\ script # None => setting.artifact = "msi"
  /\ Shaped(job, fetch, file, script, running)
  /\ \A s \in Slot : job[s].kind = "free" => fetch[s] = NoFetch
  /\ alive => born # 0
  /\ born = 0 => \A s \in Slot : job[s].kind = "free"
  /\ ~setting.kept \/ born <= 1 => apart
  /\ proven # "unchecked"

(* No path is None, so a fetch without a path has no file.                  *)
LEMMA NoneIsNoPath == None \notin Path
  BY PathAssumption DEF Path

------------------------------------------------------------------------------
(* Forgetting what no job and no script refers to.                          *)

(* Forgetting the fetches of ended jobs and the private files nobody can    *)
(* reach keeps what is related.                                             *)
LEMMA SettleInv ==
  ASSUME NEW fetches, NEW contents,
         IInv', Settle(fetches, contents),
         Holds(job', fetches, contents, script')
  PROVE  /\ Holds(job', fetch', file', script')
         /\ \A s \in Slot : job'[s].kind = "free" => fetch'[s] = NoFetch
  <1>1. /\ fetch' = [s \in Slot |-> IF job'[s] = NoJob THEN NoFetch ELSE fetches[s]]
        /\ file' = [p \in Path |->
              IF p = Kept \/ InUse(p, fetch', script') THEN contents[p] ELSE NoFile]
    BY DEF Settle
  <1>2. \A s \in Slot : job'[s].kind = "free" <=> job'[s] = NoJob
    BY NoJobType DEF IInv, ResultIsNewer
  <1>3. \A s \in Slot : job'[s].kind # "free" => fetch'[s] = fetches[s]
    BY <1>1, <1>2
  <1>4. \A p \in Path : InUse(p, fetch', script') => file'[p] = contents[p]
    BY <1>1
  <1>5. \A s \in Slot : fetch'[s].path \in Path => InUse(fetch'[s].path, fetch', script')
    BY DEF InUse
  <1>6. script' \in Path => InUse(script', fetch', script')
    BY DEF InUse
  <1>7. fetch' \in [Slot -> [path : Path \cup {None}, step : Steps]]
    <2>1. NoFetch \in [path : Path \cup {None}, step : Steps]
      BY DEF NoFetch, Steps
    <2> QED
      BY <1>1, <2>1 DEF Holds
  <1>8. file' \in [Path -> File]
    <2>1. NoFile \in File
      BY DEF NoFile, File, OptVersion
    <2> QED
      BY <1>1, <2>1 DEF Holds
  <1>9. script' # None => file'[script'].checked /\ file'[script'].release \in Version
    BY <1>4, <1>6 DEF Holds
  <1>10. ASSUME NEW s \in Slot, job'[s].kind # "free", fetch'[s].step = "verified"
         PROVE  file'[fetch'[s].path].checked /\ file'[fetch'[s].path].release = job'[s].release
    <2>1. fetch'[s] = fetches[s] /\ fetch'[s].path \in Path
      BY <1>3, <1>7, <1>10 DEF Holds
    <2>2. file'[fetch'[s].path] = contents[fetches[s].path]
      BY <1>4, <1>5, <2>1
    <2> QED
      BY <1>10, <2>1, <2>2 DEF Holds
  <1>11. ASSUME NEW s \in Slot, job'[s].kind # "free"
         PROVE  /\ fetch'[s].path # None => fetch'[s].path # script'
                /\ fetch'[s].path # None =>
                     \A t \in Slot : job'[t].kind # "free" /\ fetch'[t].path = fetch'[s].path => s = t
                /\ fetch'[s].step = "none" <=> fetch'[s].path = None
                /\ job'[s].kind = "check" => fetch'[s].step = "none"
                /\ job'[s].kind = "install" => fetch'[s].step = "verified"
                /\ job'[s].kind = "download" /\ job'[s].result = "ok" => fetch'[s].step = "verified"
    BY <1>3, <1>11 DEF Holds
  <1>12. Holds(job', fetch', file', script')
    BY <1>7, <1>8, <1>9, <1>10, <1>11 DEF Holds
  <1> QED
    BY <1>1, <1>2, <1>12

(* What a step has to show for FInv.                                        *)
LEMMA FilesStep ==
  ASSUME NEW fetches, NEW contents,
         FInv, IInv', Settle(fetches, contents),
         Holds(job', fetches, contents, script'),
         Single', script' # None => setting.artifact = "msi"
  PROVE  FInv'
  <1>1. setting' = setting
    BY DEF Settle
  <1> QED
    BY <1>1, SettleInv DEF FInv

------------------------------------------------------------------------------
(* What becomes of a job in a step that starts none.                        *)
Carries(s) ==
  job'[s].kind # "free" =>
    /\ \/ job'[s].kind = job[s].kind
       \/ job'[s].kind = "install" /\ job[s].kind = "download" /\ job[s].result = "ok"
    /\ job'[s].kind # "check" => job'[s].release = job[s].release
    /\ job'[s].kind = "download" /\ job'[s].result = "ok" =>
         job[s].result = "ok" \/ fetch[s].step = "verified"
    /\ alive' => (job[s].owned => job'[s].owned)

(* A step that starts no job and no entity cannot make a second job.        *)
LEMMA SingleCarries ==
  ASSUME Single, setting' = setting, alive' => alive,
         \A s \in Slot : Carries(s)
  PROVE  Single'
  BY DEF Single, Carries, UsesFiles

(* A job that is moved on or ended is still in agreement with its file.     *)
LEMMA HoldsCarries ==
  ASSUME FInv, \A s \in Slot : Carries(s)
  PROVE  Holds(job', fetch, file, script)
  <1>1. ASSUME NEW s \in Slot, job'[s].kind # "free" PROVE job[s].kind # "free"
    BY <1>1 DEF Carries
  <1> QED
    BY <1>1 DEF FInv, Holds, Carries

(* A step that moves jobs on and touches no file keeps the invariant.       *)
LEMMA CarryInv ==
  ASSUME FInv, IInv', Quietly, alive' => alive, \A s \in Slot : Carries(s)
  PROVE  FInv'
  <1>1. setting' = setting /\ script' = script /\ Settle(fetch, file)
    BY DEF Quietly, NoneInstalled, Settle
  <1>2. Single' /\ Holds(job', fetch, file, script')
    BY <1>1, SingleCarries, HoldsCarries DEF FInv
  <1> QED
    BY <1>1, <1>2, FilesStep DEF FInv

------------------------------------------------------------------------------
(* The steps of Updater that touch no file.                                 *)

(* A job that is only moved on, and a slot that is only cleared.            *)
LEMMA MovesCarry ==
  ASSUME IInv, NEW s \in Slot, NEW k \in Job,
         job' = [job EXCEPT ![s] = k],
         k = NoJob \/ /\ k.kind = job[s].kind /\ k.release = job[s].release
                      /\ k.result = job[s].result /\ k.owned = job[s].owned
  PROVE  \A t \in Slot : Carries(t)
  BY NoJobType DEF IInv, TypeOK, Carries

(* A job that returns.                                                      *)
LEMMA ReturnCarry ==
  ASSUME IInv, NEW s \in Slot, NEW x \in Result, NEW v \in OptVersion,
         Return(s, x, v),
         job[s].kind # "check" => v = job[s].release,
         job[s].kind = "download" /\ x = "ok" => fetch[s].step = "verified"
  PROVE  \A t \in Slot : Carries(t)
  <1>1. job[s] \in Job /\ job \in [Slot -> Job]
    BY DEF IInv, TypeOK
  <1>2. CASE job[s].owned
    <2>1. /\ SameBut(job[s], WithResult(job[s], x, v), {"phase", "result", "release"})
          /\ WithResult(job[s], x, v).result = x
          /\ WithResult(job[s], x, v).release = v
      BY <1>1, ResultUpdate
    <2>2. job' = [job EXCEPT ![s] = WithResult(job[s], x, v)]
      BY <1>2 DEF Return, Ended
    <2> QED
      BY <1>1, <2>1, <2>2 DEF SameBut, Carries
  <1>3. CASE ~job[s].owned
    <2>1. job' = [job EXCEPT ![s] = NoJob]
      BY <1>3 DEF Return, Ended
    <2> QED
      BY <1>1, <2>1, NoJobType DEF Carries
  <1> QED
    BY <1>2, <1>3

(* Dropping the entity detaches its job or removes it.                      *)
LEMMA DropCarries ==
  ASSUME IInv, Drop
  PROVE  \A s \in Slot : Carries(s)
  <1> SUFFICES ASSUME NEW s \in Slot PROVE Carries(s)
    OBVIOUS
  <1>1. job[s] \in Job /\ job'[s] = Orphan(Released(s)) /\ ~alive'
    BY DEF IInv, TypeOK, Drop
  <1>2. PICK j \in Job : j = Released(s) /\ SameBut(job[s], j, {"cancelled"})
    BY <1>1, CancelUpdate DEF Released, SameBut
  <1>3. SameBut(j, Detached(j), {"owned"})
    BY OwnedUpdate
  <1>4. job'[s] \in {j, NoJob, Detached(j)}
    BY <1>1, <1>2 DEF Orphan
  <1> QED
    BY <1>1, <1>2, <1>3, <1>4, NoJobType DEF SameBut, Carries

(* cancel and drop touch no file.                                           *)
LEMMA AppCarries ==
  ASSUME FInv, IInv, IInv', Quietly, Cancel \/ Drop
  PROVE  FInv'
  <1>1. CASE Cancel
    <2>1. cancel \in Slot /\ job[cancel] \in Job
      BY <1>1 DEF Cancel, IInv, TypeOK
    <2>2. \A s \in Slot : Carries(s)
      BY <1>1, <2>1, CancelUpdate, MovesCarry DEF Cancel, SameBut
    <2> QED
      BY <1>1, <2>2, CarryInv DEF Cancel, entity
  <1>2. CASE Drop
    BY <1>2, DropCarries, CarryInv DEF Drop
  <1> QED
    BY <1>1, <1>2

(* The foreground task moves its job on; an install starts from a download  *)
(* that returned.                                                           *)
LEMMA ForegroundMoves ==
  ASSUME IInv, Spawn \/ FinishCheck \/ FailDownload \/ StartInstall
  PROVE  \A s \in Slot : Carries(s)
  <1>1. task.slot \in Slot /\ job[task.slot] \in Job
    BY DEF Spawn, FinishCheck, FailDownload, StartInstall, Returned, IInv, TypeOK, TaskInStep
  <1>2. CASE Spawn
    <2>1. SameBut(job[task.slot], WithPhase(job[task.slot], "queued"), {"phase"})
      BY <1>1, PhaseUpdate DEF Phase
    <2> QED
      BY <1>1, <1>2, <2>1, MovesCarry DEF Spawn, SameBut
  <1>3. CASE FinishCheck \/ FailDownload
    BY <1>1, <1>3, NoJobType, MovesCarry DEF FinishCheck, FailDownload
  <1>4. CASE StartInstall
    <2>1. /\ job' = [job EXCEPT ![task.slot] = NewJob("install", "queued", task.release)]
          /\ job[task.slot].kind = "download" /\ job[task.slot].result = "ok"
          /\ job[task.slot].release = task.release
      BY <1>4 DEF StartInstall, Returned, Succeeded, IInv, TaskInStep, KindOf
    <2> QED
      BY <2>1 DEF Carries, NewJob, IInv, TypeOK
  <1> QED
    BY <1>2, <1>3, <1>4

(* The foreground task touches no file before an install returns.           *)
LEMMA ForegroundCarries ==
  ASSUME FInv, IInv, IInv', Quietly, Spawn \/ FinishCheck \/ FailDownload \/ StartInstall
  PROVE  FInv'
  <1>1. alive' = alive
    BY DEF Spawn, FinishCheck, FailDownload, StartInstall
  <1> QED
    BY <1>1, ForegroundMoves, CarryInv

(* Picking a job up, and a check, move a job on.                            *)
LEMMA ExecutorMoves ==
  ASSUME IInv, NEW s \in Slot, BeginJob(s) \/ RunCheck(s)
  PROVE  \A t \in Slot : Carries(t)
  <1>1. job[s] \in Job
    BY DEF IInv, TypeOK
  <1>2. CASE BeginJob(s)
    <2>1. SameBut(job[s], WithPhase(job[s], "running"), {"phase"})
      BY <1>1, PhaseUpdate DEF Phase
    <2> QED
      BY <1>2, <2>1, MovesCarry DEF BeginJob, SameBut
  <1>3. CASE RunCheck(s)
    <2>1. PICK x \in Result, v \in OptVersion : Return(s, x, v)
      BY <1>3 DEF RunCheck, Newer, Result, OptVersion
    <2>2. job[s].kind = "check"
      BY <1>3 DEF RunCheck, InPhase
    <2> QED
      BY <2>1, <2>2, ReturnCarry
  <1> QED
    BY <1>2, <1>3

(* Neither touches a file.                                                  *)
LEMMA ExecutorCarries ==
  ASSUME FInv, IInv, IInv', Quietly, NEW s \in Slot, BeginJob(s) \/ RunCheck(s)
  PROVE  FInv'
  BY ExecutorMoves, CarryInv DEF BeginJob, RunCheck, entity

(* A new job has a slot of its own, which no file belongs to yet.           *)
LEMMA StartInv ==
  ASSUME FInv, IInv, IInv', Quietly, Check \/ DownloadAndInstall
  PROVE  FInv'
  <1>1. PICK s \in Slot, k \in {"check", "download"}, v \in OptVersion :
          Free(s) /\ job' = [job EXCEPT ![s] = NewJob(k, "unspawned", v)]
    BY DEF Check, DownloadAndInstall, IInv, TypeOK, OptVersion
  <1>2. /\ job[s].kind = "free" /\ fetch[s] = NoFetch
        /\ job'[s].kind \in {"check", "download"} /\ job'[s].result = "none" /\ job'[s].owned
        /\ \A t \in Slot : t # s => job'[t] = job[t]
    BY <1>1, NoJobType DEF Free, NewJob, FInv, IInv, TypeOK
  <1>3. setting' = setting /\ script' = script /\ Settle(fetch, file)
    BY DEF Quietly, NoneInstalled, Settle
  <1>4. alive' = alive /\ alive /\ ~Busy
    BY DEF Check, DownloadAndInstall
  <1>5. Holds(job', fetch, file, script')
    BY <1>2, <1>3 DEF FInv, Holds, NoFetch
  <1>6. Single'
    <2> SUFFICES ASSUME setting.kept
                 PROVE  \A t \in Slot : t # s => ~UsesFiles(t)'
      BY <1>2, <1>3, <1>4 DEF Single, UsesFiles
    <2>1. \A t \in Slot : ~job[t].owned
      BY <1>4 DEF IInv, TypeOK, OwnedJob, TaskInStep, Busy, At
    <2> QED
      BY <1>2, <1>4, <2>1 DEF FInv, Single, UsesFiles
  <1> QED
    BY <1>3, <1>5, <1>6, FilesStep DEF FInv

(* A new entity has no job; with a kept directory that no job uses, it has  *)
(* the files for itself, whatever entities before it shared.                *)
LEMMA NewEntityInv ==
  ASSUME Shape, apart => FInv, IInv, IInv', NewEntity, apart'
  PROVE  FInv'
  <1>1. /\ setting' = setting /\ script' = script /\ Settle(fetch, file) /\ job' = job
        /\ setting.kept => \A s \in Slot : ~UsesFiles(s)
    BY DEF NewEntity, New, Settle
  <1>2. CASE setting.kept
    <2>1. script = None /\ \A s \in Slot : job[s].kind # "free" => job[s].kind = "check"
      BY <1>1, <1>2 DEF Shape, UsesFiles, IInv, TypeOK, Job, Kind
    <2>2. Holds(job', fetch, file, script')
      BY <1>1, <2>1 DEF Shape, Shaped, Holds
    <2>3. /\ \A s \in Slot : job[s].kind = "free" => fetch[s] = NoFetch
          /\ setting \in Settings /\ setting.artifact # "msi"
      BY <1>2 DEF Shape
    <2> QED
      BY <1>1, <1>2, <2>1, <2>2, <2>3, SettleInv DEF FInv, Single, UsesFiles
  <1>3. CASE ~setting.kept
    <2>1. FInv /\ Single'
      BY <1>1, <1>3 DEF Shape, Single
    <2>2. Holds(job', fetch, file, script')
      BY <1>1, <2>1 DEF FInv
    <2> QED
      BY <1>1, <2>1, <2>2, FilesStep DEF FInv
  <1> QED
    BY <1>2, <1>3

------------------------------------------------------------------------------
(* The download and its file.                                               *)

(* A step of a job that is neither started nor ended by it, and of its      *)
(* fetch and file.                                                          *)
LEMMA FetchStep ==
  ASSUME FInv, IInv', alive' = alive, \A t \in Slot : Carries(t),
         UNCHANGED script,
         NEW fetches, NEW contents, Settle(fetches, contents),
         Holds(job', fetches, contents, script)
  PROVE  FInv'
  <1>1. setting' = setting /\ Single'
    BY SingleCarries DEF FInv, Settle
  <1> QED
    BY <1>1, FilesStep DEF FInv

(* Only one job writes to a path.                                           *)
LEMMA OwnPath ==
  ASSUME FInv, NEW s \in Slot, job[s].kind # "free", fetch[s].path # None
  PROVE  /\ fetch[s].path \in Path
         /\ fetch[s].path # script
         /\ \A t \in Slot : job[t].kind # "free" /\ t # s => fetch[t].path # fetch[s].path
  BY DEF FInv, Holds

(* A download goes where nothing else is.                                   *)
LEMMA FreshDestination ==
  ASSUME FInv, IInv, NEW s \in Slot, job[s].kind = "download", fetch[s].step = "none"
  PROVE  /\ Destination \in Path
         /\ Destination # script
         /\ \A t \in Slot : job[t].kind # "free" /\ t # s => fetch[t].path # Destination
  <1>1. setting.kept \in BOOLEAN
    BY SettingsAssumption DEF FInv
  <1>2. CASE setting.kept
    <2>1. /\ script = None
          /\ \A t \in Slot : job[t].kind # "free" /\ t # s => fetch[t].path = None
      BY <1>2 DEF FInv, Single, UsesFiles, Holds, IInv, TypeOK, Job, Kind
    <2> QED
      BY <1>2, <2>1, NoneIsNoPath DEF Destination, Path
  <1>3. CASE ~setting.kept
    <2> DEFINE used == [t \in Slot \ {s} |-> fetch[t].path]
    <2>1. used \in [Slot \ {s} -> Private \cup {Kept, None}] /\ script \in Private \cup {Kept, None}
      BY DEF FInv, Holds, Path
    <2>2. \E p \in Private : p # script /\ \A t \in Slot \ {s} : used[t] # p
      <3> HIDE DEF used
      <3> QED BY <2>1, FreshAssumption
    <2>3. fetch[s].path \notin Private
      BY PathAssumption DEF FInv, Holds
    <2>4. \E p \in Private : ~InUse(p, fetch, script)
      BY <2>2, <2>3 DEF InUse
    <2>5. Destination \in Private /\ ~InUse(Destination, fetch, script)
      BY <1>3, <2>4 DEF Destination
    <2> QED
      BY <2>5 DEF InUse, Path
  <1> QED
    BY <1>2, <1>3

(* A step that leaves the jobs alone ends none.                             *)
LEMMA SameJobsCarry == UNCHANGED job => \A t \in Slot : Carries(t)
  BY DEF Carries

(* A download that asks for the artifact has a path for itself.             *)
LEMMA AskInv ==
  ASSUME FInv, IInv, IInv', NEW s \in Slot, Ask(s)
  PROVE  FInv'
  <1> DEFINE p == Destination
             fetches == [fetch EXCEPT ![s] = FetchAt(p, "asked")]
  <1>1. /\ UNCHANGED vars /\ script' = script /\ Settle(fetches, file)
        /\ job[s].kind = "download" /\ job[s].phase = "running" /\ fetch[s].step = "none"
    BY DEF Ask, Downloading, InPhase, NoneInstalled
  <1>2. p \in Path /\ p # script /\ p # None
        /\ \A t \in Slot : job[t].kind # "free" /\ t # s => fetch[t].path # p
    BY <1>1, FreshDestination, NoneIsNoPath
  <1>3. FetchAt(p, "asked") \in [path : Path \cup {None}, step : Steps]
        /\ FetchAt(p, "asked").path = p /\ FetchAt(p, "asked").step = "asked"
    BY <1>2 DEF FetchAt, Steps
  <1>4. job[s].result # "ok"
    BY <1>1 DEF FInv, Holds
  <1>5. Holds(job, fetches, file, script)
    <2> HIDE DEF p
    <2> QED
      BY <1>1, <1>2, <1>3, <1>4 DEF FInv, Holds
  <1> HIDE DEF p, fetches
  <1>6. job' = job /\ alive' = alive /\ script' = script
    BY <1>1 DEF vars, entity
  <1> QED
    BY <1>1, <1>5, <1>6, SameJobsCarry, FetchStep

(* A download that creates its file empties nobody else's.                  *)
LEMMA OpenInv ==
  ASSUME FInv, IInv, IInv', NEW s \in Slot, Open(s)
  PROVE  FInv'
  <1> DEFINE p == fetch[s].path
             fetches == [fetch EXCEPT ![s].step = "writing"]
             contents == [file EXCEPT ![p] = Written("part", job[s].release)]
  <1>1. /\ UNCHANGED vars /\ script' = script /\ Settle(fetches, contents)
        /\ job[s].kind = "download" /\ fetch[s].step = "asked" /\ p # None
    BY DEF Open, Downloading, InPhase, NoneInstalled, FInv, Holds
  <1>2. /\ p \in Path /\ p # script
        /\ \A t \in Slot : job[t].kind # "free" /\ t # s => fetch[t].path # p
    BY <1>1, OwnPath
  <1>3. Written("part", job[s].release) \in File
    BY DEF Written, File, IInv, TypeOK, Job
  <1>4. Holds(job, fetches, contents, script)
    BY <1>1, <1>2, <1>3 DEF FInv, Holds, Steps
  <1> HIDE DEF fetches, contents
  <1>5. job' = job /\ alive' = alive /\ script' = script
    BY <1>1 DEF vars, entity
  <1> QED
    BY <1>1, <1>4, <1>5, SameJobsCarry, FetchStep

(* A download writes to its own file only, and no check has passed on it    *)
(* yet.                                                                     *)
LEMMA WriteInv ==
  ASSUME FInv, IInv, IInv', NEW s \in Slot, Write(s)
  PROVE  FInv'
  <1> DEFINE p == fetch[s].path
             fetches == [fetch EXCEPT ![s].step = "written"]
  <1>1. /\ UNCHANGED vars /\ script' = script
        /\ job[s].kind = "download" /\ fetch[s].step = "writing" /\ p # None
    BY DEF Write, Downloading, InPhase, NoneInstalled, FInv, Holds
  <1>2. /\ p \in Path /\ p # script
        /\ \A t \in Slot : job[t].kind # "free" /\ t # s => fetch[t].path # p
    BY <1>1, OwnPath
  <1>3. PICK contents :
          /\ Settle(fetches, contents)
          /\ contents = file \/ \E c \in File : contents = [file EXCEPT ![p] = c]
    <2>1. \A state \in {"other", "genuine"} : Written(state, job[s].release) \in File
      BY DEF Written, File, IInv, TypeOK, Job
    <2> QED
      BY <2>1 DEF Write
  <1>4. Holds(job, fetches, contents, script)
    BY <1>1, <1>2, <1>3 DEF FInv, Holds, Steps
  <1> HIDE DEF fetches
  <1>5. job' = job /\ alive' = alive /\ script' = script
    BY <1>1 DEF vars, entity
  <1> QED
    BY <1>3, <1>4, <1>5, SameJobsCarry, FetchStep

(* Marking a file as checked is all that Marked does.                       *)
LEMMA MarkedFile ==
  ASSUME NEW p \in Path, NEW v, file \in [Path -> File]
  PROVE  /\ Marked(p, v) \in [Path -> File]
         /\ \A q \in Path : /\ file[q].checked => Marked(p, v)[q].checked
                            /\ Marked(p, v)[q].release = file[q].release
         /\ Accepts(p, v) => Marked(p, v)[p].checked /\ Marked(p, v)[p].release = v
  <1>1. CASE ~Accepts(p, v)
    BY <1>1 DEF Marked
  <1>2. CASE Accepts(p, v)
    <2>1. /\ Marked(p, v) = [file EXCEPT ![p] = [@ EXCEPT !.checked = TRUE]]
          /\ file[p].release = v
      BY <1>2 DEF Marked, Accepts
    <2>2. /\ [file[p] EXCEPT !.checked = TRUE] \in File
          /\ [file[p] EXCEPT !.checked = TRUE].checked
          /\ [file[p] EXCEPT !.checked = TRUE].release = file[p].release
      BY Zenon DEF File
    <2> QED
      BY <2>1, <2>2
  <1> QED
    BY <1>1, <1>2

(* What marking a file leaves: which files there are, and of what release.  *)
MarkedKeeps(p, v) ==
  /\ Marked(p, v) \in [Path -> File]
  /\ \A q \in Path : /\ Marked(p, v)[q].state = file[q].state
                     /\ Marked(p, v)[q].release = file[q].release

(* Marking is no more than that, whether the file is accepted or not.       *)
LEMMA MarkedShape ==
  ASSUME NEW p \in Path, NEW v, file \in [Path -> File]
  PROVE  MarkedKeeps(p, v)
  <1>1. CASE ~Accepts(p, v)
    BY <1>1 DEF Marked, MarkedKeeps
  <1>2. CASE Accepts(p, v)
    <2>1. Marked(p, v) = [file EXCEPT ![p] = [@ EXCEPT !.checked = TRUE]]
      BY <1>2 DEF Marked
    <2>2. /\ [file[p] EXCEPT !.checked = TRUE].state = file[p].state
          /\ [file[p] EXCEPT !.checked = TRUE].release = file[p].release
      BY Zenon DEF File
    <2>3. Marked(p, v) \in [Path -> File]
      BY MarkedFile
    <2> QED
      BY <2>1, <2>2, <2>3 DEF MarkedKeeps
  <1> QED
    BY <1>1, <1>2

(* A download that verifies its file marks that file only.                  *)
LEMMA VerifyInv ==
  ASSUME FInv, IInv, IInv', NEW s \in Slot, Verify(s)
  PROVE  FInv'
  <1> DEFINE p == fetch[s].path
             fetches == [fetch EXCEPT ![s].step = "verified"]
             contents == Marked(p, job[s].release)
  <1>1. /\ UNCHANGED vars /\ script' = script /\ Settle(fetches, contents)
        /\ job[s].kind = "download" /\ fetch[s].step = "written" /\ p # None
        /\ Accepts(p, job[s].release)
    BY DEF Verify, NoneInstalled, InPhase, FInv, Holds
  <1>2. /\ p \in Path /\ p # script
        /\ \A t \in Slot : job[t].kind # "free" /\ t # s => fetch[t].path # p
    BY <1>1, OwnPath
  <1>3. /\ contents \in [Path -> File]
        /\ \A q \in Path : /\ file[q].checked => contents[q].checked
                           /\ contents[q].release = file[q].release
        /\ contents[p].checked /\ contents[p].release = job[s].release
    BY <1>1, <1>2, MarkedFile DEF FInv, Holds
  <1>4. Holds(job, fetches, contents, script)
    <2> HIDE DEF contents
    <2> QED
      BY <1>1, <1>2, <1>3, NoneIsNoPath DEF FInv, Holds, Steps
  <1> HIDE DEF fetches, contents
  <1>5. job' = job /\ alive' = alive /\ script' = script
    BY <1>1 DEF vars, entity
  <1> QED
    BY <1>1, <1>4, <1>5, SameJobsCarry, FetchStep

(* A kept file that is taken as it is has been verified first.              *)
LEMMA ReuseInv ==
  ASSUME FInv, IInv, IInv', NEW s \in Slot, Reuse(s)
  PROVE  FInv'
  <1> DEFINE fetches == [fetch EXCEPT ![s] = FetchAt(Kept, "verified")]
             contents == Marked(Kept, job[s].release)
  <1>1. /\ PassLastCheckpoint(s) /\ script' = script /\ Settle(fetches, contents)
        /\ job[s].kind = "download" /\ setting.kept /\ Accepts(Kept, job[s].release)
    BY DEF Reuse, NoneInstalled, Downloading, InPhase, Reusable
  <1>2. /\ \A t \in Slot : UsesFiles(t) => s = t
        /\ script = None
    BY <1>1 DEF FInv, Single, UsesFiles
  <1>3. /\ contents \in [Path -> File]
        /\ contents[Kept].checked /\ contents[Kept].release = job[s].release
    <2>1. Kept \in Path /\ file \in [Path -> File]
      BY DEF FInv, Holds, Path
    <2> QED
      BY <1>1, <2>1, MarkedFile
  <1>4. SameBut(job[s], WithPhase(job[s], "settling"), {"phase"})
    BY PhaseUpdate DEF IInv, TypeOK, Phase
  <1>5. /\ job' = [job EXCEPT ![s] = WithPhase(job[s], "settling")]
        /\ alive' = alive
    BY <1>1 DEF PassLastCheckpoint, entity
  <1>6. \A t \in Slot : Carries(t)
    BY <1>4, <1>5, MovesCarry DEF SameBut
  <1>7. \A t \in Slot : t # s /\ job'[t].kind # "free" =>
          job'[t].kind = "check" /\ fetches[t].step = "none" /\ fetches[t].path = None
    BY <1>2, <1>5 DEF UsesFiles, FInv, Holds, IInv, TypeOK, Job, Kind
  <1>8. job'[s].kind = "download" /\ job'[s].release = job[s].release
    BY <1>1, <1>4, <1>5 DEF SameBut, IInv, TypeOK
  <1>9. /\ FetchAt(Kept, "verified") \in [path : Path \cup {None}, step : Steps]
        /\ FetchAt(Kept, "verified").path = Kept /\ FetchAt(Kept, "verified").step = "verified"
    BY DEF FetchAt, Steps, Path
  <1>10. Kept # None
    BY PathAssumption
  <1>11. Holds(job', fetches, contents, script)
    <2> HIDE DEF contents
    <2>1. fetches \in [Slot -> [path : Path \cup {None}, step : Steps]] /\ fetches[s] = FetchAt(Kept, "verified")
      BY <1>9 DEF FInv, Holds
    <2> HIDE DEF fetches
    <2> QED
      BY <1>2, <1>3, <1>7, <1>8, <1>9, <1>10, <2>1 DEF Holds
  <1> HIDE DEF fetches, contents
  <1> QED
    BY <1>1, <1>5, <1>6, <1>11, FetchStep

(* A cancelled download removes its own file only.                          *)
LEMMA StopInv ==
  ASSUME FInv, IInv, IInv', NEW s \in Slot, Stop(s)
  PROVE  FInv'
  <1> DEFINE p == fetch[s].path
             removes == fetch[s].step \in {"asked", "writing"}
             contents == IF removes THEN [file EXCEPT ![p] = NoFile] ELSE file
  <1>1. /\ Return(s, "cancelled", job[s].release) /\ script' = script
        /\ Settle(fetch, contents) /\ job[s].kind = "download"
        /\ alive' = alive
    BY DEF Stop, StopDownload, NoneInstalled, InPhase, entity
  <1>2. \A t \in Slot : Carries(t)
    BY <1>1, ReturnCarry DEF IInv, TypeOK, Job, Result
  <1>3. Holds(job', fetch, file, script)
    BY <1>1, <1>2, HoldsCarries
  <1>4. NoFile \in File
    BY DEF NoFile, File, OptVersion
  <1>5. \A t \in Slot : job'[t].kind # "free" => job[t].kind # "free"
    BY <1>2 DEF Carries
  <1>6. Holds(job', fetch, contents, script)
    <2>1. CASE removes
      <3>1. p # None
        BY <1>1, <2>1 DEF FInv, Holds
      <3>2. /\ p \in Path /\ p # script
            /\ \A t \in Slot : job[t].kind # "free" /\ t # s => fetch[t].path # p
        BY <1>1, <3>1, OwnPath
      <3>3. /\ contents \in [Path -> File]
            /\ \A q \in Path : q # p => contents[q] = file[q]
        BY <1>4, <2>1, <3>2 DEF FInv, Holds
      <3> HIDE DEF contents
      <3> QED
        BY <1>3, <1>5, <2>1, <3>2, <3>3 DEF Holds
    <2>2. CASE ~removes
      BY <1>3, <2>2
    <2> QED
      BY <2>1, <2>2
  <1> HIDE DEF contents
  <1> QED
    BY <1>1, <1>2, <1>6, FetchStep

(* Passing the last checkpoint changes no file.                             *)
LEMMA LeaveCheckpointsInv ==
  ASSUME FInv, IInv, IInv', NEW s \in Slot, LeaveCheckpoints(s)
  PROVE  FInv'
  <1>1. SameBut(job[s], WithPhase(job[s], "settling"), {"phase"})
    BY PhaseUpdate DEF IInv, TypeOK, Phase
  <1>2. /\ job' = [job EXCEPT ![s] = WithPhase(job[s], "settling")]
        /\ alive' = alive /\ Quietly
    BY DEF LeaveCheckpoints, PassLastCheckpoint, entity
  <1>3. \A t \in Slot : Carries(t)
    BY <1>1, <1>2, MovesCarry DEF SameBut
  <1> QED
    BY <1>2, <1>3, CarryInv

(* A download returns an artifact only if it was verified.                  *)
LEMMA EndCarries ==
  ASSUME IInv, NEW s \in Slot, End(s)
  PROVE  \A t \in Slot : Carries(t)
  <1>1. job[s].kind = "download" /\ job[s].release \in OptVersion
    BY DEF End, EndDownload, IInv, TypeOK, Job
  <1>2. CASE fetch[s].step = "verified"
    <2>1. Return(s, "ok", job[s].release)
      BY <1>2 DEF End
    <2> QED
      BY <1>1, <1>2, <2>1, ReturnCarry DEF Result
  <1>3. CASE fetch[s].step # "verified"
    <2>1. Return(s, "error", job[s].release)
      BY <1>3 DEF End
    <2> QED
      BY <1>1, <1>3, <2>1, ReturnCarry DEF Result
  <1> QED
    BY <1>2, <1>3

(* The end of a download touches no file.                                   *)
LEMMA EndInv ==
  ASSUME FInv, IInv, IInv', NEW s \in Slot, End(s)
  PROVE  FInv'
  BY EndCarries, CarryInv DEF End, EndDownload, entity

------------------------------------------------------------------------------
(* The install, and the restart.                                            *)

(* An install leaves the files as they are, and what it stages where it is. *)
LEMMA InstallInv ==
  ASSUME FInv, IInv, IInv', NEW s \in Slot, CopyArtifact(s) \/ StageMsi(s)
  PROVE  FInv'
  <1>1. /\ job[s].kind = "install" /\ job[s].release \in OptVersion
        /\ alive' = alive /\ script' = script /\ Settle(fetch, file)
    BY DEF CopyArtifact, StageMsi, InPhase, entity, Quietly, NoneInstalled, IInv, TypeOK, Job
  <1>2. PICK x \in Result : Return(s, x, job[s].release)
    BY DEF CopyArtifact, StageMsi, Result
  <1>3. \A t \in Slot : Carries(t)
    BY <1>1, <1>2, ReturnCarry
  <1>4. Holds(job', fetch, file, script')
    BY <1>1, <1>3, HoldsCarries
  <1> QED
    BY <1>1, <1>3, <1>4, FetchStep

(* The script that is set as the restart path is beside a file that was     *)
(* verified.                                                                *)
LEMMA SetRestartPathInv ==
  ASSUME FInv, IInv, IInv', SetRestartPath
  PROVE  FInv'
  <1> DEFINE s == task.slot
  <1>1. /\ s \in Slot /\ job[s] \in Job /\ job[s].kind = "install" /\ job[s].release \in Version
    BY DEF SetRestartPath, FinishInstall, Returned, IInv, TypeOK, TaskInStep, KindOf, ResultIsNewer
  <1>2. /\ job' = [job EXCEPT ![s] = NoJob] /\ alive' = alive
        /\ script' = RestartPath(s)
        /\ setting' = setting /\ Settle(fetch, file)
    BY DEF SetRestartPath, FinishInstall, Settle
  <1>3. \A t \in Slot : Carries(t)
    BY <1>1, <1>2, NoJobType, MovesCarry
  <1>4. Single'
    BY <1>2, <1>3, SingleCarries DEF FInv
  <1>5. Holds(job', fetch, file, script)
    BY <1>3, HoldsCarries
  <1>6. CASE script' = script
    <2>1. Holds(job', fetch, file, script')
      BY <1>5, <1>6
    <2>2. script' # None => setting.artifact = "msi"
      BY <1>6 DEF FInv
    <2> QED
      BY <1>2, <1>4, <2>1, <2>2, FilesStep
  <1>7. CASE setting.artifact = "msi" /\ script' = fetch[s].path
    <2>1. /\ script' \in Path /\ file[script'].checked /\ file[script'].release \in Version
          /\ \A t \in Slot : job[t].kind # "free" /\ t # s => fetch[t].path # script'
      BY <1>1, <1>7 DEF FInv, Holds
    <2>2. \A t \in Slot : job'[t].kind # "free" => job[t].kind # "free" /\ t # s
      BY <1>1, <1>2, <1>3, NoJobType DEF Carries, IInv, TypeOK
    <2>3. Holds(job', fetch, file, script')
      BY <1>5, <2>1, <2>2 DEF Holds
    <2> QED
      BY <1>2, <1>4, <1>7, <2>3, FilesStep DEF FInv
  <1> QED
    BY <1>2, <1>6, <1>7 DEF RestartPath

(* Nothing is left of the process but what is on disk.                      *)
LEMMA ProcessEnds ==
  ASSUME Shape, IInv',
         ~alive', job' = [t \in Slot |-> NoJob], script' = None,
         Settle([t \in Slot |-> NoFetch], file)
  PROVE  FInv'
  <1>1. \A t \in Slot : job'[t].kind = "free"
    BY NoJobType
  <1>2. NoFetch \in [path : Path \cup {None}, step : Steps]
    BY DEF NoFetch, Steps
  <1>3. Holds(job', [t \in Slot |-> NoFetch], file, script')
    BY <1>1, <1>2 DEF Shape, Shaped, Holds
  <1>4. Single' /\ setting' = setting /\ setting \in Settings
        /\ (setting.kept => setting.artifact # "msi")
    BY <1>1 DEF Single, UsesFiles, Settle, Shape
  <1> QED
    BY <1>3, <1>4, SettleInv DEF FInv

(* The script installs the file it was written beside, and the process is   *)
(* gone.                                                                    *)
LEMMA ApplyMsiInv ==
  ASSUME FInv, IInv, ApplyMsi
  PROVE  Nothing' /\ proven' = "checked"
  <1>1. file[script].checked /\ file[script].release \in Version
    BY DEF ApplyMsi, FInv, Holds, File
  <1>2. proven' = "checked"
    BY <1>1 DEF ApplyMsi, Provenance, Sound
  <1> QED
    BY <1>1, <1>2, EntitiesAssumption DEF ApplyMsi, Nothing, NoTask, NoJob, Show

------------------------------------------------------------------------------
(* Whoever shares the files.                                                *)

(* Forgetting what nobody refers to keeps the shape of what is left.        *)
LEMMA ShapeStep ==
  ASSUME NEW fetches, NEW contents, Shape, IInv', Settle(fetches, contents),
         Shaped(job', fetches, contents, script', running'),
         script' # None => setting.artifact = "msi",
         alive' => born' # 0,
         born' = 0 => \A s \in Slot : job'[s].kind = "free",
         ~setting.kept \/ born' <= 1 => apart',
         proven' # "unchecked"
  PROVE  Shape'
  <1>1. /\ fetch' = [s \in Slot |-> IF job'[s] = NoJob THEN NoFetch ELSE fetches[s]]
        /\ file' = [p \in Path |->
              IF p = Kept \/ InUse(p, fetch', script') THEN contents[p] ELSE NoFile]
        /\ setting' = setting
    BY DEF Settle
  <1>2. \A s \in Slot : job'[s].kind = "free" <=> job'[s] = NoJob
    BY NoJobType DEF IInv, ResultIsNewer
  <1>3. \A s \in Slot : fetch'[s] = IF job'[s].kind = "free" THEN NoFetch ELSE fetches[s]
    BY <1>1, <1>2
  <1>4. NoFetch \in [path : Path \cup {None}, step : Steps] /\ NoFile \in File
    BY DEF NoFetch, Steps, NoFile, File, OptVersion
  <1>5. fetch' \in [Slot -> [path : Path \cup {None}, step : Steps]] /\ file' \in [Path -> File]
    BY <1>1, <1>4 DEF Shaped
  <1>6. \A s \in Slot : fetch'[s].path \in Path => file'[fetch'[s].path] = contents[fetch'[s].path]
    BY <1>1 DEF InUse
  <1>7. ASSUME NEW s \in Slot, job'[s].kind # "free"
        PROVE  /\ fetch'[s].step = "none" <=> fetch'[s].path = None
               /\ job'[s].kind = "check" => fetch'[s].step = "none"
               /\ job'[s].kind = "install" => fetch'[s].step = "verified"
               /\ job'[s].kind = "download" /\ job'[s].result = "ok" => fetch'[s].step = "verified"
    BY <1>3, <1>7 DEF Shaped
  <1>8. ASSUME NEW s \in Slot, job'[s].kind # "free",
               fetch'[s].step \in {"writing", "written", "verified"},
               file'[fetch'[s].path].state # "absent"
        PROVE  file'[fetch'[s].path].release \in Version /\ file'[fetch'[s].path].release > running'
    <2>1. fetch'[s] = fetches[s] /\ fetch'[s].path \in Path
      BY <1>3, <1>5, <1>7, <1>8
    <2>2. file'[fetch'[s].path] = contents[fetches[s].path]
      BY <1>6, <2>1
    <2> QED
      BY <1>8, <2>1, <2>2 DEF Shaped
  <1>9. Shaped(job', fetch', file', script', running')
    <2>1. script' \in Path \cup {None}
      BY DEF Shaped
    <2> QED
      BY <1>5, <1>7, <1>8, <2>1 DEF Shaped
  <1>10. \A s \in Slot : job'[s].kind = "free" => fetch'[s] = NoFetch
    BY <1>3
  <1> QED
    BY <1>1, <1>9, <1>10 DEF Shape

(* A step of a living process that starts no job and no entity.             *)
LEMMA MovedShape ==
  ASSUME NEW fetches, NEW contents, Shape, IInv', Settle(fetches, contents),
         Shaped(job', fetches, contents, script, running),
         \A s \in Slot : Carries(s),
         born' = born, alive' => alive, running' = running, NoneInstalled
  PROVE  Shape'
  <1>1. script' = script /\ proven' = proven /\ apart' = apart
    BY DEF NoneInstalled
  <1>2. born' = 0 => \A s \in Slot : job'[s].kind = "free"
    BY DEF Shape, Carries
  <1>3. Shaped(job', fetches, contents, script', running')
    BY <1>1
  <1>4. /\ script' # None => setting.artifact = "msi"
        /\ alive' => born' # 0
        /\ ~setting.kept \/ born' <= 1 => apart'
        /\ proven' # "unchecked"
    BY <1>1 DEF Shape
  <1> QED
    BY <1>2, <1>3, <1>4, ShapeStep

(* A job that is moved on or ended leaves the files in shape.               *)
LEMMA ShapedCarries ==
  ASSUME Shape, \A s \in Slot : Carries(s)
  PROVE  Shaped(job', fetch, file, script, running)
  <1>1. ASSUME NEW s \in Slot, job'[s].kind # "free" PROVE job[s].kind # "free"
    BY <1>1 DEF Carries
  <1> QED
    BY <1>1 DEF Shape, Shaped, Carries

(* The same of a step that touches no file.                                 *)
LEMMA QuietShape ==
  ASSUME Shape, IInv', Quietly, born' = born, alive' => alive, running' = running,
         \A s \in Slot : Carries(s)
  PROVE  Shape'
  BY ShapedCarries, MovedShape DEF Quietly

(* The calls of the app, and the foreground task.                           *)
LEMMA EntityShape ==
  ASSUME Shape, IInv, IInv', Quietly,
         \/ Check \/ DownloadAndInstall \/ Cancel \/ Drop
         \/ Spawn \/ FinishCheck \/ FailDownload \/ StartInstall
  PROVE  Shape'
  <1>1. CASE Check \/ DownloadAndInstall
    <2>1. PICK s \in Slot, k \in {"check", "download"}, v \in OptVersion :
            Free(s) /\ job' = [job EXCEPT ![s] = NewJob(k, "unspawned", v)]
      BY <1>1 DEF Check, DownloadAndInstall, IInv, TypeOK, OptVersion
    <2>2. /\ job[s].kind = "free" /\ fetch[s] = NoFetch
          /\ job'[s].kind \in {"check", "download"} /\ job'[s].result = "none"
          /\ \A t \in Slot : t # s => job'[t] = job[t]
      BY <2>1, NoJobType DEF Free, NewJob, Shape, IInv, TypeOK
    <2>3. /\ born' = born /\ alive' = alive /\ alive /\ running' = running
          /\ script' = script /\ proven' = proven /\ apart' = apart /\ Settle(fetch, file)
      BY <1>1 DEF Check, DownloadAndInstall, world, Quietly, NoneInstalled
    <2>4. Shaped(job', fetch, file, script', running')
      BY <2>2, <2>3 DEF Shape, Shaped, NoFetch
    <2>5. /\ script' # None => setting.artifact = "msi"
          /\ alive' => born' # 0
          /\ born' = 0 => \A t \in Slot : job'[t].kind = "free"
          /\ ~setting.kept \/ born' <= 1 => apart'
          /\ proven' # "unchecked"
      BY <2>3 DEF Shape
    <2> QED
      BY <2>3, <2>4, <2>5, ShapeStep
  <1>2. CASE Cancel
    <2>1. cancel \in Slot /\ job[cancel] \in Job
      BY <1>2 DEF Cancel, IInv, TypeOK
    <2>2. \A s \in Slot : Carries(s)
      BY <1>2, <2>1, CancelUpdate, MovesCarry DEF Cancel, SameBut
    <2> QED
      BY <1>2, <2>2, QuietShape DEF Cancel, entity, world
  <1>3. CASE Drop
    BY <1>3, DropCarries, QuietShape DEF Drop, world
  <1>4. CASE Spawn \/ FinishCheck \/ FailDownload \/ StartInstall
    <2>1. born' = born /\ alive' = alive /\ running' = running
      BY <1>4 DEF Spawn, FinishCheck, FailDownload, StartInstall, world
    <2> QED
      BY <1>4, <2>1, ForegroundMoves, QuietShape
  <1> QED
    BY <1>1, <1>2, <1>3, <1>4

(* An entity is created while earlier jobs run, or while none does.         *)
LEMMA NewShape ==
  ASSUME Shape, IInv, IInv', NewEntity
  PROVE  Shape'
  <1>1. /\ job' = job /\ born' = born + 1 /\ born \in Nat /\ running' = running
        /\ script' = script /\ proven' = proven /\ Settle(fetch, file)
        /\ apart' = (setting.kept => \A s \in Slot : ~UsesFiles(s))
    BY EntitiesAssumption DEF NewEntity, New, world, IInv, TypeOK
  <1>2. Shaped(job', fetch, file, script', running')
    BY <1>1 DEF Shape
  <1>3. born' <= 1 => \A s \in Slot : ~UsesFiles(s)
    BY <1>1 DEF Shape, UsesFiles
  <1>4. ~setting.kept \/ born' <= 1 => apart'
    BY <1>1, <1>3
  <1>5. /\ script' # None => setting.artifact = "msi"
        /\ born' # 0
        /\ proven' # "unchecked"
    BY <1>1 DEF Shape
  <1> QED
    BY <1>1, <1>2, <1>4, <1>5, ShapeStep

(* What a download writes is of a release newer than the running one.       *)
LEMMA DownloadIsNewer ==
  ASSUME IInv, NEW s \in Slot, job[s].kind = "download"
  PROVE  job[s].release \in Version /\ job[s].release > running
  BY DEF IInv, ResultIsNewer, NoDowngrade

(* Asking for, creating, writing and verifying a file.                      *)
LEMMA FetchShape ==
  ASSUME Shape, apart => FInv, IInv, IInv', NEW s \in Slot,
         Ask(s) \/ Open(s) \/ Write(s) \/ Verify(s)
  PROVE  Shape'
  <1> DEFINE p == fetch[s].path
             v == job[s].release
  <1>1. /\ UNCHANGED vars /\ NoneInstalled
        /\ job[s].kind = "download"
        /\ v \in Version /\ v > running
    BY DownloadIsNewer DEF Ask, Open, Write, Verify, Downloading, InPhase
  <1>2. /\ job' = job /\ alive' = alive /\ born' = born /\ running' = running
        /\ \A t \in Slot : Carries(t)
    BY <1>1, SameJobsCarry DEF vars, entity, world
  <1>3. SUFFICES \E fetches, contents :
                   Settle(fetches, contents) /\ Shaped(job, fetches, contents, script, running)
    BY <1>1, <1>2, MovedShape
  <1>4. CASE Ask(s)
    <2> DEFINE fetches == [fetch EXCEPT ![s] = FetchAt(Destination, "asked")]
    <2>1. Settle(fetches, file) /\ fetch[s].step = "none" /\ job[s].phase = "running"
      BY <1>4 DEF Ask, Downloading, InPhase
    <2>2. Destination \in Path
      <3>1. setting.kept \in BOOLEAN
        BY SettingsAssumption DEF Shape
      <3>2. CASE setting.kept
        BY <3>2 DEF Destination, Path
      <3>3. CASE ~setting.kept
        BY <1>1, <2>1, <3>3, FreshDestination DEF Shape
      <3> QED
        BY <3>1, <3>2, <3>3
    <2>3. /\ FetchAt(Destination, "asked") \in [path : Path \cup {None}, step : Steps]
          /\ FetchAt(Destination, "asked").path \in Path
          /\ FetchAt(Destination, "asked").step = "asked"
      BY <2>2 DEF FetchAt, Steps
    <2>4. job[s].result # "ok"
      BY <1>1, <2>1 DEF Shape, Shaped
    <2>5. Shaped(job, fetches, file, script, running)
      BY <1>1, <2>3, <2>4, NoneIsNoPath DEF Shape, Shaped
    <2> QED
      BY <2>1, <2>5
  <1>5. CASE Open(s)
    <2> DEFINE fetches == [fetch EXCEPT ![s].step = "writing"]
               contents == [file EXCEPT ![p] = Written("part", v)]
    <2>1. /\ Settle(fetches, contents) /\ fetch[s].step = "asked" /\ p # None
          /\ job[s].result # "ok"
      BY <1>1, <1>5 DEF Open, Downloading, Shape, Shaped
    <2>2. /\ Written("part", v) \in File /\ Written("part", v).release = v
      BY <1>1 DEF Written, File, OptVersion
    <2>3. Shaped(job, fetches, contents, script, running)
      BY <1>1, <2>1, <2>2 DEF Shape, Shaped, Steps
    <2> QED
      BY <2>1, <2>3
  <1>6. CASE Write(s)
    <2> DEFINE fetches == [fetch EXCEPT ![s].step = "written"]
    <2>1. /\ fetch[s].step = "writing" /\ p # None /\ job[s].result # "ok"
      BY <1>1, <1>6 DEF Write, Downloading, Shape, Shaped
    <2>2. PICK contents :
            /\ Settle(fetches, contents)
            /\ \/ contents = file
               \/ \E c \in File : c.release = v /\ contents = [file EXCEPT ![p] = c]
      <3>1. \A state \in {"other", "genuine"} :
              Written(state, v) \in File /\ Written(state, v).release = v
        BY <1>1 DEF Written, File, OptVersion
      <3> QED
        BY <1>6, <3>1 DEF Write
    <2>3. Shaped(job, fetches, contents, script, running)
      <3>1. CASE contents = file
        BY <1>1, <2>1, <3>1 DEF Shape, Shaped, Steps
      <3>2. CASE \E c \in File : c.release = v /\ contents = [file EXCEPT ![p] = c]
        BY <1>1, <2>1, <3>2 DEF Shape, Shaped, Steps
      <3> QED
        BY <2>2, <3>1, <3>2
    <2> QED
      BY <2>2, <2>3
  <1>7. CASE Verify(s)
    <2> DEFINE fetches == [fetch EXCEPT ![s].step = "verified"]
               contents == Marked(p, v)
    <2>1. /\ Settle(fetches, contents) /\ fetch[s].step = "written" /\ p \in Path
          /\ file \in [Path -> File]
      BY <1>1, <1>7 DEF Verify, Shape, Shaped
    <2>2. MarkedKeeps(p, v)
      BY <2>1, MarkedShape
    <2>3. Shaped(job, fetches, contents, script, running)
      <3>1. /\ contents \in [Path -> File]
            /\ \A q \in Path : /\ contents[q].state = file[q].state
                               /\ contents[q].release = file[q].release
        BY <2>2 DEF MarkedKeeps
      <3>2. /\ fetches \in [Slot -> [path : Path \cup {None}, step : Steps]]
            /\ fetches[s].path = fetch[s].path /\ fetches[s].step = "verified"
            /\ \A t \in Slot : t # s => fetches[t] = fetch[t]
        BY <1>1 DEF Shape, Shaped, Steps
      <3> HIDE DEF contents, fetches
      <3> QED
        BY <1>1, <2>1, <3>1, <3>2 DEF Shape, Shaped
    <2> QED
      BY <2>1, <2>3
  <1> QED
    BY <1>4, <1>5, <1>6, <1>7

(* A cancelled download, a file that is taken as it is, and a download that *)
(* settles or ends.                                                         *)
LEMMA DownloadShape ==
  ASSUME Shape, IInv, IInv', NEW s \in Slot,
         Stop(s) \/ Reuse(s) \/ LeaveCheckpoints(s) \/ End(s)
  PROVE  Shape'
  <1> DEFINE p == fetch[s].path
             v == job[s].release
  <1>1. /\ job[s].kind = "download" /\ v \in Version /\ v > running
        /\ born' = born /\ alive' = alive /\ running' = running /\ NoneInstalled
    BY DownloadIsNewer
    DEF Stop, StopDownload, Reuse, LeaveCheckpoints, End, PassLastCheckpoint, EndDownload, Downloading,
        InPhase, Quietly, entity, world
  <1>2. CASE Stop(s)
    <2> DEFINE removes == fetch[s].step \in {"asked", "writing"}
               contents == IF removes THEN [file EXCEPT ![p] = NoFile] ELSE file
    <2>1. Settle(fetch, contents) /\ \A t \in Slot : Carries(t)
      BY <1>1, <1>2, ReturnCarry DEF Stop, StopDownload, Result, OptVersion
    <2>2. Shaped(job', fetch, file, script, running)
      BY <2>1, ShapedCarries
    <2>3. NoFile \in File /\ NoFile.state = "absent"
      BY DEF NoFile, File, OptVersion
    <2>4. Shaped(job', fetch, contents, script, running)
      <3>1. CASE removes
        BY <2>2, <2>3, <3>1 DEF Shaped
      <3>2. CASE ~removes
        BY <2>2, <3>2
      <3> QED
        BY <3>1, <3>2
    <2> HIDE DEF contents
    <2> QED
      BY <1>1, <2>1, <2>4, MovedShape
  <1>3. SameBut(job[s], WithPhase(job[s], "settling"), {"phase"})
    BY PhaseUpdate DEF IInv, TypeOK, Phase
  <1>4. CASE Reuse(s)
    <2> DEFINE fetches == [fetch EXCEPT ![s] = FetchAt(Kept, "verified")]
               contents == Marked(Kept, v)
    <2>1. /\ Settle(fetches, contents) /\ Accepts(Kept, v)
          /\ job' = [job EXCEPT ![s] = WithPhase(job[s], "settling")]
      BY <1>4 DEF Reuse, Reusable, PassLastCheckpoint
    <2>2. \A t \in Slot : Carries(t)
      BY <1>3, <2>1, MovesCarry DEF SameBut
    <2>3. Shaped(job', fetch, file, script, running)
      BY <2>2, ShapedCarries
    <2>4. Kept \in Path /\ Kept # None
      BY PathAssumption DEF Path
    <2>5. MarkedKeeps(Kept, v) /\ file[Kept].release = v
      BY <2>1, <2>3, <2>4, MarkedShape DEF Shaped, Accepts
    <2>6. /\ FetchAt(Kept, "verified") \in [path : Path \cup {None}, step : Steps]
          /\ FetchAt(Kept, "verified").path = Kept /\ FetchAt(Kept, "verified").step = "verified"
      BY DEF FetchAt, Steps, Path
    <2>7. job'[s].kind = "download"
      BY <1>1, <1>3, <2>1 DEF SameBut, IInv, TypeOK
    <2>8. /\ fetches \in [Slot -> [path : Path \cup {None}, step : Steps]]
          /\ fetches[s] = FetchAt(Kept, "verified")
          /\ \A t \in Slot : t # s => fetches[t] = fetch[t]
      BY <2>3, <2>6 DEF Shaped
    <2>9. /\ contents \in [Path -> File] /\ contents[Kept].release = v
          /\ \A q \in Path : contents[q].state = file[q].state /\ contents[q].release = file[q].release
      BY <2>4, <2>5 DEF MarkedKeeps
    <2>10. Shaped(job', fetches, contents, script, running)
      <3> HIDE DEF contents, fetches
      <3>1. fetches[s].path = Kept /\ fetches[s].step = "verified"
        BY <2>6, <2>8
      <3>2. ASSUME NEW t \in Slot, job'[t].kind # "free", t # s
            PROVE  /\ fetches[t].step = "none" <=> fetches[t].path = None
                   /\ job'[t].kind = "check" => fetches[t].step = "none"
                   /\ job'[t].kind = "install" => fetches[t].step = "verified"
                   /\ job'[t].kind = "download" /\ job'[t].result = "ok" => fetches[t].step = "verified"
                   /\ fetches[t].step \in {"writing", "written", "verified"}
                         /\ contents[fetches[t].path].state # "absent" =>
                        /\ contents[fetches[t].path].release \in Version
                        /\ contents[fetches[t].path].release > running
        <4>1. fetches[t] = fetch[t] /\ fetch[t].path \in Path \cup {None}
          BY <2>3, <2>8, <3>2 DEF Shaped
        <4> QED
          BY <2>3, <2>9, <3>2, <4>1 DEF Shaped
      <3>3. script \in Path \cup {None}
        BY <2>3 DEF Shaped
      <3> QED
        BY <1>1, <2>4, <2>7, <2>8, <2>9, <3>1, <3>2, <3>3 DEF Shaped
    <2> HIDE DEF contents, fetches
    <2> QED
      BY <1>1, <2>1, <2>2, <2>10, MovedShape
  <1>5. CASE LeaveCheckpoints(s)
    <2>1. job' = [job EXCEPT ![s] = WithPhase(job[s], "settling")] /\ Quietly
      BY <1>5 DEF LeaveCheckpoints, PassLastCheckpoint
    <2>2. \A t \in Slot : Carries(t)
      BY <1>3, <2>1, MovesCarry DEF SameBut
    <2> QED
      BY <1>1, <2>1, <2>2, QuietShape
  <1>6. CASE End(s)
    BY <1>1, <1>6, EndCarries, QuietShape DEF End
  <1> QED
    BY <1>2, <1>4, <1>5, <1>6

(* Nothing unchecked is installed unless the files are shared.              *)
LEMMA InstallShape ==
  ASSUME Shape, apart => FInv, IInv, IInv', NEW s \in Slot, CopyArtifact(s) \/ StageMsi(s)
  PROVE  Shape'
  <1>1. /\ job[s].kind = "install" /\ job[s].release \in OptVersion
        /\ alive' = alive /\ born' = born /\ running' = running
        /\ script' = script /\ apart' = apart /\ Settle(fetch, file)
    BY DEF CopyArtifact, StageMsi, InPhase, entity, world, Quietly, NoneInstalled, IInv, TypeOK, Job
  <1>2. PICK x \in Result : Return(s, x, job[s].release)
    BY DEF CopyArtifact, StageMsi, Result
  <1>3. \A t \in Slot : Carries(t)
    BY <1>1, <1>2, ReturnCarry
  <1>4. proven' # "unchecked"
    <2>1. CASE proven' = proven
      BY <2>1 DEF Shape
    <2>2. CASE proven' = Provenance(fetch[s].path, job[s].release)
      <3>1. apart => Sound(fetch[s].path, job[s].release)
        BY <1>1 DEF Sound, FInv, Holds
      <3> QED
        BY <2>2, <3>1 DEF Provenance
    <2> QED
      BY <2>1, <2>2 DEF CopyArtifact, StageMsi, Quietly, NoneInstalled
  <1>5. Shaped(job', fetch, file, script', running')
    BY <1>1, <1>3, ShapedCarries
  <1>6. /\ script' # None => setting.artifact = "msi"
        /\ alive' => born' # 0
        /\ born' = 0 => \A t \in Slot : job'[t].kind = "free"
        /\ ~setting.kept \/ born' <= 1 => apart'
    BY <1>1, <1>3 DEF Shape, Carries
  <1> QED
    BY <1>1, <1>4, <1>5, <1>6, ShapeStep

(* The restart path is set where packages are staged.                       *)
LEMMA SetRestartPathShape ==
  ASSUME Shape, IInv, IInv', SetRestartPath
  PROVE  Shape'
  <1> DEFINE s == task.slot
  <1>1. s \in Slot /\ job[s] \in Job /\ job[s].kind = "install"
    BY DEF SetRestartPath, FinishInstall, Returned, IInv, TypeOK, TaskInStep, KindOf
  <1>2. /\ job' = [job EXCEPT ![s] = NoJob] /\ alive' = alive /\ born' = born /\ running' = running
        /\ script' = RestartPath(s) /\ proven' = proven /\ apart' = apart /\ Settle(fetch, file)
    BY DEF SetRestartPath, FinishInstall, world
  <1>3. \A t \in Slot : Carries(t)
    BY <1>1, <1>2, NoJobType, MovesCarry
  <1>4. /\ script' \in Path \cup {None}
        /\ script' # None => setting.artifact = "msi"
    BY <1>1, <1>2 DEF RestartPath, Shape, Shaped
  <1>5. Shaped(job', fetch, file, script', running')
    BY <1>2, <1>3, <1>4, ShapedCarries DEF Shaped
  <1>6. /\ alive' => born' # 0
        /\ born' = 0 => \A t \in Slot : job'[t].kind = "free"
        /\ ~setting.kept \/ born' <= 1 => apart'
        /\ proven' # "unchecked"
    BY <1>2, <1>3 DEF Shape, Carries
  <1> QED
    BY <1>2, <1>4, <1>5, <1>6, ShapeStep

(* The end of the process.                                                  *)
LEMMA EndShape ==
  ASSUME Shape, IInv',
         ~alive', born' = 0, job' = [t \in Slot |-> NoJob], script' = None, apart',
         proven' # "unchecked", Settle([t \in Slot |-> NoFetch], file)
  PROVE  Shape'
  <1>1. \A t \in Slot : job'[t].kind = "free"
    BY NoJobType
  <1>2. NoFetch \in [path : Path \cup {None}, step : Steps]
    BY DEF NoFetch, Steps
  <1>3. Shaped(job', [t \in Slot |-> NoFetch], file, script', running')
    BY <1>1, <1>2 DEF Shape, Shaped
  <1> QED
    BY <1>1, <1>3, ShapeStep

------------------------------------------------------------------------------
(* Every step.                                                              *)

(* The steps with files are steps of the entity, or leave it alone, except  *)
(* that the installer may find other bytes than the entity knows of.        *)
LEMMA EntityStep ==
  ASSUME IInv, FilesNext, ~ApplyMsi
  PROVE  \/ [Next]_vars
         \/ \E s \in Slot : StageMsi(s) \/ CopyArtifact(s)
  <1>1. CASE Elsewhere \/ NewEntity
    BY <1>1 DEF Elsewhere, NewEntity, Next, App, Foreground, Background
  <1>2. CASE SetRestartPath \/ ForgetProcess
    BY <1>2 DEF SetRestartPath, ForgetProcess, Next, App, Foreground, Restart, Quit,
                IInv, TypeOK
  <1>3. ASSUME NEW s \in Slot, Reuse(s) \/ Stop(s) \/ LeaveCheckpoints(s) \/ End(s)
        PROVE  Next
    BY <1>3 DEF Reuse, Stop, LeaveCheckpoints, End, Next, Background
  <1>4. ASSUME NEW s \in Slot, Ask(s) \/ Open(s) \/ Write(s) \/ Verify(s)
        PROVE  UNCHANGED vars
    BY <1>4 DEF Ask, Open, Write, Verify
  <1> QED
    BY <1>1, <1>2, <1>3, <1>4 DEF FilesNext

(* Where the entity has its files for itself, the installer finds what the  *)
(* download verified.                                                       *)
LEMMA CopyIsInstall ==
  ASSUME IInv, FInv, NEW s \in Slot, CopyArtifact(s)
  PROVE  RunInstall(s)
  <1>1. job[s].kind = "install" /\ job[s].phase = "running"
    BY DEF CopyArtifact, InPhase
  <1>2. file[fetch[s].path].release = job[s].release
    BY <1>1 DEF FInv, Holds
  <1> QED
    BY <1>2 DEF CopyArtifact, RunInstall

(* Staging an .msi, and an install of whatever is at the path by then, is a *)
(* job that returns and puts nothing older on disk.                         *)
LEMMA InstallerStep ==
  ASSUME IInv, Shape, NEW s \in Slot, StageMsi(s) \/ CopyArtifact(s)
  PROVE  /\ IInv'
         /\ UNCHANGED << entity, running >>
         /\ job[s].kind = "install" /\ \E k \in Job : job' = [job EXCEPT ![s] = k]
  <1>1. PICK x \in Result : Return(s, x, job[s].release)
    BY DEF StageMsi, CopyArtifact, Result
  <1>2. job[s].kind = "install" /\ job[s].release \in OptVersion /\ UNCHANGED << entity, running >>
    BY DEF StageMsi, CopyArtifact, InPhase, world, IInv, TypeOK, Job
  <1>3. PICK k \in Job : job' = [job EXCEPT ![s] = k] /\ Advances(job[s], k)
    BY <1>1, <1>2, ReturnStep
  <1>4. disk \in Version /\ running \in Version /\ disk >= running
    BY DEF IInv, TypeOK, NoDowngrade
  <1>5. disk' \in Version /\ disk' >= running
    <2>1. CASE disk' = disk
      BY <1>4, <2>1
    <2>2. CASE disk' # disk
      <3>1. disk' = file[fetch[s].path].release /\ file[fetch[s].path].state # "absent"
        BY <2>2 DEF StageMsi, CopyArtifact, world
      <3>2. disk' \in Version /\ disk' > running
        BY <1>2, <3>1 DEF Shape, Shaped
      <3> QED
        BY <1>4, <3>2, VersionAssumption
    <2> QED
      BY <2>1, <2>2
  <1>6. IInv'
    BY <1>2, <1>3, <1>5, BackgroundStep
  <1> QED
    BY <1>2, <1>3, <1>6

(* The invariant of Updater holds with files, too, although the script      *)
(* installs after the process has ended.                                    *)
LEMMA EntityInv == IInv /\ Shape /\ (apart => FInv) /\ [FilesNext]_allVars => IInv'
  <1>1. IInv /\ Shape /\ (apart => FInv) /\ ApplyMsi => IInv'
    <2>1. Shape /\ ApplyMsi => apart
      BY DEF Shape, ApplyMsi
    <2>2. IInv /\ FInv /\ ApplyMsi => Nothing'
      BY ApplyMsiInv
    <2> QED
      BY <2>1, <2>2, NothingInv, PTL
  <1>2. IInv /\ Shape /\ FilesNext /\ ~ApplyMsi => IInv'
    BY EntityStep, InstallerStep, StepInv
  <1>3. IInv /\ UNCHANGED allVars => IInv'
    BY StepInv DEF allVars
  <1> QED
    BY <1>1, <1>2, <1>3

(* Every step keeps what holds whoever shares the files.                    *)
LEMMA ShapeInv ==
  ASSUME Shape, apart => FInv, IInv, IInv', [FilesNext]_allVars
  PROVE  Shape'
  <1>1. CASE NewEntity
    BY <1>1, NewShape
  <1>2. CASE Elsewhere
    <2>1. Quietly
      BY <1>2 DEF Elsewhere
    <2>2. ASSUME NEW s \in Slot, BeginJob(s) \/ RunCheck(s)
          PROVE  Shape'
      BY <2>1, <2>2, ExecutorMoves, QuietShape DEF BeginJob, RunCheck, entity, world
    <2> QED
      BY <1>2, <2>1, <2>2, EntityShape DEF Elsewhere
  <1>3. CASE SetRestartPath
    BY <1>3, SetRestartPathShape
  <1>4. CASE ForgetProcess
    <2>1. proven' # "unchecked"
      BY <1>4 DEF ForgetProcess, Shape
    <2> QED
      BY <1>4, <2>1, EndShape DEF ForgetProcess, EndProcess
  <1>5. CASE ApplyMsi
    <2>1. FInv
      BY <1>5 DEF Shape, ApplyMsi
    <2>2. proven' # "unchecked"
      BY <1>5, <2>1, ApplyMsiInv
    <2> QED
      BY <1>5, <2>2, EndShape DEF ApplyMsi
  <1>6. ASSUME NEW s \in Slot,
               \/ Reuse(s) \/ Ask(s) \/ Open(s) \/ Write(s) \/ Stop(s)
               \/ LeaveCheckpoints(s) \/ Verify(s) \/ End(s) \/ CopyArtifact(s) \/ StageMsi(s)
        PROVE  Shape'
    BY <1>6, FetchShape, DownloadShape, InstallShape
  <1>7. CASE UNCHANGED allVars
    <2>1. UNCHANGED << job, setting, fetch, file, script, proven, apart, alive, born, running >>
      BY <1>7 DEF allVars, vars, entity, world, files
    <2> QED
      BY <2>1 DEF Shape, Shaped
  <1> QED
    BY <1>1, <1>2, <1>3, <1>4, <1>5, <1>6, <1>7 DEF FilesNext

(* Every step keeps the files of an entity apart, or makes it share them.   *)
LEMMA FilesInv ==
  ASSUME Shape, apart => FInv, IInv, IInv', [FilesNext]_allVars, apart'
  PROVE  FInv'
  <1>1. CASE NewEntity
    BY <1>1, NewEntityInv
  <1>2. CASE ForgetProcess
    BY <1>2, ProcessEnds DEF ForgetProcess, EndProcess
  <1>3. CASE ApplyMsi
    BY <1>3, ProcessEnds DEF ApplyMsi
  <1>4. CASE ~NewEntity /\ ~ForgetProcess /\ ~ApplyMsi /\ FilesNext
    <2>1. apart' = apart
      BY <1>4 DEF FilesNext, Elsewhere, Quietly, NoneInstalled, SetRestartPath, Reuse, Ask, Open, Write,
                  Stop, LeaveCheckpoints, Verify, End, CopyArtifact, StageMsi
    <2>2. FInv
      BY <2>1
    <2>3. CASE Elsewhere
      BY <2>2, <2>3, StartInv, AppCarries, ForegroundCarries, ExecutorCarries DEF Elsewhere
    <2>4. CASE SetRestartPath
      BY <2>2, <2>4, SetRestartPathInv
    <2>5. CASE \E s \in Slot :
                 \/ Reuse(s) \/ Ask(s) \/ Open(s) \/ Write(s) \/ Stop(s)
                 \/ LeaveCheckpoints(s) \/ Verify(s) \/ End(s) \/ CopyArtifact(s) \/ StageMsi(s)
      BY <2>2, <2>5, ReuseInv, AskInv, OpenInv, WriteInv, StopInv, LeaveCheckpointsInv, VerifyInv,
         EndInv, InstallInv
    <2> QED
      BY <1>4, <2>3, <2>4, <2>5 DEF FilesNext
  <1>5. CASE UNCHANGED allVars
    <2>1. UNCHANGED << job, setting, fetch, file, script, apart, alive >>
      BY <1>5 DEF allVars, vars, entity, files
    <2>2. FInv
      BY <2>1
    <2> QED
      BY <2>1, <2>2 DEF FInv, Holds, Single, UsesFiles
  <1> QED
    BY <1>1, <1>2, <1>3, <1>4, <1>5

(* The invariant holds at the start.                                        *)
LEMMA FilesStart == FilesInit /\ KeptIsCopied => IInv /\ Shape /\ FInv
  <1> SUFFICES ASSUME FilesInit, KeptIsCopied PROVE IInv /\ Shape /\ FInv
    OBVIOUS
  <1>1. IInv
    BY InitInv DEF FilesInit
  <1>2. /\ \A s \in Slot : job[s].kind = "free" /\ fetch[s] = NoFetch
        /\ NoFetch \in [path : Path \cup {None}, step : Steps]
        /\ NoFile \in File
    BY NoJobType DEF FilesInit, Init, NoFetch, Steps, NoFile, File, OptVersion
  <1>3. Holds(job, fetch, file, script) /\ Shaped(job, fetch, file, script, running)
    BY <1>2 DEF FilesInit, Holds, Shaped
  <1>4. Single
    BY <1>2 DEF FilesInit, Init, Single, UsesFiles
  <1>5. Shape
    BY <1>2, <1>3 DEF FilesInit, Init, Shape, KeptIsCopied
  <1> QED
    BY <1>1, <1>2, <1>3, <1>4, <1>5 DEF FilesInit, FInv, KeptIsCopied

(* The invariants together, for every behaviour.                            *)
LEMMA FilesAlways == KeptIsCopied /\ FilesSpec => [](IInv /\ Shape /\ (apart => FInv))
  <1>1. IInv /\ Shape /\ (apart => FInv) /\ [FilesNext]_allVars => IInv' /\ Shape' /\ (apart' => FInv')
    BY EntityInv, ShapeInv, FilesInv
  <1> QED
    BY <1>1, FilesStart, PTL DEF FilesSpec

(* InstallsWhatItChecked: for any versions, slots and paths, and with any   *)
(* number of entities, what reaches the install root was checked for its    *)
(* release, unless a job of an earlier entity used the same kept file; the  *)
(* configuration with a kept .msi is left out.                              *)
THEOREM InstalledWasChecked == KeptIsCopied /\ FilesSpec => []InstallsWhatItChecked
  <1>1. Shape => InstallsWhatItChecked
    BY DEF Shape, InstallsWhatItChecked
  <1> QED
    BY <1>1, FilesAlways, PTL

(* NoDowngrade with the files: neither an install that copies nor a script  *)
(* that runs after the process has ended puts an older version at the       *)
(* install root.                                                            *)
THEOREM FilesNeverDowngrade == KeptIsCopied /\ FilesSpec => []NoDowngrade
  <1>1. IInv => NoDowngrade
    BY DEF IInv
  <1> QED
    BY <1>1, FilesAlways, PTL

------------------------------------------------------------------------------
(* Staged.                                                                  *)

(* What a copied package promises is about the install root (FirstInv);     *)
(* what an .msi promises is about the script.                               *)
Promise ==
  /\ setting.artifact # "msi" => FirstInv
  /\ setting.artifact = "msi" /\ status.tag = "Staged" =>
       script # None /\ file[script].release = status.version

(* Where nothing is an .msi, a step that concerns the first entity of a     *)
(* process is a step of Updater.                                            *)
LEMMA CopiedPromise ==
  ASSUME IInv, Shape, apart => FInv, FirstInv, setting.artifact # "msi", [FilesNext]_allVars
  PROVE  FirstInv'
  <1>1. ~ApplyMsi /\ \A s \in Slot : ~StageMsi(s)
    BY DEF Shape, ApplyMsi, StageMsi
  <1>2. [Next]_vars \/ \E s \in Slot : CopyArtifact(s)
    BY <1>1, EntityStep DEF allVars
  <1>3. CASE UNCHANGED vars
    BY <1>3 DEF vars, entity, world, FirstInv, Alone, StagedIsInstalled
  <1>4. ASSUME NEW s \in Slot, CopyArtifact(s)
        PROVE  FirstInv'
    <2>1. CASE born <= 1
      <3>1. RunInstall(s)
        BY <1>4, <2>1, CopyIsInstall DEF Shape
      <3> QED
        BY <3>1, FirstBackground DEF Background
    <2>2. CASE ~(born <= 1)
      <3>1. born' = born /\ alive' = alive /\ born \in Nat
        BY <1>4, EntitiesAssumption DEF CopyArtifact, entity, IInv, TypeOK
      <3> QED
        BY <2>2, <3>1 DEF FirstInv, Alone
    <2> QED
      BY <2>1, <2>2
  <1> QED
    BY <1>2, <1>3, <1>4, FirstApp, FirstForeground, FirstBackground DEF Next

(* What a file is a file of, if the script installs it, does not change.    *)
LEMMA ScriptKeepsFile ==
  ASSUME NEW fetches, NEW contents, FInv, Settle(fetches, contents), script' = script,
         script # None, contents[script].release = file[script].release
  PROVE  file'[script].release = file[script].release
  <1>1. script \in Path /\ InUse(script, fetch', script')
    BY DEF FInv, Holds, InUse
  <1> QED
    BY <1>1 DEF Settle

(* Only the end of an install shows Staged.                                 *)
LEMMA StagedStays ==
  ASSUME IInv, FilesNext, ~SetRestartPath, status'.tag = "Staged"
  PROVE  status' = status /\ script' = script
  <1>1. CASE Elsewhere \/ NewEntity
    <2>1. script' = script
      BY <1>1 DEF Elsewhere, NewEntity, Quietly, NoneInstalled
    <2>2. status' = status
      <3>1. CASE New \/ Check \/ DownloadAndInstall \/ Cancel \/ Drop
        BY <3>1 DEF New, Check, DownloadAndInstall, Cancel, Drop, Show, entity
      <3>2. CASE Spawn \/ FinishCheck \/ FailDownload \/ StartInstall
        BY <3>2 DEF Spawn, FinishCheck, FailDownload, StartInstall, DownloadFailed, Show, Release
      <3>3. CASE \E s \in Slot : BeginJob(s) \/ RunCheck(s)
        BY <3>3 DEF BeginJob, RunCheck, entity
      <3> QED
        BY <1>1, <3>1, <3>2, <3>3 DEF Elsewhere, NewEntity
    <2> QED
      BY <2>1, <2>2
  <1>2. CASE ForgetProcess \/ ApplyMsi
    BY <1>2 DEF ForgetProcess, EndProcess, ApplyMsi, Show
  <1>3. ASSUME NEW s \in Slot,
               \/ Reuse(s) \/ Ask(s) \/ Open(s) \/ Write(s) \/ Stop(s)
               \/ LeaveCheckpoints(s) \/ Verify(s) \/ End(s) \/ CopyArtifact(s) \/ StageMsi(s)
        PROVE  status' = status /\ script' = script
    BY <1>3 DEF Reuse, Ask, Open, Write, Stop, LeaveCheckpoints, Verify, End, CopyArtifact, StageMsi,
                PassLastCheckpoint, StopDownload, EndDownload, Quietly, NoneInstalled, entity, vars
  <1> QED
    BY <1>1, <1>2, <1>3 DEF FilesNext

(* No download touches the file the script installs.                        *)
LEMMA MsiStays ==
  ASSUME IInv, FInv, setting.artifact = "msi", FilesNext, script # None, script' = script
  PROVE  file'[script].release = file[script].release
  <1>0. ~setting.kept /\ script \in Path /\ file \in [Path -> File]
    BY DEF FInv, Holds
  <1>1. CASE Elsewhere \/ NewEntity \/ SetRestartPath
    BY <1>1, ScriptKeepsFile DEF Elsewhere, NewEntity, Quietly, SetRestartPath
  <1>2. ~ForgetProcess /\ ~ApplyMsi
    BY DEF ForgetProcess, ApplyMsi
  <1>3. ASSUME NEW s \in Slot, LeaveCheckpoints(s) \/ End(s) \/ CopyArtifact(s) \/ StageMsi(s)
        PROVE  file'[script].release = file[script].release
    BY <1>3, ScriptKeepsFile DEF LeaveCheckpoints, End, CopyArtifact, StageMsi, Quietly
  <1>4. ASSUME NEW s \in Slot, Ask(s) PROVE file'[script].release = file[script].release
    BY <1>4, ScriptKeepsFile DEF Ask
  <1>5. ASSUME NEW s \in Slot, Open(s) \/ Write(s) \/ Stop(s) \/ Verify(s)
        PROVE  file'[script].release = file[script].release
    <2> DEFINE p == fetch[s].path
    <2>1. PICK fetches, contents :
            /\ Settle(fetches, contents)
            /\ \/ contents = file
               \/ fetch[s].step # "none" /\ \E c : contents = [file EXCEPT ![p] = c]
               \/ fetch[s].step # "none" /\ contents = Marked(p, job[s].release)
      <3>1. CASE Open(s) \/ Write(s)
        BY <3>1 DEF Open, Write, Downloading
      <3>2. CASE Stop(s)
        <4> DEFINE removes == fetch[s].step \in {"asked", "writing"}
        <4>1. Settle(fetch, IF removes THEN [file EXCEPT ![p] = NoFile] ELSE file)
          BY <3>2 DEF Stop
        <4>2. CASE removes
          BY <4>1, <4>2
        <4>3. CASE ~removes
          BY <4>1, <4>3
        <4> QED
          BY <4>2, <4>3
      <3>3. CASE Verify(s)
        BY <3>3 DEF Verify
      <3> QED
        BY <1>5, <3>1, <3>2, <3>3
    <2>2. job[s].kind # "free"
      BY <1>5 DEF Open, Write, Stop, Verify, Downloading, InPhase, StopDownload
    <2>3. fetch[s].step # "none" => p \in Path /\ p # script
      BY <2>2, OwnPath DEF FInv, Holds
    <2>4. contents[script].release = file[script].release
      <3>1. CASE contents = file
        BY <3>1
      <3>2. CASE fetch[s].step # "none" /\ \E c : contents = [file EXCEPT ![p] = c]
        <4>1. PICK c : contents = [file EXCEPT ![p] = c]
          BY <3>2
        <4> HIDE DEF p
        <4> QED
          BY <1>0, <2>3, <3>2, <4>1
      <3>3. CASE fetch[s].step # "none" /\ contents = Marked(p, job[s].release)
        BY <1>0, <2>3, <3>3, MarkedFile
      <3> QED
        BY <2>1, <3>1, <3>2, <3>3
    <2> QED
      BY <2>1, <2>4, ScriptKeepsFile, <1>5 
  <1>6. \A s \in Slot : ~Reuse(s)
    BY <1>0 DEF Reuse
  <1> QED
    BY <1>1, <1>2, <1>3, <1>4, <1>5, <1>6 DEF FilesNext

(* A promise that was made is kept, and an install that returns makes one   *)
(* it can keep.                                                             *)
LEMMA PromiseStep ==
  ASSUME IInv, Shape, apart => FInv, Promise, IInv', [FilesNext]_allVars
  PROVE  Promise'
  <1>1. setting' = setting
    <2>1. FilesNext => setting' = setting
      BY DEF FilesNext, NewEntity, Elsewhere, Quietly, SetRestartPath, ForgetProcess, ApplyMsi, Reuse,
             Ask, Open, Write, Stop, LeaveCheckpoints, Verify, End, CopyArtifact, StageMsi, Settle
    <2> QED
      BY <2>1 DEF allVars, files
  <1>2. CASE setting.artifact # "msi"
    BY <1>1, <1>2, CopiedPromise DEF Promise
  <1>3. CASE setting.artifact = "msi"
    <2>0. FInv
      BY <1>3 DEF Shape
    <2> SUFFICES ASSUME status'.tag = "Staged"
                 PROVE  script' # None /\ file'[script'].release = status'.version
      BY <1>1, <1>3 DEF Promise
    <2>1. CASE UNCHANGED allVars
      BY <1>3, <2>1 DEF Promise, allVars, vars, entity, files
    <2>2. CASE FilesNext /\ ~SetRestartPath
      <3>1. status' = status /\ script' = script
        BY <2>2, StagedStays
      <3>2. script # None /\ file[script].release = status.version
        BY <1>3, <3>1 DEF Promise
      <3> QED
        BY <1>3, <2>0, <2>2, <3>1, <3>2, MsiStays
    <2>3. CASE SetRestartPath
      <3> DEFINE s == task.slot
      <3>1. /\ s \in Slot /\ job[s].kind = "install" /\ job[s].release = task.release
            /\ status' = InstalledStatus(job[s].result, task.release)
            /\ script' = RestartPath(s) /\ Settle(fetch, file)
        BY <2>3 DEF SetRestartPath, FinishInstall, Returned, IInv, TypeOK, TaskInStep, KindOf
      <3>2. job[s].result = "ok" /\ status'.version = task.release
        BY <3>1 DEF InstalledStatus, Show, Release
      <3>3. script' = fetch[s].path
        BY <1>3, <3>1, <3>2 DEF RestartPath
      <3>4. script' \in Path /\ script' # None /\ file[script'].release = job[s].release
        BY <2>0, <3>1, <3>3, NoneIsNoPath DEF FInv, Holds
      <3>5. InUse(script', fetch', script')
        BY DEF InUse
      <3>6. file'[script'] = file[script']
        BY <3>1, <3>4, <3>5 DEF Settle
      <3> QED
        BY <3>1, <3>2, <3>4, <3>6
    <2> QED
      BY <2>1, <2>2, <2>3
  <1> QED
    BY <1>2, <1>3

(* StagedIsReady: unless an .msi is kept in the download directory, the     *)
(* script a restart runs installs the version on screen from bytes that     *)
(* were checked, and a package that is copied is at the install root when   *)
(* the first entity of a process says so.                                   *)
THEOREM StagedCanLaunch == KeptIsCopied /\ FilesSpec => []StagedIsReady
  <1>1. FilesInit => Promise
    BY NoJobs DEF FilesInit, Init, Promise, Show
  <1>2. IInv /\ Shape /\ (apart => FInv) /\ Promise => StagedIsReady
    <2> SUFFICES ASSUME IInv, Shape, apart => FInv, Promise, status.tag = "Staged"
                 PROVE  IF setting.artifact = "msi"
                          THEN script # None /\ Sound(script, status.version)
                          ELSE born <= 1 => disk = status.version
      BY DEF StagedIsReady
    <2>1. CASE setting.artifact = "msi"
      BY <2>1 DEF Promise, Shape, FInv, Holds, Sound
    <2>2. CASE setting.artifact # "msi"
      BY <2>2 DEF Promise, FirstInv, Alone, StagedIsInstalled, IInv, Dead, Show
    <2> QED
      BY <2>1, <2>2
  <1>3. IInv /\ Shape /\ (apart => FInv) /\ Promise /\ IInv' /\ [FilesNext]_allVars => Promise'
    BY PromiseStep
  <1> QED
    BY <1>1, <1>2, <1>3, FilesAlways, PTL DEF FilesSpec

------------------------------------------------------------------------------
(* The lifecycle with files, and files that change nothing of the entity.   *)

(* The safety part of Implements with files: an .msi that is staged, and    *)
(* one that is installed once the process has ended, look to a view like a  *)
(* copied artifact.                                                         *)
THEOREM FilesRefineLifecycle ==
  KeptIsCopied /\ FilesSpec => Lifecycle!Init /\ [][Lifecycle!Next]_(Lifecycle!vars)
<1>1. FilesInit => Lifecycle!Init /\ Targeted
  BY LifecycleStart DEF FilesInit
<1>2. IInv /\ Shape /\ Targeted /\ [FilesNext]_allVars =>
        [Lifecycle!Next]_(Lifecycle!vars) /\ Targeted'
  <2> SUFFICES ASSUME IInv, Shape, Targeted, [FilesNext]_allVars
               PROVE  (Lifecycle!Next \/ UNCHANGED Lifecycle!vars) /\ Targeted'
    OBVIOUS
  <2>1. CASE [Next]_vars
    BY <2>1, LifecycleStep
  <2>2. CASE \E s \in Slot : StageMsi(s) \/ CopyArtifact(s)
    BY <2>2 DEF StageMsi, CopyArtifact, entity, Lifecycle!vars, Targeted
  <2>3. CASE ApplyMsi
    BY <2>3 DEF ApplyMsi, Lifecycle!Next, Lifecycle!Anew, Lifecycle!Show, Show, NoTask, Targeted
  <2>4. UNCHANGED allVars => UNCHANGED vars
    BY DEF allVars
  <2>5. QED
    BY <2>1, <2>2, <2>3, <2>4, EntityStep
<1>3. QED
  BY <1>1, <1>2, FilesAlways, PTL DEF FilesSpec

(* OneOperation and CancelReachesDownload with files: a restart that a      *)
(* script follows, and jobs that only stage a package, change nothing of    *)
(* what is in flight.                                                       *)
THEOREM FilesOneAtATime ==
  KeptIsCopied /\ FilesSpec => [](OneOperation /\ CancelReachesDownload)
<1>1. IInv => OneOperation /\ CancelReachesDownload
  BY OneOperationHolds DEF IInv
<1>2. QED
  BY <1>1, FilesAlways, PTL

(* InstallsOnlyVerified with files: what becomes an install is a download   *)
(* whose file passed the checks, also when it was reused.                   *)
THEOREM FilesInstallsFollowDownloads == KeptIsCopied /\ FilesSpec => InstallsOnlyVerified
<1>1. IInv /\ Shape /\ [FilesNext]_allVars => [InstallFollows]_vars
  <2> SUFFICES ASSUME IInv, Shape, [FilesNext]_allVars, ~UNCHANGED vars
               PROVE  InstallFollows
    OBVIOUS
  <2>1. CASE Next
    BY <2>1, InstallFollowsStep
  <2>2. CASE \E s \in Slot : StageMsi(s) \/ CopyArtifact(s)
    <3>1. PICK s \in Slot : job[s].kind = "install" /\ \E k \in Job : job' = [job EXCEPT ![s] = k]
      BY <2>2, InstallerStep
    <3>2. job \in [Slot -> Job]
      BY DEF IInv, TypeOK
    <3>3. QED
      BY <3>1, <3>2 DEF InstallFollows
  <2>3. CASE ApplyMsi
    BY <2>3, NoJobType DEF ApplyMsi, InstallFollows
  <2>4. UNCHANGED allVars => UNCHANGED vars
    BY DEF allVars
  <2>5. QED
    BY <2>1, <2>2, <2>3, <2>4, EntityStep
<1>2. QED
  BY <1>1, FilesAlways, PTL DEF FilesSpec, InstallsOnlyVerified, InstallFollows

(* UpdaterFiles implements Updater wherever artifacts are copied from a     *)
(* directory of their own, and from a kept one while a process creates one  *)
(* entity: the files settle what a job's result is and never add a step to  *)
(* the entity.  Where entities share a kept file, the installer may find    *)
(* another release at the path than the one the entity installs.            *)
THEOREM FilesRefineEntity ==
  (\A c \in Settings : c.artifact # "msi" /\ (c.kept => MaxEntities = 1)) /\ FilesSpec => Spec
<1> SUFFICES ASSUME \A c \in Settings : c.artifact # "msi" /\ (c.kept => MaxEntities = 1)
             PROVE  FilesSpec => Spec
  OBVIOUS
<1>1. KeptIsCopied
  BY DEF KeptIsCopied
<1>2. FilesInit => Init
  BY DEF FilesInit
<1>3. IInv /\ Shape /\ (apart => FInv) /\ [FilesNext]_allVars => [Next]_vars
  <2> SUFFICES ASSUME IInv, Shape, apart => FInv, [FilesNext]_allVars PROVE [Next]_vars
    OBVIOUS
  <2>1. setting.artifact # "msi"
    BY DEF Shape
  <2>2. ~ApplyMsi /\ ~\E s \in Slot : StageMsi(s)
    BY <2>1 DEF ApplyMsi, StageMsi, Shape
  <2>3. UNCHANGED allVars => UNCHANGED vars
    BY DEF allVars
  <2>4. born \in Nat /\ (setting.kept => born <= 1)
    BY EntitiesAssumption DEF Shape, IInv, TypeOK
  <2>5. FInv
    BY <2>4 DEF Shape
  <2>6. ASSUME NEW s \in Slot, CopyArtifact(s) PROVE Next
    BY <2>5, <2>6, CopyIsInstall DEF Next, Background
  <2>7. QED
    BY <2>2, <2>3, <2>6, EntityStep
<1>4. QED
  BY <1>1, <1>2, <1>3, FilesAlways, PTL DEF FilesSpec, Spec
==============================================================================
