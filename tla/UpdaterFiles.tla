----------------------------- MODULE UpdaterFiles -----------------------------
(***************************************************************************)
(* The Updater entity together with the files its jobs leave: where a      *)
(* download puts the artifact, what an install makes of it, and what a     *)
(* restart then runs (engine.rs, staging.rs, install/windows.rs).          *)
(*                                                                         *)
(* Every step is a step of Updater with its effect on files, except those  *)
(* of an .msi: installing one only writes a script beside the artifact,    *)
(* and App::restart runs that script once the process is gone.             *)
(*                                                                         *)
(* Abstracted: artifacts rebuilt from deltas, which are always in a        *)
(* directory of their own (EngineDownload), the steps inside the fetch     *)
(* (HttpDownload), and inside the replacement of the app (Install).        *)
(***************************************************************************)
EXTENDS Updater, FiniteSets

CONSTANTS
  Kept,         (* The artifact's path in EngineConfig::download_dir.    *)
  Private,      (* Paths in directories private_temp_dir makes.          *)
  Settings      (* Whether download_dir is set, and the artifact's kind. *)

ASSUME PathAssumption == Kept \notin Private /\ None \notin Private \cup {Kept}
ASSUME SettingsAssumption ==
  Settings \subseteq [kept : BOOLEAN, artifact : {"copied", "msi"}]
(* private_temp_dir always finds a fresh name.                              *)
ASSUME FreshAssumption ==
  \A s \in Slot : \A used \in [Slot \ {s} -> Private \cup {Kept, None}], staged \in Private \cup {Kept, None} :
    \E p \in Private : p # staged /\ \A t \in Slot \ {s} : used[t] # p

VARIABLES
  setting,      (* The configuration and the kind of package.            *)
  fetch,        (* By slot, the artifact's path and how far it has got.  *)
  file,         (* By path, the artifact there.                          *)
  script,       (* The package the script at App's restart path installs.*)
  proven,       (* History: was what is at the install root checked?     *)
  apart         (* History: the entity shares its files with no other's. *)

files == << setting, fetch, file, script, proven, apart >>
allVars == << vars, files >>

Path == Private \cup {Kept}

(* `part` of an artifact, a whole one that is not what was published, or a *)
(* `genuine` one; `checked` is history: the engine's checks for `release`   *)
(* passed on these bytes.                                                   *)
File ==
  [state : {"absent", "part", "other", "genuine"}, release : OptVersion, checked : BOOLEAN]

NoFile == [state |-> "absent", release |-> None, checked |-> FALSE]
Written(state, v) == [state |-> state, release |-> v, checked |-> FALSE]

(* A fetch has `asked` once it is inside http::download.                    *)
Steps == {"none", "asked", "writing", "written", "verified"}
NoFetch == [path |-> None, step |-> "none"]
FetchAt(p, step) == [path |-> p, step |-> step]

FilesTypeOK ==
  /\ TypeOK
  /\ setting \in Settings
  /\ fetch \in [Slot -> [path : Path \cup {None}, step : Steps]]
  /\ file \in [Path -> File]
  /\ script \in Path \cup {None}
  /\ proven \in {"checked", "raced", "unchecked"}
  /\ apart \in BOOLEAN

FilesInit ==
  /\ Init
  /\ setting \in Settings
  /\ fetch = [s \in Slot |-> NoFetch]
  /\ file = [p \in Path |-> NoFile]
  /\ script = None
  /\ proven = "checked"
  /\ apart = TRUE

------------------------------------------------------------------------------
InUse(p, fetches, staged) == staged = p \/ \E s \in Slot : fetches[s].path = p

(* The fetches of jobs that are gone are gone, and so is a private          *)
(* directory nobody knows the path of.                                      *)
Settle(fetches, contents) ==
  /\ fetch' = [s \in Slot |-> IF job'[s] = NoJob THEN NoFetch ELSE fetches[s]]
  /\ file' = [p \in Path |->
                IF p = Kept \/ InUse(p, fetch', script') THEN contents[p] ELSE NoFile]
  /\ UNCHANGED setting

NoneInstalled == UNCHANGED << script, proven, apart >>
Quietly == NoneInstalled /\ Settle(fetch, file)

(* Jobs that use the directory a download goes to.                          *)
UsesFiles(s) == job[s].kind \in {"download", "install"}

(* A new entity has the files for itself if every download has a directory  *)
(* of its own, or no earlier entity left a job that uses the kept one.      *)
NewEntity ==
  /\ New
  /\ apart' = (setting.kept => \A s \in Slot : ~UsesFiles(s))
  /\ UNCHANGED << script, proven >>
  /\ Settle(fetch, file)

(* The steps that touch no file.                                            *)
Elsewhere ==
  /\ \/ Check \/ DownloadAndInstall \/ Cancel \/ Drop
     \/ Spawn \/ FinishCheck \/ FailDownload \/ StartInstall
     \/ \E s \in Slot : BeginJob(s) \/ RunCheck(s)
  /\ Quietly

------------------------------------------------------------------------------
(* The download.                                                            *)

Downloading(s, step) == InPhase(s, "download", "running") /\ fetch[s].step = step

(* verify_file and check_payload: genuine, and of this release.             *)
Accepts(p, v) == file[p].state = "genuine" /\ file[p].release = v

(* reusable: an earlier download is the artifact if it verifies.            *)
Reusable_Unverified(p, v) == file[p].state \in {"other", "genuine"}
Reusable(p, v) == Accepts(p, v)

Marked(p, v) == IF Accepts(p, v) THEN [file EXCEPT ![p].checked = TRUE] ELSE file

Reuse(s) ==
  /\ Downloading(s, "none")
  /\ setting.kept
  /\ Reusable(Kept, job[s].release)
  /\ PassLastCheckpoint(s)
  /\ NoneInstalled
  /\ Settle([fetch EXCEPT ![s] = FetchAt(Kept, "verified")], Marked(Kept, job[s].release))

(* download_dir: the kept directory, or one that nobody else knows.         *)
Destination ==
  IF setting.kept THEN Kept ELSE CHOOSE p \in Private : ~InUse(p, fetch, script)

(* The last look at the token before the request.  Reading the published    *)
(* checksums may fail, so a file that would verify may still be fetched     *)
(* again.                                                                   *)
Ask(s) ==
  /\ Downloading(s, "none")
  /\ ~job[s].cancelled
  /\ UNCHANGED vars /\ NoneInstalled
  /\ Settle([fetch EXCEPT ![s] = FetchAt(Destination, "asked")], file)

(* The response is there: the file is created, or emptied, at the           *)
(* artifact's final path, whoever else has it open.                         *)
Open(s) ==
  /\ Downloading(s, "asked")
  /\ UNCHANGED vars /\ NoneInstalled
  /\ Settle([fetch EXCEPT ![s].step = "writing"],
            [file EXCEPT ![fetch[s].path] = Written("part", job[s].release)])

(* A file that another download has removed takes what is written with it,  *)
(* unless a retry starts over.                                              *)
Write(s) ==
  /\ Downloading(s, "writing")
  /\ UNCHANGED vars /\ NoneInstalled
  /\ LET fetches == [fetch EXCEPT ![s].step = "written"] IN
       \/ \E state \in {"other", "genuine"} :
            Settle(fetches, [file EXCEPT ![fetch[s].path] = Written(state, job[s].release)])
       \/ file[fetch[s].path].state = "absent" /\ Settle(fetches, file)

(* Cancelled inside http::download, what is at the path is removed; before  *)
(* and after that, it stays.                                                *)
Stop(s) ==
  /\ StopDownload(s)
  /\ NoneInstalled
  /\ Settle(fetch, IF fetch[s].step \in {"asked", "writing"}
                     THEN [file EXCEPT ![fetch[s].path] = NoFile]
                     ELSE file)

LeaveCheckpoints(s) ==
  /\ Downloading(s, "written")
  /\ PassLastCheckpoint(s)
  /\ Quietly

Verify(s) ==
  /\ InPhase(s, "download", "settling")
  /\ fetch[s].step = "written"
  /\ Accepts(fetch[s].path, job[s].release)
  /\ UNCHANGED vars /\ NoneInstalled
  /\ Settle([fetch EXCEPT ![s].step = "verified"],
            Marked(fetch[s].path, job[s].release))

(* The location, the network or a check fails: what was fetched stays.      *)
End(s) ==
  /\ EndDownload(s)
  /\ IF fetch[s].step = "verified"
       THEN Return(s, "ok", job[s].release)
       ELSE Return(s, "error", job[s].release)
  /\ fetch[s].step = "written" => job[s].phase = "settling"
  /\ Quietly

------------------------------------------------------------------------------
(* The install, and the restart.                                            *)

Sound(p, v) == file[p].checked /\ file[p].release = v

Provenance(p, v) ==
  IF Sound(p, v) THEN "checked" ELSE IF apart THEN "unchecked" ELSE "raced"

(* A bare executable, an app bundle or an image is copied to the root: what *)
(* is at the path by then, which a later download may have emptied, written *)
(* or removed, or the install fails and leaves the root as it is.           *)
CopyArtifact(s) ==
  /\ setting.artifact = "copied"
  /\ InPhase(s, "install", "running")
  /\ \/ /\ file[fetch[s].path].state # "absent"
        /\ disk' = file[fetch[s].path].release
        /\ proven' = Provenance(fetch[s].path, job[s].release)
        /\ Return(s, "ok", job[s].release)
     \/ /\ UNCHANGED << disk, proven >>
        /\ Return(s, "error", job[s].release)
  /\ UNCHANGED << entity, running, script, apart >>
  /\ Settle(fetch, file)

(* stage_msi: nothing is installed yet.                                     *)
StageMsi(s) ==
  /\ setting.artifact = "msi"
  /\ InPhase(s, "install", "running")
  /\ \E result \in {"ok", "error"} : Return(s, result, job[s].release)
  /\ UNCHANGED << entity, world >>
  /\ Quietly

(* installed_status: the restart path is set by the entity that asked.      *)
RestartPath(s) ==
  IF setting.artifact = "msi" /\ job[s].result = "ok" THEN fetch[s].path ELSE script

SetRestartPath ==
  /\ FinishInstall
  /\ script' = RestartPath(task.slot)
  /\ UNCHANGED << proven, apart >>
  /\ Settle(fetch, file)

(* The process ends; only what is in a kept directory can be found again.   *)
ForgetProcess ==
  /\ EndProcess
  /\ script' = None
  /\ apart' = TRUE
  /\ UNCHANGED proven
  /\ Settle([s \in Slot |-> NoFetch], file)

(* App::restart runs the script once the process is gone: msiexec installs  *)
(* what is at the path by then, whatever it is, and the app is started.     *)
ApplyMsi ==
  /\ alive
  /\ script # None
  /\ file[script].state \in {"other", "genuine"}
  /\ disk' = file[script].release
  /\ running' = disk'
  /\ proven' = Provenance(script, disk')
  /\ script' = None
  /\ apart' = TRUE
  /\ alive' = FALSE /\ born' = 0
  /\ status' = Show("Idle") /\ available' = None
  /\ task' = NoTask /\ cancel' = None
  /\ job' = [s \in Slot |-> NoJob]
  /\ Settle([s \in Slot |-> NoFetch], file)

------------------------------------------------------------------------------
FilesForeground ==
  \/ (Spawn \/ FinishCheck \/ FailDownload \/ StartInstall) /\ Quietly
  \/ SetRestartPath

FilesBackground(s) ==
  \/ (BeginJob(s) \/ RunCheck(s)) /\ Quietly
  \/ Reuse(s) \/ Ask(s) \/ Open(s) \/ Write(s) \/ Stop(s) \/ LeaveCheckpoints(s)
  \/ Verify(s) \/ End(s) \/ CopyArtifact(s) \/ StageMsi(s)

(* Restart and Quit both forget the process; with a script at the restart   *)
(* path, forgetting it at a restart is msiexec failing.                     *)
FilesNext ==
  \/ NewEntity
  \/ Elsewhere
  \/ SetRestartPath
  \/ ForgetProcess
  \/ ApplyMsi
  \/ \E s \in Slot :
       \/ Reuse(s) \/ Ask(s) \/ Open(s) \/ Write(s) \/ Stop(s)
       \/ LeaveCheckpoints(s) \/ Verify(s) \/ End(s) \/ CopyArtifact(s) \/ StageMsi(s)

FilesSpec == FilesInit /\ [][FilesNext]_allVars

(* As in Updater.                                                           *)
FilesFairSpec ==
  /\ FilesSpec
  /\ WF_allVars(FilesForeground)
  /\ \A s \in Slot : WF_allVars(FilesBackground(s))

------------------------------------------------------------------------------
(* Properties.                                                              *)

(* "Nothing reaches the installer without passing the engine's checks"      *)
(* (engine.rs:258): the bytes that are installed, by the installer or by    *)
(* the script it leaves, are bytes that were checked for that release, with *)
(* a file that an earlier download left, with downloads that are cancelled, *)
(* fail or outlive their entity, and across the end of the process.  The    *)
(* exception is a race that nothing in the code prevents: with download_dir *)
(* set, an entity is created while a job of a dropped one still uses the    *)
(* same file.                                                               *)
InstallsWhatItChecked == proven # "unchecked"

(* "Staged: the update is installed and ready to launch on restart"         *)
(* (status.rs:39): the script at the restart path installs the version on   *)
(* screen from bytes that were checked, or, while the process has created   *)
(* one entity, that version is at the install root.                         *)
StagedIsReady ==
  status.tag = "Staged" =>
    IF setting.artifact = "msi"
      THEN script # None /\ Sound(script, status.version)
      ELSE born <= 1 => disk = status.version
==============================================================================
