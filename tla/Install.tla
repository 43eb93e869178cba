-------------------------------- MODULE Install --------------------------------
(***************************************************************************)
(* Replacing the installed app: macos::swap_in, linux::install_directory   *)
(* and replace_binary, windows::install_bare_exe                           *)
(* (crates/gpui-updater-core/src/install/).  An `.msi` is only staged; it  *)
(* is not modelled.                                                        *)
(*                                                                         *)
(* The directory that holds the install root is a map from names to        *)
(* objects.  An object is a file or an app's directory tree: which         *)
(* versions its bytes are of, and which attempts opened it and have not    *)
(* finished writing.  A rename moves an object, a copy writes to the       *)
(* object it opened wherever that is moved, so attempts that overlap are   *)
(* modelled for the strategies that copy a single file.                    *)
(*                                                                         *)
(* An operator whose name has an underscore is its namesake with a mistake *)
(* in it; no action uses it.  The properties are checked to notice it.     *)
(***************************************************************************)
EXTENDS Naturals, FiniteSets

CONSTANTS
  Strategy,     (* Which of macos, linux_dir, linux_file and windows the  *)
                (* app may be installed for.                              *)
  MaxAttempts,  (* Bound: attempts to install, one version each.          *)
  MaxOverlap,   (* Attempts that may run at the same time.                *)
  Faults        (* What may fail: copy, rename, remove, rollback, crash.  *)

ASSUME StrategyAssumption == Strategy \subseteq {"macos", "linux_dir", "linux_file", "windows"}
ASSUME AttemptsAssumption == MaxAttempts \in Nat /\ MaxOverlap \in Nat
ASSUME FaultsAssumption == Faults \subseteq {"copy", "rename", "remove", "rollback", "crash"}

VARIABLES
  strategy,     (* What the app was installed as.                         *)
  dir,          (* The objects in the directory, by name.                 *)
  obj,          (* The objects.                                           *)
  at,           (* The next step of each attempt.                         *)
  how,          (* The strategy an attempt follows.                       *)
  target,       (* The version it installs.                               *)
  fd,           (* The object it is writing.                              *)
  before,       (* The root's object when it began.                       *)
  result,       (* What it returned.                                      *)
  stuck,        (* History: its steps that could not remove something.    *)
  last,         (* The attempt of this process that returned last, or 0.  *)
  up,           (* The app runs.                                          *)
  image         (* The object it was started from.                        *)

files == << dir, obj >>
attempt == << at, how, target, fd, before, result, stuck, last >>
process == << up, image >>
vars == << strategy, files, attempt, process >>

Attempt == 1 .. MaxAttempts
Version == 0 .. 2
Object  == 0 .. MaxAttempts
None    == MaxAttempts + 1

Root  == << "root", 0 >>
New   == << "new", 0 >>
Old   == << "old", 0 >>
Stage(a) == << "stage", a >>
Aside(a) == << "aside", a >>
Name == {Root, New, Old} \cup {"stage", "aside"} \X Attempt

Step ==
  {"idle", "clean", "copy", "copying", "clear", "move_aside", "move_in", "undo",
   "tidy", "done", "dead"}

Running(a) == at[a] \notin {"idle", "done", "dead"}
Exists(n)  == dir[n] # None
Whole(o)   == o # None /\ Cardinality(obj[o].from) = 1 /\ obj[o].open = {}

(* Types; two names never share an object.                                  *)
TypeOK ==
  /\ strategy \in Strategy
  /\ dir \in [Name -> Object \cup {None}]
  /\ \A m, n \in Name : m # n /\ Exists(m) => dir[m] # dir[n]
  /\ obj \in [Object -> [kind : {"dir", "file"}, from : SUBSET Version, open : SUBSET Attempt]]
  /\ at \in [Attempt -> Step]
  /\ how \in [Attempt -> Strategy \cup {"linux_file"}]
  /\ target \in [Attempt -> Version]
  /\ fd \in [Attempt -> Object]
  /\ before \in [Attempt -> Object \cup {None}]
  /\ result \in [Attempt -> {"none", "ok", "error"}]
  /\ stuck \in [Attempt -> SUBSET Step]
  /\ last \in Attempt \cup {0}
  /\ up \in BOOLEAN
  /\ image \in Object

Kind(s) == IF s \in {"macos", "linux_dir"} THEN "dir" ELSE "file"

Init ==
  /\ strategy \in Strategy
  /\ dir = [n \in Name |-> IF n = Root THEN 0 ELSE None]
  /\ obj = [o \in Object |-> [kind |-> Kind(strategy), from |-> {0}, open |-> {}]]
  /\ at = [a \in Attempt |-> "idle"]
  /\ how = [a \in Attempt |-> strategy]
  /\ target = [a \in Attempt |-> 0]
  /\ fd = [a \in Attempt |-> 0]
  /\ before = [a \in Attempt |-> None]
  /\ result = [a \in Attempt |-> "none"]
  /\ stuck = [a \in Attempt |-> {}]
  /\ last = 0
  /\ up = TRUE
  /\ image = 0

------------------------------------------------------------------------------
(* The file system.                                                         *)

Removed(d, n) == [d EXCEPT ![n] = None]
Moved(d, m, n) == [d EXCEPT ![n] = d[m], ![m] = None]

(* Windows does not delete or replace the executable that runs.             *)
Locked(n) == strategy = "windows" /\ up /\ dir[n] = image

(* Where the new version is put together, and where the old one is put.     *)
StageOf_InPlace(a) ==
  IF how[a] = "linux_dir" THEN Stage(a) ELSE IF how[a] = "macos" THEN New ELSE Root
StageOf(a) ==
  IF how[a] = "linux_dir" THEN Stage(a) ELSE IF how[a] = "windows" THEN Root ELSE New
AsideOf(a) == IF how[a] = "linux_dir" THEN Aside(a) ELSE Old

Go(a, step) == at' = [at EXCEPT ![a] = step] /\ UNCHANGED << result, last >>
Return(a, outcome) ==
  /\ at' = [at EXCEPT ![a] = "done"]
  /\ result' = [result EXCEPT ![a] = outcome]
  /\ last' = a

(* What is at a name is removed, which may fail.  No step looks at that: a  *)
(* tree that could not be removed counts as incomplete from then on.        *)
Torn(a, o) == IF obj[o].kind = "dir" THEN [obj EXCEPT ![o].open = @ \cup {a}] ELSE obj

Discard(a, d, n) ==
  \/ /\ d[n] # None => ~Locked(n)
     /\ dir' = Removed(d, n)
     /\ UNCHANGED << obj, stuck >>
  \/ /\ d[n] # None /\ ("remove" \in Faults \/ Locked(n))
     /\ dir' = d
     /\ obj' = Torn(a, d[n])
     /\ stuck' = [stuck EXCEPT ![a] = @ \cup {at[a]}]

(* rename replaces a file with a file and nothing else; a tree goes to a    *)
(* free name only.                                                          *)
Renames(d, m, n) ==
  /\ d[m] # None
  /\ d[n] # None => obj[d[m]].kind = "file" /\ obj[d[n]].kind = "file" /\ ~Locked(n)

------------------------------------------------------------------------------
(* One attempt.                                                             *)

(* macOS cleans the name of the stage first, and Windows the name of what   *)
(* is put aside; Linux takes new names, or writes over what has the name.   *)
FirstStep_Unclean(s) == IF s = "windows" THEN "clear" ELSE "copy"
FirstStep(s) ==
  IF s = "windows" THEN "clear" ELSE IF s = "macos" THEN "clean" ELSE "copy"

(* linux::install takes a root that is not a directory, or not there, for a *)
(* single executable.                                                       *)
Begin(a) ==
  /\ up
  /\ at[a] = "idle"
  /\ \A b \in Attempt : b < a => at[b] # "idle"
  /\ Cardinality({b \in Attempt : Running(b)}) < MaxOverlap
  /\ how' = [how EXCEPT ![a] =
               IF strategy = "linux_dir" /\ (Exists(Root) => obj[dir[Root]].kind = "file")
                 THEN "linux_file" ELSE strategy]
  /\ \E v \in Version \ {0} : target' = [target EXCEPT ![a] = v]
  /\ before' = [before EXCEPT ![a] = dir[Root]]
  /\ Go(a, FirstStep(how'[a]))
  /\ UNCHANGED << strategy, files, fd, stuck, process >>

(* ditto would merge into a tree that is there, so macOS removes what an    *)
(* earlier attempt left.                                                    *)
Clean(a) ==
  /\ at[a] = "clean"
  /\ Discard(a, dir, StageOf(a))
  /\ Go(a, "copy")
  /\ UNCHANGED << strategy, how, target, fd, before, process >>

(* The object a copy writes: what has the name, or else a new one.  A file  *)
(* is truncated, also if another attempt writes it; a tree keeps what is in *)
(* it.                                                                      *)
Opened(a) == IF Exists(StageOf(a)) THEN dir[StageOf(a)] ELSE a

Stays(a, o) == IF o # a /\ Kind(how[a]) = "dir" THEN obj[o].from ELSE {}

OpenCopy(a) ==
  /\ at[a] = "copy"
  /\ LET o == Opened(a)
         writers == {b \in obj[o].open : o # a /\ Running(b)}
     IN /\ dir' = [dir EXCEPT ![StageOf(a)] = o]
        /\ obj' = [obj EXCEPT ![o] =
                     [kind |-> Kind(how[a]),
                      from |-> {target[b] : b \in {a} \cup writers} \cup Stays(a, o),
                      open |-> {a} \cup writers]]
        /\ fd' = [fd EXCEPT ![a] = o]
  /\ Go(a, "copying")
  /\ UNCHANGED << strategy, how, target, before, stuck, process >>

FinishCopy(a) ==
  /\ at[a] = "copying"
  /\ obj' = [obj EXCEPT ![fd[a]].open = @ \ {a}]
  /\ \/ how[a] = "windows" /\ Return(a, "ok")
     \/ how[a] = "macos" /\ Go(a, "clear")
     \/ how[a] = "linux_dir" /\ Go(a, "move_aside")
     \/ how[a] = "linux_file" /\ Go(a, "move_in")
  /\ UNCHANGED << strategy, dir, how, target, fd, before, stuck, process >>

(* Disk full, an archive without the app, ...: macOS leaves what was        *)
(* copied, Linux removes it, Windows moves the old executable back over it. *)
FailCopy(a) ==
  /\ "copy" \in Faults
  /\ at[a] = "copying"
  /\ IF how[a] = "windows" THEN Go(a, "undo") ELSE Return(a, "error")
  /\ IF how[a] \in {"linux_dir", "linux_file"}
       THEN Discard(a, dir, StageOf(a)) ELSE UNCHANGED << files, stuck >>
  /\ UNCHANGED << strategy, how, target, fd, before, process >>

(* What an earlier attempt put aside goes first.                            *)
Clear(a) ==
  /\ at[a] = "clear"
  /\ Discard(a, dir, AsideOf(a))
  /\ Go(a, "move_aside")
  /\ UNCHANGED << strategy, how, target, fd, before, process >>

PutAside_Deleted(a) == Removed(dir, Root)
PutAside(a) == Moved(dir, Root, AsideOf(a))

MoveAside(a) ==
  /\ at[a] = "move_aside"
  /\ LET movable == IF Exists(Root) THEN Renames(dir, Root, AsideOf(a))
                 ELSE how[a] # "linux_dir" IN
       \/ /\ movable
          /\ dir' = IF Exists(Root) THEN PutAside(a) ELSE dir
          /\ Go(a, IF how[a] = "windows" THEN "copy" ELSE "move_in")
          /\ UNCHANGED << obj, stuck >>
       \/ /\ "rename" \in Faults \/ ~movable
          /\ Return(a, "error")
          /\ IF how[a] = "linux_dir"
               THEN Discard(a, dir, StageOf(a)) ELSE UNCHANGED << files, stuck >>
  /\ UNCHANGED << strategy, how, target, fd, before, process >>

MoveIn(a) ==
  /\ at[a] = "move_in"
  /\ \/ /\ Renames(dir, StageOf(a), Root)
        /\ dir' = Moved(dir, StageOf(a), Root)
        /\ IF how[a] = "linux_file" THEN Return(a, "ok") ELSE Go(a, "tidy")
        /\ UNCHANGED << obj, stuck >>
     \/ /\ "rename" \in Faults \/ ~Renames(dir, StageOf(a), Root)
        /\ how[a] = "linux_file"
        /\ Return(a, "error")
        /\ Discard(a, dir, StageOf(a))
     \/ /\ "rename" \in Faults \/ ~Renames(dir, StageOf(a), Root)
        /\ how[a] # "linux_file"
        /\ Go(a, "undo")
        /\ UNCHANGED << files, stuck >>
  /\ UNCHANGED << strategy, how, target, fd, before, process >>

(* The old app goes back; whether it does is not looked at.  On Windows it  *)
(* replaces what was copied.                                                *)
MovedBack_Never(a) == dir
MovedBack(a) ==
  IF Renames(dir, AsideOf(a), Root) THEN Moved(dir, AsideOf(a), Root) ELSE dir

Undo(a) ==
  /\ at[a] = "undo"
  /\ \E back \in {MovedBack(a)} \cup (IF "rollback" \in Faults THEN {dir} ELSE {}) :
       IF how[a] = "windows"
         THEN dir' = back /\ UNCHANGED << obj, stuck >>
         ELSE Discard(a, back, StageOf(a))
  /\ Return(a, "error")
  /\ UNCHANGED << strategy, how, target, fd, before, process >>

(* What of the stage is not the tree that was moved is not an app's.        *)
Tidy(a) ==
  /\ at[a] = "tidy"
  /\ Discard(a, dir, AsideOf(a))
  /\ Return(a, "ok")
  /\ UNCHANGED << strategy, how, target, fd, before, process >>

------------------------------------------------------------------------------
(* The process ends, in the middle of an attempt if it crashes, and starts  *)
(* again if there is an app to start; remove_leftovers runs at startup.     *)

Stop ==
  /\ up
  /\ (\E a \in Attempt : Running(a)) => "crash" \in Faults
  /\ up' = FALSE
  /\ last' = 0
  /\ at' = [a \in Attempt |-> IF Running(a) THEN "dead" ELSE at[a]]
  /\ UNCHANGED << strategy, files, how, target, fd, before, result, stuck, image >>

(* An app that is there to the last file may start, whatever else is in it. *)
Start ==
  /\ ~up
  /\ Exists(Root) /\ obj[dir[Root]].open = {}
  /\ up' = TRUE
  /\ image' = dir[Root]
  /\ \/ dir' = IF strategy = "windows" THEN Removed(dir, Old) ELSE dir
     \/ "remove" \in Faults /\ dir' = dir
  /\ UNCHANGED << strategy, obj, attempt >>

Next ==
  \/ \E a \in Attempt :
       \/ Begin(a)
       \/ Clean(a)
       \/ OpenCopy(a)
       \/ FinishCopy(a)
       \/ FailCopy(a)
       \/ Clear(a)
       \/ MoveAside(a)
       \/ MoveIn(a)
       \/ Undo(a)
       \/ Tidy(a)
  \/ Stop
  \/ Start

Spec == Init /\ [][Next]_vars

------------------------------------------------------------------------------
(* Properties.                                                              *)

Quiet == \A a \in Attempt : ~Running(a)

(* ditto copied into a tree that could not be removed.                      *)
Merged(a) == "clean" \in stuck[a]

(* An install that returned without an error left the whole new version at  *)
(* the install root, whatever attempts that failed or crashed before it     *)
(* left in its way, and with it files of another one only when it could not *)
(* clean the stage (macos.rs:45).  Nothing is beside it when none crashed   *)
(* and everything could be removed (linux.rs:194), but on Windows the       *)
(* executable that still runs.                                              *)
SuccessInstalls ==
  Quiet /\ last # 0 /\ result[last] = "ok" =>
    /\ Exists(Root) /\ obj[dir[Root]].open = {} /\ target[last] \in obj[dir[Root]].from
    /\ ~Merged(last) => obj[dir[Root]].from = {target[last]}
    /\ (\A a \in Attempt : at[a] # "dead" /\ stuck[a] = {}) =>
         \A n \in Name \ {Root} : Exists(n) => strategy = "windows" /\ n = Old

(* An install that failed left the app that was there, "so we never leave   *)
(* the app missing" (macos.rs:50) or "without its executable"               *)
(* (windows.rs:84).                                                         *)
FailureKeepsApp ==
  \A a \in Attempt :
    Quiet /\ last = a /\ result[a] = "error" /\ before[a] # None
      => dir[Root] = before[a]

(* Between the steps and after a crash a whole version is at the root or    *)
(* beside it: nothing is removed before something else is whole.  (The one  *)
(* exception is again an app that was copied into a stage left in its way.) *)
ACopySurvives ==
  (\A a \in Attempt : ~Merged(a)) => \E n \in Name : Whole(dir[n])

(* "Atomically replace the executable" (docs/install.md:10): a single       *)
(* executable on Linux is whole at any moment, also after a crash.          *)
ExecutableIsWhole == strategy = "linux_file" => Whole(dir[Root])

==============================================================================
