---------------------------- MODULE SparkleUpdater ----------------------------
(***************************************************************************)
(* The `Updater` entity with a driver as its backend, and the Sparkle      *)
(* driver of crates/gpui-updater-sparkle behind it.                        *)
(*                                                                         *)
(* The driver calls Sparkle; Sparkle answers later, from its own run loop  *)
(* turns, through the delegate, which turns each callback into events.     *)
(* Events go through an unbounded channel, and a foreground task (the      *)
(* pump) applies them to the entity one by one.  Everything runs on the    *)
(* main thread, but the calls of the app, the callbacks and the pump       *)
(* interleave, so the entity lags behind Sparkle.                          *)
(*                                                                         *)
(* Sparkle itself is not in the repository.  A session of it is modelled   *)
(* as far as the driver relies on it: the order in which it makes its      *)
(* callbacks, with which errors a session may end, and that a session      *)
(* starts only when none is in progress (SparkleDriver's documentation of  *)
(* can_check_for_updates).                                                 *)
(*                                                                         *)
(* Abstracted: a release is its version, or Unordered when its version     *)
(* cannot be parsed; error messages and kinds; cancel, which this driver   *)
(* leaves to the trait's default, doing nothing.                           *)
(*                                                                         *)
(* An operator whose name has an underscore is its namesake with a mistake *)
(* in it; no action uses it.                                               *)
(***************************************************************************)
EXTENDS Naturals, Sequences

CONSTANTS
  Version,      (* Versions that can be parsed.                           *)
  None,         (* No version.                                            *)
  Unordered,    (* The version of an item whose version does not parse.   *)
  Policies,     (* StagedUpdatePolicy: which of them are considered.      *)
  MaxQueue      (* Bound: events that wait in the channel.                *)

ASSUME ValueAssumption == None \notin Version /\ Unordered \notin Version \cup {None}
ASSUME PolicyAssumption == Policies \subseteq {"SparklePrompts", "HostRelaunches"}
ASSUME QueueAssumption == MaxQueue \in Nat \ {0, 1}

VARIABLES
  policy,       (* SparkleOptions::staged_updates.                        *)
  alive,        (* The entity, and with it the driver and the pump, exist.*)
  status,       (* Updater::status.                                       *)
  available,    (* Updater::available.                                    *)
  queue,        (* Events emitted and not yet applied.                    *)
  block,        (* Ivars::install_now: the version its block installs.    *)
  session,      (* How far Sparkle's session is.                          *)
  item,         (* What the current or last session found, or None.       *)
  staged,       (* The update Sparkle installs on quit, or None.          *)
  outcome,      (* What the last session came to.                         *)
  answer        (* The release the feed last offered, None if withdrawn.  *)

entity == << alive, status, available >>
sparkle == << session, item, staged, outcome, answer >>
vars == << policy, entity, queue, block, sparkle >>

Item == Version \cup {Unordered}

Show(tag)       == [tag |-> tag, version |-> None]
Release(tag, v) == [tag |-> tag, version |-> v]

Status ==
  [tag : {"Idle", "Checking", "UpToDate", "Downloading", "Installing", "Errored"},
   version : {None}]
    \cup [tag : {"Available", "Staged"}, version : Version]

Event ==
  [tag : {"Checking", "UpToDate", "Downloading", "Installing", "Failed", "Settled"},
   version : {None}]
    \cup [tag : {"Found", "ReadyToRelaunch"}, version : Version]

Busy == status.tag \in {"Checking", "Downloading", "Installing"}

(* `absent`: Sparkle could not create its updater.  `unstarted`: it did but *)
(* failed to start it.  `ready`: it asks the user to install and relaunch.  *)
(* `nothing`, `cancelled` and `held` are between the callback that says so  *)
(* and the one that ends the session.                                       *)
Session ==
  {"absent", "unstarted", "idle", "checking", "nothing", "found", "downloading",
   "cancelled", "extracting", "ready", "installing", "held"}

Outcome == {"none", "failed", "nothing", "staged", "declined"}

TypeOK ==
  /\ policy \in Policies
  /\ alive \in BOOLEAN
  /\ status \in Status
  /\ available \in Version \cup {None}
  /\ queue \in Seq(Event) /\ Len(queue) <= MaxQueue
  /\ block \in Item \cup {None}
  /\ session \in Session
  /\ item \in Item \cup {None}
  /\ staged \in Item \cup {None}
  /\ outcome \in Outcome
  /\ answer \in Version \cup {None}

Init ==
  /\ policy \in Policies
  /\ alive = FALSE
  /\ status = Show("Idle")
  /\ available = None
  /\ queue = << >>
  /\ block = None
  /\ session = "idle"
  /\ item = None
  /\ staged = None
  /\ outcome = "none"
  /\ answer = None

Emit(events) ==
  Len(queue) + Len(events) <= MaxQueue /\ queue' = queue \o events

(* item::release: an item whose version does not parse reports nothing.     *)
Report(tag, i) == IF i = Unordered THEN << >> ELSE << Release(tag, i) >>

------------------------------------------------------------------------------
(* The app's calls.                                                         *)

(* with_driver starts the driver before the pump exists; what the driver    *)
(* says meanwhile waits in the channel.                                     *)
WithDriver ==
  /\ ~alive
  /\ alive' = TRUE
  /\ status' = Show("Idle")
  /\ available' = None
  /\ block' = None
  /\ item' = None
  /\ answer' = None
  /\ \/ session' = "idle" /\ outcome' = "none" /\ queue' = << >>
     \/ /\ session' \in {"absent", "unstarted"}
        /\ outcome' = "failed"
        /\ queue' = << Show("Failed") >>
  /\ UNCHANGED << policy, staged >>

CanCheckForUpdates == session = "idle"

(* SPUUpdater checkForUpdates: a new session, or the current one's window   *)
(* brought to the front.                                                    *)
CheckForUpdates ==
  /\ session' = IF session = "idle" THEN "checking" ELSE session
  /\ item' = IF session = "idle" THEN None ELSE item
  /\ UNCHANGED << staged, outcome, answer >>

Check_Always ==
  /\ alive
  /\ session # "absent"
  /\ Emit(<< Show("Checking") >>)
  /\ CheckForUpdates
  /\ UNCHANGED << policy, entity, block >>
Check ==
  /\ alive
  /\ session # "absent"
  /\ Emit(IF CanCheckForUpdates THEN << Show("Checking") >> ELSE << >>)
  /\ CheckForUpdates
  /\ UNCHANGED << policy, entity, block >>

DownloadAndInstall ==
  /\ alive
  /\ session # "absent"
  /\ CheckForUpdates
  /\ UNCHANGED << policy, entity, queue, block >>

(* The block stays kept after it was called.                                *)
Restart ==
  /\ alive
  /\ session # "absent"
  /\ \/ /\ block # None
        /\ session' = IF session = "idle" THEN "ready" ELSE session
        /\ item' = IF session = "idle" THEN None ELSE item
        /\ UNCHANGED << staged, outcome, answer >>
     \/ block = None /\ CheckForUpdates
  /\ UNCHANGED << policy, entity, queue, block >>

(* Dropping the entity drops the driver, the delegate, and the pump.        *)
Drop ==
  /\ alive
  /\ alive' = FALSE
  /\ queue' = << >>
  /\ block' = None
  /\ session' = "idle"
  /\ outcome' = "none"
  /\ UNCHANGED << policy, status, available, item, staged, answer >>

------------------------------------------------------------------------------
(* The pump: apply_driver_event.                                            *)

Settled_Always ==
  IF available = None THEN Show("Idle") ELSE Release("Available", available)
Settled ==
  IF ~Busy THEN status
  ELSE IF available = None THEN Show("Idle") ELSE Release("Available", available)

AvailableAfter_Kept(event) ==
  IF event.tag = "Found" THEN event.version ELSE available
AvailableAfter(event) ==
  IF event.tag = "UpToDate" THEN None
  ELSE IF event.tag = "Found" THEN event.version ELSE available

StatusAfter(event) ==
  IF event.tag = "Settled" THEN Settled
  ELSE IF event.tag = "Found" THEN Release("Available", event.version)
  ELSE IF event.tag = "ReadyToRelaunch" THEN Release("Staged", event.version)
  ELSE IF event.tag = "Failed" THEN Show("Errored")
  ELSE Show(event.tag)

Pump ==
  /\ alive
  /\ queue # << >>
  /\ status' = StatusAfter(Head(queue))
  /\ available' = AvailableAfter(Head(queue))
  /\ queue' = Tail(queue)
  /\ UNCHANGED << policy, alive, block, sparkle >>

------------------------------------------------------------------------------
(* Sparkle's callbacks and the delegate's answers.  The delegate only emits *)
(* events and keeps the block; the entity is not touched.                   *)

(* A scheduled check, check_in_background or check_for_update_information.  *)
CheckInBackground ==
  /\ alive
  /\ session = "idle"
  /\ CheckForUpdates
  /\ UNCHANGED << policy, entity, queue, block >>

DidFindValidUpdate(i) ==
  /\ session = "checking"
  /\ session' = "found"
  /\ item' = i
  /\ answer' = IF i = Unordered THEN answer ELSE i
  /\ Emit(Report("Found", i))
  /\ UNCHANGED << policy, entity, block, staged, outcome >>

DidNotFindUpdate ==
  /\ session = "checking"
  /\ session' = "nothing"
  /\ answer' = None
  /\ Emit(<< Show("UpToDate") >>)
  /\ UNCHANGED << policy, entity, block, item, staged, outcome >>

WillDownloadUpdate ==
  /\ session = "found"
  /\ session' = "downloading"
  /\ Emit(<< Show("Downloading") >>)
  /\ UNCHANGED << policy, entity, block, item, staged, outcome, answer >>

UserDidCancelDownload ==
  /\ session = "downloading"
  /\ session' = "cancelled"
  /\ Emit(<< Show("Settled") >>)
  /\ UNCHANGED << policy, entity, block, item, staged, outcome, answer >>

WillExtractUpdate ==
  /\ session = "downloading"
  /\ session' = "extracting"
  /\ Emit(<< Show("Installing") >>)
  /\ UNCHANGED << policy, entity, block, item, staged, outcome, answer >>

(* Sparkle asks the user to relaunch: after extracting, or, with no callback *)
(* at all, when a session resumes an update that is already staged.         *)
AskToRelaunch ==
  /\ session = "extracting" \/ (session = "checking" /\ staged # None)
  /\ session' = "ready"
  /\ UNCHANGED << policy, entity, queue, block, item, staged, outcome, answer >>

WillInstallUpdate ==
  /\ session = "ready"
  /\ session' = "installing"
  /\ Emit(<< Show("Installing") >>)
  /\ UNCHANGED << policy, entity, block, item, staged, outcome, answer >>

KeepBlock_First ==
  block' = IF policy = "HostRelaunches" /\ block = None THEN item ELSE block
KeepBlock ==
  block' = IF policy = "HostRelaunches" THEN item ELSE block

WillInstallUpdateOnQuit ==
  /\ session = "extracting"
  /\ session' = "held"
  /\ staged' = item
  /\ Emit(Report("ReadyToRelaunch", item))
  /\ KeepBlock
  /\ UNCHANGED << policy, entity, item, outcome, answer >>

(* outcome::classify.                                                       *)
Disposition(error) ==
  IF error = "user" THEN << Show("Settled") >>
  ELSE IF error = "failure" THEN << Show("Failed") >>
  ELSE << >>

(* The errors a session may end with: `user` stands for the codes 1008,     *)
(* 4007 and 4008, `failure` for all that classify calls a failure.          *)
Error == {"none", "user", "failure", "no_update"}

Endings ==
  ({"checking", "installing"} \X {"user", "failure"})
    \cup ({"downloading", "extracting"} \X {"failure"})
    \cup ({"cancelled", "ready"} \X {"none", "user"})
    \cup ({"nothing"} \X {"none", "no_update"})
    \cup ({"found", "held"} \X {"none"})

(* didFinishUpdateCycleForUpdateCheck reports the error, then Settled.      *)
DidFinishUpdateCycle(error) ==
  /\ << session, error >> \in Endings
  /\ session' = "idle"
  /\ outcome' = IF error = "failure" THEN "failed"
                ELSE IF session = "nothing" THEN "nothing"
                ELSE IF session = "held" THEN "staged" ELSE "declined"
  /\ Emit(Disposition(error) \o << Show("Settled") >>)
  /\ UNCHANGED << policy, entity, block, item, staged, answer >>

(* The installation is done: the app is quit, and started again updated.    *)
Quit ==
  /\ session = "installing"
  /\ alive' = FALSE
  /\ queue' = << >>
  /\ block' = None
  /\ session' = "idle"
  /\ staged' = None
  /\ outcome' = "none"
  /\ UNCHANGED << policy, status, available, item, answer >>

(* Sparkle's own work, which goes on without the user.                      *)
Work ==
  \/ \E i \in Item : DidFindValidUpdate(i)
  \/ DidNotFindUpdate
  \/ WillExtractUpdate
  \/ AskToRelaunch
  \/ WillInstallUpdateOnQuit
  \/ Quit
  \/ /\ session \notin {"found", "ready"}
     /\ \E error \in Error : DidFinishUpdateCycle(error)

Next ==
  \/ WithDriver
  \/ Check
  \/ DownloadAndInstall
  \/ Restart
  \/ Drop
  \/ Pump
  \/ CheckInBackground
  \/ WillDownloadUpdate
  \/ UserDidCancelDownload
  \/ WillInstallUpdate
  \/ \E i \in Item : DidFindValidUpdate(i)
  \/ DidNotFindUpdate
  \/ WillExtractUpdate
  \/ AskToRelaunch
  \/ WillInstallUpdateOnQuit
  \/ \E error \in Error : DidFinishUpdateCycle(error)
  \/ Quit

Spec == Init /\ [][Next]_vars

FairSpec == Spec /\ WF_vars(Pump) /\ WF_vars(Work)

------------------------------------------------------------------------------
(* When Sparkle's session is over and every event has been applied, the     *)
(* view shows what the session came to: a failure, nothing new, a staged    *)
(* update, or the offer it declined.  The `Settled` that ends every session *)
(* must not paint over it, and must not leave the view busy.                *)
Quiet == alive /\ session \in {"absent", "unstarted", "idle"} /\ queue = << >>

OutcomeIsShown ==
  Quiet =>
    /\ ~Busy
    /\ outcome = "failed" => status = Show("Errored")
    /\ outcome = "nothing" => status = Show("UpToDate")
    /\ item \in Version =>
         /\ outcome = "staged" => status = Release("Staged", item)
         /\ outcome = "declined" => status = Release("Available", item)

(* Once its events are applied, the release the user is offered is the one  *)
(* the feed spoke of last: after Sparkle said that there is nothing, no     *)
(* earlier release comes back, not even when a later session is declined.   *)
OfferIsLastAnswer ==
  alive /\ queue = << >> =>
    /\ available = answer
    /\ status.tag = "Available" => status.version = answer

(* "Relaunch into the update the driver last reported with ReadyToRelaunch" *)
(* (driver.rs:51): when the app offers the relaunch itself, and the view    *)
(* shows an update as staged or has yet to show one, `restart` installs the *)
(* update reported last.  That is the one on screen, or one whose event is  *)
(* still on its way.  (An update whose version does not parse is never      *)
(* reported; its block may only replace that of another when the event that *)
(* takes the other off the screen is on its way.)                           *)
Reported(k) == IF k = 0 THEN status.tag = "Staged" ELSE queue[k].tag = "ReadyToRelaunch"
ReportAt(k) == IF k = 0 THEN status.version ELSE queue[k].version

HostCanRelaunch ==
  policy = "HostRelaunches" /\ alive =>
    \A k \in 0 .. Len(queue) :
      LET later == k + 1 .. Len(queue) IN
      Reported(k) /\ (\A j \in later : ~Reported(j)) =>
        \/ block = ReportAt(k)
        \/ block = Unordered /\ \E j \in later : queue[j].tag = "Downloading"

(* The view is not busy for ever: the operation ends, or Sparkle asks the   *)
(* user, which is the one thing it waits for (an item whose version does    *)
(* not parse is asked about while the view still shows the check).          *)
AsksUser == session = "ready" \/ (session = "found" /\ item = Unordered)

BusyEnds == Busy ~> (~Busy \/ AsksUser \/ ~alive)

==============================================================================
