--------------------------- MODULE UpdateLifecycle ---------------------------
(***************************************************************************)
(* What a view may rely on when it draws an `UpdateStatus`.                *)
(*                                                                         *)
(* One operation is in flight at a time.  A check ends in `UpToDate`,      *)
(* `Available` or `Errored`.  A download only starts for the release that  *)
(* the user was offered, and ends by going on to the install, by going     *)
(* back to `Available` of that release when it was cancelled, or in        *)
(* `Errored`.  An install ends with that same release `Staged`, or in      *)
(* `Errored`.  Nothing else changes the status, except that the entity may *)
(* be dropped and created anew, at any time.                               *)
(***************************************************************************)

CONSTANTS
  Version,    (* Versions a release may have.                        *)
  None        (* No version.                                         *)

VARIABLES
  status,     (* What the view reads: a tag and the version it shows. *)
  offer,      (* The release the user may install, or None.           *)
  target      (* The release in flight, or None.                      *)

vars == << status, offer, target >>

Status ==
  [tag : {"Idle", "Checking", "UpToDate", "Downloading", "Installing", "Errored"},
   version : {None}]
    \cup [tag : {"Available", "Staged"}, version : Version]

Show(tag)           == [tag |-> tag, version |-> None]
Release(tag, v)     == [tag |-> tag, version |-> v]

Busy == status.tag \in {"Checking", "Downloading", "Installing"}

TypeOK ==
  /\ status \in Status
  /\ offer \in Version \cup {None}
  /\ target \in Version \cup {None}

Init ==
  /\ status = Show("Idle")
  /\ offer = None
  /\ target = None

StartCheck ==
  /\ ~Busy
  /\ status' = Show("Checking")
  /\ UNCHANGED << offer, target >>

(* A check that found something newer replaces the offer; any other check  *)
(* keeps it.                                                               *)
EndCheck ==
  /\ status.tag = "Checking"
  /\ \/ \E v \in Version : status' = Release("Available", v) /\ offer' = v
     \/ status' \in {Show("UpToDate"), Show("Errored")} /\ offer' = offer
  /\ UNCHANGED target

StartDownload ==
  /\ ~Busy
  /\ offer # None
  /\ status' = Show("Downloading")
  /\ target' = offer
  /\ UNCHANGED offer

EndDownload ==
  /\ status.tag = "Downloading"
  /\ \/ status' = Show("Installing") /\ target' = target
     \/ status' = Release("Available", target) /\ target' = None
     \/ status' = Show("Errored") /\ target' = None
  /\ UNCHANGED offer

EndInstall ==
  /\ status.tag = "Installing"
  /\ status' \in {Release("Staged", target), Show("Errored")}
  /\ target' = None
  /\ UNCHANGED offer

Anew ==
  /\ status' = Show("Idle")
  /\ offer' = None
  /\ target' = None

Next ==
  \/ StartCheck
  \/ EndCheck
  \/ StartDownload
  \/ EndDownload
  \/ EndInstall
  \/ Anew

(* An operation that was started ends.                                     *)
Spec ==
  /\ Init
  /\ [][Next]_vars
  /\ WF_vars(EndCheck)
  /\ WF_vars(EndDownload)
  /\ WF_vars(EndInstall)

==============================================================================
