------------------------------ MODULE Ownership ------------------------------
(***************************************************************************)
(* install::ownership: who keeps the installed app up to date              *)
(* (crates/gpui-updater-core/src/install/ownership.rs).                    *)
(*                                                                         *)
(* What the app's surroundings say is a record.  A path is what by_path    *)
(* recognises in it; the spelling of the locations is left out, and so are *)
(* the package names and the commands shown to the user.                   *)
(*                                                                         *)
(* An operator whose name has an underscore and a capital after it is its  *)
(* namesake with a mistake in it; nothing uses it.                         *)
(***************************************************************************)
EXTENDS Naturals, Sequences, SequencesExt

Locations ==
  << "nix", "snap", "flatpak", "homebrew", "scoop", "chocolatey", "winget", "store" >>

Tools == << "apt", "rpm", "pacman" >>

Managers == Range(Locations) \cup Range(Tools) \cup {"appstore"}

(* The install root as it is named, and with its links resolved.            *)
Names == << "root", "canonical" >>

(* A tool's answer for one name: one package that owns it, several, one     *)
(* that is removed but for its configuration, nobody, or nothing in time.   *)
(* (Only dpkg keeps a removed package: of another tool it is no answer.)    *)
Answer == {"owner", "shared", "removed", "nobody", "late"}

Surroundings ==
  [explained : BOOLEAN,                               (* OwnershipHints    *)
   query : BOOLEAN,                                   (* OwnershipHints    *)
   location : [Range(Names) -> SUBSET Range(Locations)],
   receipt : BOOLEAN,                                 (* _MASReceipt       *)
   cask : BOOLEAN,                                    (* links back to it  *)
   answers : [Range(Names) -> [Range(Tools) -> Answer]]]

(* The first of a list, in its order, that is one of some; "self" if none.  *)
FirstOf(list, some) ==
  IF \E i \in DOMAIN list : list[i] \in some
    THEN list[CHOOSE i \in DOMAIN list :
                list[i] \in some /\ \A j \in 1 .. i - 1 : list[j] \notin some]
    ELSE "self"

by_path(app, name) == FirstOf(Locations, app.location[name])

(* single_name takes the first of the packages that rpm or pacman lists.    *)
(* dpkg_owner takes several that share a path for none, and its package     *)
(* counts only while its status is `installed`.                             *)
NamesOwner(tool, answer) ==
  \/ answer = "owner"
  \/ answer = "shared" /\ tool # "apt"

queried(app, name) ==
  FirstOf(Tools, {t \in Range(Tools) : NamesOwner(t, app.answers[name][t])})

(* Either name may be the one that a manager knows.                         *)
Either(named, resolved) == IF named # "self" THEN named ELSE resolved

located(app) == Either(by_path(app, "root"), by_path(app, "canonical"))

package_database_Named(app) == IF app.query THEN queried(app, "root") ELSE "self"
package_database(app) ==
  IF app.query THEN Either(queried(app, "root"), queried(app, "canonical")) ELSE "self"

ownership(app) ==
  IF app.explained THEN "packager"
  ELSE IF located(app) # "self" THEN located(app)
  ELSE IF app.receipt THEN "appstore"
  ELSE IF app.cask THEN "homebrew"
  ELSE package_database(app)

(* The tools that know a package for a name, going by their answers.        *)
Answerers(answers) ==
  {IF t = "apt" /\ answers[t] = "shared" THEN "sharers" ELSE t :
     t \in {u \in Range(Tools) : answers[u] \in {"owner", "shared"}}}

(* Everyone who says the app is theirs; several dpkg packages that say so   *)
(* together are "sharers".                                                  *)
Claimants(app) ==
  (UNION {app.location[n] : n \in Range(Names)})
    \cup (IF app.receipt THEN {"appstore"} ELSE {})
    \cup (IF app.cask THEN {"homebrew"} ELSE {})
    \cup (IF app.query THEN UNION {Answerers(app.answers[n]) : n \in Range(Names)} ELSE {})
==============================================================================
