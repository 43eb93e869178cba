--------------------------- MODULE MCEngineDownload ---------------------------
(***************************************************************************)
(* An instance of EngineInstall for TLC: three releases, so that the       *)
(* newest is reached by one delta or by a chain of two; surroundings with  *)
(* one or two claims on the app; and a platform for each way to install.   *)
(***************************************************************************)
EXTENDS EngineInstall

Versions == 1 .. 3

Leftovers == { {}, {2, 3} }

(* Nobody claims the app, or what a location, a receipt, a cask or one      *)
(* query says of one of its names does.                                     *)
Unclaimed ==
  [explained |-> FALSE, query |-> TRUE,
   location |-> [n \in Range(Names) |-> {}],
   receipt |-> FALSE, cask |-> FALSE,
   answers |-> [n \in Range(Names) |-> [t \in Range(Tools) |-> "nobody"]]]

Located ==
  {[Unclaimed EXCEPT !.location[n] = {m}] : n \in Range(Names), m \in Range(Locations)}

Bundled ==
  {[Unclaimed EXCEPT !.receipt = r, !.cask = c, !.query = q, !.explained = e] :
     r, c, q, e \in BOOLEAN}

Queried ==
  {[app EXCEPT !.answers[n][t] = answer] :
     app \in Bundled, n \in Range(Names), t \in Range(Tools), answer \in Answer}

Sites == Located \cup Bundled \cup Queried

Policed(skips, signing, version, state) ==
  [skips |-> skips, signing |-> signing, version |-> version, installed |-> state]

Careful == Policed(FALSE, "match", "must", "signed")

SomePolicies ==
  { Careful,
    Policed(FALSE, "match", "must", "unsigned"),
    Policed(FALSE, "match", "ignore", "unreadable"),
    Policed(FALSE, "named", "ignore", "absent"),
    Policed(TRUE, "off", "must", "signed") }

Ours(intact, declares) == [signer |-> Us, intact |-> intact, declares |-> declares]

SomeApps ==
  { Ours(TRUE, TRUE), Ours(TRUE, FALSE), Ours(FALSE, TRUE),
    [signer |-> Them, intact |-> TRUE, declares |-> TRUE] }

Shaped(os, root, asset) == [os |-> os, root |-> root, asset |-> asset]

Disk == Shaped("macos", "bundle", "dmg")

SomeShapes ==
  { Disk,
    Shaped("linux", "file", "tar"),
    Shaped("windows", "exe", "exe"),
    Shaped("windows", "exe", "msi"),
    Shaped("windows", "exe", "zip"),
    Shaped("windows", "dir", "exe") }

Configured(where, form, how, what) ==
  [place |-> where, shape |-> form, policy |-> how, payload |-> what]

(* The place and the payload are asked about one after the other and        *)
(* neither answer depends on the other: each varies while the other does not*)
Configurations ==
  {Configured(where, form, Careful, Ours(TRUE, TRUE)) : where \in Place, form \in SomeShapes}
  \cup
  {Configured("writable", form, how, what) :
     form \in SomeShapes, how \in SomePolicies, what \in SomeApps}
==============================================================================
