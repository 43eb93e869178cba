---------------------------- MODULE AppcastSource ----------------------------
(***************************************************************************)
(* A Sparkle appcast as gpui-updater-release writes it                     *)
(* (crates/gpui-updater-release/src/appcast.rs) and as AppcastSource reads *)
(* it (crates/gpui-updater-core/src/source/appcast.rs, appcast/feed.rs,    *)
(* appcast/host.rs): which item, and which enclosure of it, a client picks.*)
(*                                                                         *)
(* Versions and system versions are numbers: only their order matters.     *)
(* `Bad` is a text that is no version.                                     *)
(*                                                                         *)
(* An operator whose name has an underscore is its namesake with a mistake *)
(* in it; no definition uses it.  The properties are checked to notice it. *)
(***************************************************************************)
EXTENDS Integers, Sequences

CONSTANTS Version, None, Bad

(* What the builders of AppcastItem and Enclosure can say.  `bundle` is     *)
(* sparkle:version and `short` sparkle:shortVersionString; `sum` is the     *)
(* checksum attribute only other tools write.                               *)
Enclosure == [os : {None, "macos", "windows", "windows-x64", "linux"},
              signed : BOOLEAN, sum : BOOLEAN]

AppcastItem ==
  [bundle : Version \union {Bad}, short : Version \union {None, Bad},
   channel : {None, "beta"}, arm64 : BOOLEAN,
   minimum_system : Version \union {None}, maximum_system : Version \union {None},
   minimum_update : Version \union {None},
   informational : {"never", "always", "below"},
   enclosures : Seq(Enclosure)]

(* render: an element for every field that is set.  The writer has no       *)
(* attribute for a checksum.                                                *)
Rendered(item) ==
  [item EXCEPT !.enclosures =
     [i \in DOMAIN item.enclosures |-> [item.enclosures[i] EXCEPT !.sum = FALSE]]]

(* parse: sparkle:informationalUpdate counts when it is there, whatever it  *)
(* holds; sparkle:minimumUpdateVersion is not read.                         *)
ReadItem(xml) ==
  [bundle |-> xml.bundle, short |-> xml.short,
   channel |-> xml.channel, arm64 |-> xml.arm64,
   minimum_system |-> xml.minimum_system, maximum_system |-> xml.maximum_system,
   informational |-> xml.informational # "never",
   enclosures |-> xml.enclosures]

(* OsMatcher: values of sparkle:os in the order they are preferred, and the *)
(* rank of an enclosure without one; 0: not for this platform.              *)
ForPlatform ==
  [macos   |-> [preferred |-> << "macos" >>, missing |-> 1],
   windows |-> [preferred |-> << "windows-x64", "windows" >>, missing |-> 3],
   linux   |-> [preferred |-> << "linux-x64", "linux" >>, missing |-> 0]]

Client ==
  [os : DOMAIN ForPlatform, channels : SUBSET {"beta"}, arm64 : BOOLEAN,
   system : Version \union {None}, field : {"short", "bundle"}]

Rank(client, e) ==
  LET matcher == ForPlatform[client.os]
      places  == {k \in DOMAIN matcher.preferred : matcher.preferred[k] = e.os}
  IN  IF e.os = None THEN matcher.missing
      ELSE IF places = {} THEN 0 ELSE CHOOSE k \in places : TRUE

(* The enclosures for this client, and the first of those with the best     *)
(* rank.                                                                    *)
Ranked(client, enclosures) ==
  {i \in DOMAIN enclosures : Rank(client, enclosures[i]) # 0}
Precedes(client, enclosures, i, j) ==
  LET ri == Rank(client, enclosures[i])
      rj == Rank(client, enclosures[j])
  IN  ri < rj \/ (ri = rj /\ i <= j)
BestEnclosure(client, enclosures) ==
  CHOOSE i \in Ranked(client, enclosures) :
    \A j \in Ranked(client, enclosures) : Precedes(client, enclosures, i, j)

(* AppcastVersion::resolve: a version that is there and unreadable is not   *)
(* replaced by the other field.                                             *)
Resolve(field, item) ==
  IF field = "short" /\ item.short # None THEN item.short ELSE item.bundle

Applies(item, client) ==
  /\ ~item.informational
  /\ item.channel # None => item.channel \in client.channels
  /\ item.arm64 => client.arm64
  /\ client.system # None =>
       /\ item.minimum_system # None => client.system >= item.minimum_system
       /\ item.maximum_system # None => client.system <= item.maximum_system

(* candidate: whether an item offers a release, and which.                  *)
Offers(item, client) ==
  /\ Applies(item, client)
  /\ Ranked(client, item.enclosures) # {}
  /\ Resolve(client.field, item) # Bad
Candidate(item, client) ==
  LET enclosure == item.enclosures[BestEnclosure(client, item.enclosures)]
  IN  [error |-> None,
       version |-> Resolve(client.field, item),
       asset |-> enclosure,
       published |-> [sum |-> IF enclosure.sum THEN "inline" ELSE "none",
                      minisign |-> "none",
                      ed25519 |-> enclosure.signed],
       deltas |-> {}]

(* select: the place of the newest candidate, the first of equals, among    *)
(* the first n items; 0 while there is none.                                *)
Newer_Last(items, client, best, n) == IF Offers(items[n], client) THEN n ELSE best
Newer(items, client, best, n) ==
  IF /\ Offers(items[n], client)
     /\ \/ best = 0
        \/ Resolve(client.field, items[n]) > Resolve(client.field, items[best])
  THEN n ELSE best

Newest(items, client) ==
  LET newest[n \in 0 .. Len(items)] ==
        IF n = 0 THEN 0 ELSE Newer(items, client, newest[n - 1], n)
  IN  newest[Len(items)]

Select(items, client) ==
  IF Newest(items, client) = 0 THEN [error |-> "no asset"]
  ELSE Candidate(items[Newest(items, client)], client)

FetchLatest(feed, client) ==
  Select([i \in DOMAIN feed |-> ReadItem(feed[i])], client)

==============================================================================
