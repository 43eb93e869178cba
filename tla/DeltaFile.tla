------------------------------ MODULE DeltaFile ------------------------------
(***************************************************************************)
(* A delta file, from the release that makes it to the app that applies it *)
(* (crates/gpui-updater-core/src/delta/create.rs and apply.rs,             *)
(* crates/gpui-updater-release/src/native_delta.rs).                       *)
(*                                                                         *)
(* The release makes a delta from an old tree to a new one and, unless it  *)
(* is told not to, applies it to the old tree and compares.  The app then  *)
(* applies it to what is installed.  `apply` writes one entry at a time.   *)
(* An app may also be handed a delta the release tools did not make.       *)
(*                                                                         *)
(* Abstracted: a tree maps paths to nodes.  A content is a body and, in a  *)
(* signed Mach-O image, whether its page hashes are those of its pages; a  *)
(* SHA-256 is the content itself.  A patch gives the content it was made   *)
(* for when it is applied to the content it was made from, anything        *)
(* otherwise; which of a patch and the compressed file is smaller is open. *)
(* Names that are not UTF-8 and special files, which creation refuses, are *)
(* left out, as are systems without permission bits.  A link leads nowhere *)
(* in the tree: that a file is read through a link to a directory, when    *)
(* creation looks for what an old build had at a path (create.rs:313) and  *)
(* application for what is installed there (apply.rs:340), is left out.    *)
(*                                                                         *)
(* An operator whose name has an underscore is its namesake with a mistake *)
(* in it; no action uses it.                                               *)
(***************************************************************************)
EXTENDS Naturals, Sequences, FiniteSets

CONSTANTS
  Order,        (* All paths but the root, as `walk` sorts them.           *)
  Body,         (* What files hold; "empty" holds nothing.                 *)
  Unsafe,       (* Paths with a component that is no plain name.           *)
  Builds,       (* The old build, the new one, and what is installed.      *)
  Foreign       (* Deltas the release tools did not make.                  *)

Root == << >>
Path == {Root} \cup {Order[i] : i \in 1 .. Len(Order)} \cup Unsafe

(* Mach-O page hashes; "none" in a file that is no signed image.            *)
Hashes == {"none", "right", "wrong", "zeroed"}
Content == [body : Body \cup {"none", "garbage"}, hashes : Hashes]
NoContent == [body |-> "none", hashes |-> "none"]
Garbage == [body |-> "garbage", hashes |-> "none"]

(* Nodes.  A set-user-ID bit is the one that is not recreated.              *)
Mode == {"writable", "read-only", "set-user-ID"}
Target == {"relative", "absolute"}
Dir(mode) == [kind |-> "dir", mode |-> mode, target |-> "none", content |-> NoContent]
Link(target) == [kind |-> "link", mode |-> "writable", target |-> target, content |-> NoContent]
File(mode, content) ==
  [kind |-> "file", mode |-> mode, target |-> "none", content |-> content]
Node == {Dir(mode) : mode \in Mode} \cup {Link(target) : target \in Target}
          \cup {File(mode, content) : mode \in Mode, content \in Content}

NoTree == [p \in {} |-> Dir("writable")]
IsFile(tree, path) == path \in DOMAIN tree /\ tree[path].kind = "file"
Put(tree, path, node) == [p \in DOMAIN tree \cup {path} |-> IF p = path THEN node ELSE tree[p]]
Parent(path) == SubSeq(path, 1, Len(path) - 1)

(* A directory stands before what is in it.                                 *)
Before(p, q) == \E i, j \in 1 .. Len(Order) : i < j /\ Order[i] = p /\ Order[j] = q
ASSUME OrderAssumption ==
  /\ Order \in Seq(Seq(STRING)) /\ Unsafe \subseteq Seq(STRING) /\ Root \notin Unsafe
  /\ \A i \in 1 .. Len(Order) : Order[i] # Root /\ Order[i] \notin Unsafe
  /\ \A i, j \in 1 .. Len(Order) : Order[i] \in {Order[j], Parent(Order[j])} => i <= j

(* What a build is: a directory that can be written to, or a single file.   *)
Tree(tree) ==
  /\ IsFiniteSet(DOMAIN tree) /\ Root \in DOMAIN tree /\ DOMAIN tree \cap Unsafe = {}
  /\ DOMAIN tree \subseteq Path /\ tree \in [DOMAIN tree -> Node]
  /\ tree[Root] = Dir("writable") \/ (tree[Root].kind = "file" /\ DOMAIN tree = {Root})
  /\ \A p \in DOMAIN tree \ {Root} : Parent(p) \in DOMAIN tree /\ tree[Parent(p)].kind = "dir"
ASSUME BuildsAssumption ==
  \A build \in Builds : Tree(build.old) /\ Tree(build.new) /\ Tree(build.installed)

------------------------------------------------------------------------------
(* macho::normalize, which answers None for another file, and restore.      *)
Normalizes(content) == content.hashes # "none"
Normalized(content) ==
  IF Normalizes(content) THEN [body |-> content.body, hashes |-> "zeroed"] ELSE content
Restored(content) ==
  IF Normalizes(content) THEN [body |-> content.body, hashes |-> "right"] ELSE content

(* Sources.  `from` and `to` are what the blob of a patch was made from and *)
(* for; `blob` is whether the blob lies within the file.                    *)
Op == {"none", "copy", "patch", "add"}
Source ==
  [op : Op, base : Path, base_sha256 : Content, from : Content, to : Content,
   transform : BOOLEAN, blob : BOOLEAN]
NoSource ==
  [op |-> "none", base |-> Root, base_sha256 |-> NoContent, from |-> NoContent,
   to |-> NoContent, transform |-> FALSE, blob |-> TRUE]
Copy(base, content) ==
  [op |-> "copy", base |-> base, base_sha256 |-> content, from |-> NoContent,
   to |-> NoContent, transform |-> FALSE, blob |-> TRUE]
Add(content) ==
  [op |-> "add", base |-> Root, base_sha256 |-> NoContent, from |-> NoContent,
   to |-> content, transform |-> FALSE, blob |-> TRUE]

(* patch_blob: images are diffed without their page hashes if these can be  *)
(* computed from the new image.                                             *)
Transforms_Signed(new) == Normalizes(new)
Transforms(new) == Normalizes(new) /\ Restored(Normalized(new)) = new
Patch(base, old, new) ==
  [op |-> "patch", base |-> base, base_sha256 |-> old,
   from |-> IF Transforms(new) THEN Normalized(old) ELSE old,
   to |-> IF Transforms(new) THEN Normalized(new) ELSE new,
   transform |-> Transforms(new), blob |-> TRUE]

(* Paths of the tree in the order they are listed (the only such sequence). *)
Listed(tree) == IF IsFile(tree, Root) THEN {Root} ELSE DOMAIN tree \ {Root}
Walks(tree) ==
  {walk \in [1 .. Cardinality(Listed(tree)) -> Listed(tree)] :
     /\ \A p \in Listed(tree) : \E i \in DOMAIN walk : walk[i] = p
     /\ \A i, j \in DOMAIN walk : i < j => Before(walk[i], walk[j])}

(* index_by_hash: the first old file with a content.  A single file has no  *)
(* index.                                                                   *)
Twins(old, content) ==
  {p \in DOMAIN old \ {Root} : IsFile(old, p) /\ old[p].content = content}
Firsts(paths) == {p \in paths : \A q \in paths \ {p} : Before(p, q)}

(* choose: the sources a file may get.                                      *)
Unchanged(old, new, path) == IsFile(old, path) /\ old[path].content = new[path].content
Patchable(old, new, path) ==
  IsFile(old, path) /\ "empty" \notin {old[path].content.body, new[path].content.body}
Choices(old, new, path) ==
  LET content == new[path].content IN
  IF Unchanged(old, new, path) THEN {Copy(path, content)}
  ELSE IF Twins(old, content) # {} THEN {Copy(p, content) : p \in Firsts(Twins(old, content))}
  ELSE {Add(content)} \cup
       IF Patchable(old, new, path) THEN {Patch(path, old[path].content, content)} ELSE {}

(* An entry of the header: a node, and where a file comes from.             *)
Entry == [path : Path, node : Node, source : Source]
ASSUME ForeignAssumption ==
  \A header \in Foreign : header.root \in {"dir", "file"} /\ header.entries \in Seq(Entry)
EntryOf(new, path, source) == [path |-> path, node |-> new[path], source |-> source]
Sources(old, new, path) == IF IsFile(new, path) THEN Choices(old, new, path) ELSE {NoSource}

SameKind(old, new) == IsFile(old, Root) = IsFile(new, Root)

(* The deltas `create` may make.                                            *)
Selections(old, new) ==
  {choice \in [DOMAIN new -> UNION {Sources(old, new, p) : p \in DOMAIN new}] :
     \A p \in DOMAIN new : choice[p] \in Sources(old, new, p)}
Deltas(old, new) ==
  {[root |-> new[Root].kind,
    entries |-> [i \in DOMAIN walk |-> EntryOf(new, walk[i], choice[walk[i]])]] :
   walk \in Walks(new), choice \in Selections(old, new)}

------------------------------------------------------------------------------
VARIABLES
  old, new,     (* The builds the delta is made from.                      *)
  installed,    (* What the app finds at its install root.                 *)
  delta,        (* The delta file.                                         *)
  origin,       (* Who made it: "release" or "foreign".                    *)
  verified,     (* The release has applied it to the old build.            *)
  damaged,      (* What of it was damaged on the way to the app.           *)
  who,          (* Who applies it: "release" or "app".                     *)
  pc,           (* What is done next.                                      *)
  place,        (* The entry written next.                                 *)
  before, out,  (* What is at the output path, at first and now.           *)
  escaped,      (* Something was written elsewhere.                        *)
  faulted,      (* What the system has failed of the app's: "nothing", a   *)
                (* "call", or the "removal" of what it had written.        *)
  result        (* What `apply` returned.                                  *)

builds == << old, new, installed >>
vars == << builds, delta, origin, verified, damaged, who, pc, place, before, out,
           escaped, faulted, result >>

Bare == Put(NoTree, Root, Dir("writable"))
Occupied == Put(NoTree, Root, File("writable", Garbage))
NoDelta == [root |-> "dir", entries |-> << >>]
entries == delta.entries
base == IF who = "release" THEN old ELSE installed

Init ==
  /\ \/ /\ \E build \in Builds :
             old = build.old /\ new = build.new /\ installed = build.installed
        /\ origin = "release" /\ delta = NoDelta /\ pc = "make" /\ who = "release"
     \/ /\ old = Bare /\ new = Bare /\ installed = Bare
        /\ origin = "foreign" /\ delta \in Foreign /\ pc = "start" /\ who = "app"
  /\ verified = FALSE /\ damaged = "nothing"
  /\ place = 1
  /\ before = NoTree /\ out = NoTree
  /\ escaped = FALSE /\ faulted = "nothing"
  /\ result = "none"

(* create.  It fails when one build is a file and the other a directory.    *)
Make ==
  /\ pc = "make"
  /\ IF SameKind(old, new)
       THEN delta' \in Deltas(old, new) /\ pc' \in {"start", "ship"} /\ UNCHANGED result
       ELSE pc' = "ended" /\ result' = "error" /\ UNCHANGED delta
  /\ UNCHANGED << builds, origin, verified, damaged, who, place, before, out, escaped, faulted >>

(* validate.                                                                *)
CheckRel(root, path) == IF root = "file" THEN path = Root ELSE path # Root /\ path \notin Unsafe
CheckSource(root, source) ==
  /\ source.op \in {"copy", "patch"} => CheckRel(root, source.base)
  /\ source.blob
ParentListed_AnyKind(list, i) ==
  Len(list[i].path) > 1 => \E j \in 1 .. i - 1 : list[j].path = Parent(list[i].path)
ParentListed(list, i) ==
  Len(list[i].path) > 1 =>
    \E j \in 1 .. i - 1 : list[j].node.kind = "dir" /\ list[j].path = Parent(list[i].path)
Valid(header) ==
  LET list == header.entries IN
  IF header.root = "file"
    THEN /\ Len(list) = 1
         /\ list[1].path = Root /\ list[1].node.kind = "file"
         /\ CheckSource("file", list[1].source)
    ELSE \A i \in 1 .. Len(list) :
           /\ CheckRel("dir", list[i].path)
           /\ \A j \in 1 .. i - 1 : list[j].path # list[i].path
           /\ ParentListed(list, i)
           /\ list[i].node.kind = "link" => list[i].node.target = "relative"
           /\ list[i].node.kind = "file" => CheckSource("dir", list[i].source)

(* apply.  What fails before anything is written leaves the output path as  *)
(* it was.                                                                  *)
Start ==
  /\ pc = "start"
  /\ IF out # NoTree \/ ~Valid(delta)
       THEN pc' = "ended" /\ result' = "error" /\ UNCHANGED out
       ELSE /\ pc' = "write"
            /\ out' = IF delta.root = "dir" THEN Put(out, Root, Dir("writable")) ELSE out
            /\ UNCHANGED result
  /\ place' = 1
  /\ UNCHANGED << builds, delta, origin, verified, damaged, who, before, escaped, faulted >>

(* produce.                                                                 *)
BaseFits(source) ==
  source.op # "add" =>
    IsFile(base, source.base) /\ base[source.base].content = source.base_sha256
Patched(source) ==
  LET content == source.base_sha256
      start == IF source.transform THEN Normalized(content) ELSE content
      data == IF start = source.from THEN source.to ELSE Garbage IN
  IF source.transform THEN Restored(data) ELSE data
Produced(source) ==
  IF source.op = "copy" THEN source.base_sha256
  ELSE IF source.op = "patch" THEN Patched(source)
  ELSE source.to
Rebuilt_Unhashed(entry) == BaseFits(entry.source)
Rebuilt(entry) == BaseFits(entry.source) /\ Produced(entry.source) = entry.node.content

(* set_mode never recreates a set-user-ID bit.                              *)
ModeSet(mode) == IF mode = "set-user-ID" THEN "writable" ELSE mode
Written(entry) ==
  IF entry.node.kind = "dir" THEN Dir("writable")
  ELSE IF entry.node.kind = "link" THEN entry.node
  ELSE File(ModeSet(entry.node.mode), Produced(entry.source))

Accepts(path) == path \in DOMAIN out /\ out[path].kind = "dir" /\ out[path].mode # "read-only"
CanPlace(path) == path \notin DOMAIN out /\ (path = Root \/ Accepts(Parent(path)))
Leads(path) ==
  \/ path \in Unsafe
  \/ path # Root /\ Parent(path) \in DOMAIN out /\ out[Parent(path)].kind = "link"

Write ==
  /\ pc = "write" /\ place <= Len(entries)
  /\ LET entry == entries[place] IN
       IF (entry.node.kind = "file" /\ ~Rebuilt(entry)) \/ ~CanPlace(entry.path)
         THEN pc' = "clean" /\ UNCHANGED << out, place >>
         ELSE /\ out' = Put(out, entry.path, Written(entry))
              /\ place' = place + 1
              /\ UNCHANGED pc
  /\ escaped' = (escaped \/ Leads(entries[place].path))
  /\ UNCHANGED << builds, delta, origin, verified, damaged, who, before, faulted, result >>

WriteEnds ==
  /\ pc = "write" /\ place > Len(entries)
  /\ pc' = "modes" /\ place' = Len(entries)
  /\ UNCHANGED << builds, delta, origin, verified, damaged, who, before, out, escaped,
                  faulted, result >>

(* Directories get their modes last, from the end of the list.              *)
SetMode ==
  /\ pc = "modes" /\ place > 0
  /\ LET entry == entries[place] IN
       out' = IF entry.node.kind = "dir"
                THEN Put(out, entry.path, Dir(ModeSet(entry.node.mode))) ELSE out
  /\ place' = place - 1
  /\ UNCHANGED << builds, delta, origin, verified, damaged, who, pc, before, escaped,
                  faulted, result >>

Finish ==
  /\ pc = "modes" /\ place = 0
  /\ pc' = "ended" /\ result' = "ok"
  /\ UNCHANGED << builds, delta, origin, verified, damaged, who, place, before, out,
                  escaped, faulted >>

(* The system fails a call, maybe after a file was created.                 *)
Fault ==
  /\ pc \in {"write", "modes"} /\ who = "app"
  /\ \/ UNCHANGED out
     \/ /\ pc = "write" /\ place <= Len(entries)
        /\ entries[place].node.kind = "file" /\ CanPlace(entries[place].path)
        /\ out' = Put(out, entries[place].path, File("writable", Garbage))
  /\ pc' = "clean" /\ faulted' = "call"
  /\ UNCHANGED << builds, delta, origin, verified, damaged, who, place, before, escaped, result >>

(* What remove_dir_all leaves: what is in a directory that is read-only.    *)
Undeletable(tree) ==
  {p \in DOMAIN tree : \E q \in DOMAIN tree :
     /\ Len(p) <= Len(q) /\ SubSeq(q, 1, Len(p)) = p
     /\ q # Root /\ tree[Parent(q)].mode = "read-only"}
Removed(tree) == [p \in Undeletable(tree) |-> tree[p]]
MadeWritable(tree) ==
  [p \in DOMAIN tree |-> IF tree[p].kind = "dir" THEN Dir("writable") ELSE tree[p]]
Cleaned(tree) == Removed(MadeWritable(tree))

(* Nobody looks at whether the removal failed.                              *)
Clean ==
  /\ pc = "clean"
  /\ \/ out' = Cleaned(out) /\ UNCHANGED faulted
     \/ out' = MadeWritable(out) /\ who = "app" /\ faulted' = "removal"
  /\ pc' = "ended" /\ result' = "error"
  /\ UNCHANGED << builds, delta, origin, verified, damaged, who, place, before, escaped >>

(* native_delta::verify: of a file only the content is compared.            *)
SameTree(a, b) == IF IsFile(b, Root) THEN a[Root].content = b[Root].content ELSE a = b

Verify ==
  /\ pc = "ended" /\ who = "release" /\ result = "ok"
  /\ IF SameTree(out, new) THEN pc' = "ship" /\ verified' = TRUE
     ELSE pc' = "rejected" /\ UNCHANGED verified
  /\ out' = NoTree /\ result' = "none"
  /\ UNCHANGED << builds, delta, origin, damaged, who, place, before, escaped, faulted >>

(* The app gets the delta, which may be damaged.  A blob reads otherwise,   *)
(* or the file is cut short.                                                *)
Damaged(entry) ==
  {[path |-> entry.path, node |-> entry.node, source |-> source] :
     source \in {[entry.source EXCEPT !.to = Garbage], [entry.source EXCEPT !.blob = FALSE]}}
BlobDamage(header) ==
  UNION {{[root |-> header.root, entries |-> [header.entries EXCEPT ![i] = entry]] :
            entry \in Damaged(header.entries[i])} :
         i \in {i \in DOMAIN header.entries : header.entries[i].source.op \in {"patch", "add"}}}

(* Or a field of the header does, which has no checksum of its own: the     *)
(* kind of the root, or a path, a mode, a link target, a hash, the file to  *)
(* start from or its transform.  What does not parse is turned down like    *)
(* what is not valid.                                                       *)
MisreadNodes(node) ==
  {other \in {Dir(mode) : mode \in Mode} \cup {Link(target) : target \in Target}
              \cup {File(mode, node.content) : mode \in Mode} \cup {File(node.mode, Garbage)} :
     other.kind = node.kind}
MisreadSources(source) ==
  {[source EXCEPT !.base = path] : path \in Path}
    \cup {[source EXCEPT !.base_sha256 = Garbage], [source EXCEPT !.transform = ~source.transform]}
Misread(entry) ==
  {[path |-> path, node |-> entry.node, source |-> entry.source] : path \in Path}
    \cup {[path |-> entry.path, node |-> node, source |-> entry.source] :
            node \in MisreadNodes(entry.node)}
    \cup {[path |-> entry.path, node |-> entry.node, source |-> source] :
            source \in MisreadSources(entry.source)}
HeaderDamage(header) ==
  {[root |-> root, entries |-> header.entries] : root \in {"dir", "file"}}
    \cup UNION {{[root |-> header.root, entries |-> [header.entries EXCEPT ![i] = entry]] :
                   entry \in Misread(header.entries[i])} : i \in DOMAIN header.entries}

(* Something may be at its output path.                                     *)
Ship ==
  /\ pc = "ship"
  /\ \/ UNCHANGED << delta, damaged >>
     \/ delta' \in BlobDamage(delta) /\ damaged' = "blob"
     \/ delta' \in HeaderDamage(delta) \ {delta} /\ damaged' = "header"
  /\ before' \in {NoTree, Occupied} /\ out' = before'
  /\ who' = "app" /\ pc' = "start"
  /\ UNCHANGED << builds, origin, verified, place, escaped, faulted, result >>

Next ==
  \/ Make \/ Start \/ Write \/ WriteEnds \/ SetMode \/ Finish \/ Fault \/ Clean
  \/ Verify \/ Ship

Spec == Init /\ [][Next]_vars

------------------------------------------------------------------------------
(* Properties.                                                              *)

Applied == who = "app" /\ pc = "ended"

(* "a modified installation is rejected instead of being patched into a     *)
(* broken one, and a corrupt delta never produces an unverified file"       *)
(* (delta.rs:32).  When `apply` succeeds, whatever was installed, the tree  *)
(* is the one the header lists, no more and no less, and each file has the  *)
(* content the header records.  With the release's header it is the new     *)
(* build, set-user-ID bits aside, however the blobs were damaged.  With a   *)
(* field of the header damaged, a path, a mode or a link target may be      *)
(* wrong, but no file holds what no file of the new build does.             *)
Recreated(node) ==
  IF node.kind = "dir" THEN Dir(ModeSet(node.mode))
  ELSE IF node.kind = "link" THEN node
  ELSE File(ModeSet(node.mode), node.content)
Expected(tree) == [p \in DOMAIN tree |-> Recreated(tree[p])]
Lists(header, tree) ==
  /\ DOMAIN tree = {header.entries[i].path : i \in DOMAIN header.entries}
                     \cup (IF header.root = "dir" THEN {Root} ELSE {})
  /\ \A i \in DOMAIN header.entries :
       tree[header.entries[i].path] = Recreated(header.entries[i].node)
Genuine(tree) ==
  \A p \in DOMAIN tree : IsFile(tree, p) =>
    \E q \in DOMAIN new : IsFile(new, q) /\ tree[p].content = new[q].content
Rebuilds ==
  Applied /\ result = "ok" =>
    /\ Lists(delta, out)
    /\ origin = "release" => Genuine(out) /\ (damaged # "header" => out = Expected(new))

(* "Create a delta that rebuilds `new` from `old`" (create.rs:50): a delta  *)
(* applies to every installation whose files are those of the old build,    *)
(* whatever else is in it, if the release verified it or the new build has  *)
(* no absolute link, and verification turns no other delta down but one     *)
(* with a set-user-ID bit.  Without this a delta saves nothing.             *)
Portable(tree) == \A p \in DOMAIN tree : tree[p].target # "absolute"
Serves == \A p \in DOMAIN old : IsFile(old, p) =>
            IsFile(installed, p) /\ installed[p].content = old[p].content
DeltasApply ==
  /\ /\ pc = "ended" /\ origin = "release" /\ SameKind(old, new)
     /\ verified \/ Portable(new)
     /\ who = "app" => Serves /\ before = NoTree /\ damaged = "nothing" /\ faulted = "nothing"
     => result = "ok"
  /\ pc = "rejected" => \E p \in DOMAIN new : new[p].mode = "set-user-ID"

(* "Reject headers that could write outside `out`" (apply.rs:128): no entry *)
(* of any delta is written through a link or an unsafe path.  "On any error *)
(* the partial output is removed" (apply.rs:38) unless the system fails     *)
(* that, and what was at the output path before is not touched.             *)
TouchesOutputOnly ==
  /\ ~escaped
  /\ pc = "ended" /\ result = "error" =>
       IF faulted = "removal" THEN before = NoTree ELSE out = before

==============================================================================
