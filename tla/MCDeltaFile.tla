----------------------------- MODULE MCDeltaFile -----------------------------
(***************************************************************************)
(* DeltaFile on trees with a file or link `a`, a directory `d` and what is *)
(* in it, on single executables, and on deltas of up to three entries that *)
(* the release tools did not make.                                         *)
(***************************************************************************)
EXTENDS DeltaFile

A == << "a" >>
D == << "d" >>
B == << "d", "b" >>
Up == << ".." >>

MCOrder == << A, D, B >>
MCUnsafe == {Up}

Plain(body) == [body |-> body, hashes |-> "none"]
Image(body, hashes) == [body |-> body, hashes |-> hashes]
Exe == Plain("x")
Nothing == Plain("empty")

Absent == {NoTree}
At(path, nodes) == {Put(NoTree, path, node) : node \in nodes}
Both(S, T) ==
  {[p \in DOMAIN s \cup DOMAIN t |-> IF p \in DOMAIN s THEN s[p] ELSE t[p]] : s \in S, t \in T}
App(S, T) == Both(At(Root, {Dir("writable")}), Both(S, T))
Within(modes, S) == Both(At(D, {Dir(mode) : mode \in modes}), S)

Files(contents) == {File("writable", content) : content \in contents}

OldTrees ==
  App(Absent \cup At(A, Files({Nothing, Exe, Image("p", "right"), Image("p", "wrong")})),
      Absent \cup At(D, Files({Exe}))
        \cup Within({"writable"}, At(B, Files({Exe, Image("p", "right")}))))

NewTrees ==
  App(At(A, {Link("relative"), File("set-user-ID", Exe)}
            \cup Files({Nothing, Exe, Image("p", "right"), Image("p", "wrong"), Image("q", "right")})),
      Absent \cup At(D, Files({Exe})) \cup Within({"writable"}, At(B, {Link("absolute")}))
        \cup Within({"read-only"}, Absent \cup At(B, Files({Exe, Image("p", "right")}))))

(* A user may change a file and delete another.                             *)
Changed(tree) == [p \in DOMAIN tree |->
                    IF IsFile(tree, p) THEN File("read-only", Plain("y")) ELSE tree[p]]
Alterations(tree) ==
  {tree, Put(tree, A, File("writable", Plain("y"))), Changed(tree),
   [p \in DOMAIN tree \ {B} |-> tree[p]]}

Singles == At(Root, Files({Exe, Image("p", "right"), Image("q", "right")}))

Build(pair, tree) == [old |-> pair[1], new |-> pair[2], installed |-> tree]
MCBuilds ==
  UNION {{Build(pair, tree) : tree \in Alterations(pair[1])} : pair \in OldTrees \X NewTrees}
    \cup {Build(pair, tree) : pair \in Singles \X Singles, tree \in Singles}
    \cup {Build(pair, pair[1]) : pair \in OldTrees \X Singles}

(* Any entry, in any order.                                                 *)
Entries ==
  {[path |-> path, node |-> node, source |-> NoSource] :
     path \in {A, D, B, Up}, node \in {Dir("writable"), Link("relative"), Link("absolute")}}
    \cup
  {[path |-> path, node |-> File("writable", Exe), source |-> Add(Exe)] : path \in {Root, A, D, B, Up}}
MCForeign ==
  {[root |-> root, entries |-> list] :
     root \in {"dir", "file"}, list \in UNION {[1 .. n -> Entries] : n \in 1 .. 3}}
==============================================================================
