----------------------------- MODULE MCDeltaPlan -----------------------------
(***************************************************************************)
(* DeltaPlan on all lists of six deltas between four versions, and on the  *)
(* lists of histories published with delta_bases.                          *)
(***************************************************************************)
EXTENDS DeltaPlan, FiniteSetsExt

CONSTANTS
  Newest,       (* The newest release of a published history.             *)
  Directs,      (* The `direct` argument of delta_bases.                  *)
  Limits        (* How many deltas the client takes of such a history.    *)

MCVersion == 0 .. Newest
MCSize == 0 .. 4

Edge(from, to, size, usable) ==
  [from |-> from, to |-> to, size |-> size, usable |-> usable]

(* A delta that is there has a size or none; one that cannot be used would  *)
(* be the cheapest.                                                         *)
Offers(from, to, sizes) ==
  {Edge(from, to, 1, FALSE)} \cup {Edge(from, to, size, TRUE) : size \in sizes}

Feeds ==
  Offers(0, 1, {0, 1, 2}) \X Offers(2, 3, {0, 1}) \X Offers(1, 2, {1, 2})
    \X Offers(0, 3, {0, 3, 4}) \X Offers(1, 3, {0, 2}) \X Offers(0, 2, {1, 3})

Routes == {<< 0, 3 >>, << 0, 2 >>, << 1, 3 >>}

Call(list, from, to, full, limit) ==
  [deltas |-> list, from |-> from, to |-> to, full |-> full, limit |-> limit]

Published(direct) ==
  FoldSet(LAMBDA delta, list : Append(list, delta), << >>,
          UNION {{Edge(b, n, 1, TRUE) : b \in DeltaBases(n, direct)} : n \in 1 .. Newest})

MCInputs ==
  {Call(feed, route[1], route[2], full, limit) :
     feed \in Feeds, route \in Routes, full \in {0, 3, 4}, limit \in {2, 3}}
    \cup
  {Call(Published(direct), from, Newest, 0, limit) :
     direct \in Directs, from \in 0 .. Newest - 1, limit \in Limits}

==============================================================================
