------------------------------ MODULE DeltaPlan ------------------------------
(***************************************************************************)
(* Which deltas to publish and which to download                           *)
(* (crates/gpui-updater-core/src/delta/plan.rs).                           *)
(*                                                                         *)
(* `cheapest` is Bellman-Ford in rounds: `layer` holds, by version, the    *)
(* best chain found that ends there after exactly `round` deltas, and each *)
(* round extends it delta by delta, in the order of the release's list.    *)
(* An action is one turn of the inner loop, the end of a round, or what    *)
(* follows the loops.                                                      *)
(*                                                                         *)
(* `chains` and `arrived` are not in the code: they collect every chain    *)
(* there is, round by round, for the properties to compare with.           *)
(*                                                                         *)
(* Abstracted: versions are numbers; whether a delta has the right format  *)
(* and passes the caller's filter is one flag.  Sums of sizes are taken to *)
(* fit in 64 bits, as sizes of files do.                                   *)
(*                                                                         *)
(* An operator whose name has an underscore is its namesake with a mistake *)
(* in it; no action uses it.                                               *)
(***************************************************************************)
EXTENDS Naturals, Sequences

CONSTANTS
  Version,      (* Versions of releases; larger is newer.                 *)
  Size,         (* Sizes in bytes a delta or an artifact may have; 0 is   *)
                (* unknown.                                               *)
  Inputs        (* What `cheapest` is called with.                        *)

Delta == [from : Version, to : Version, size : Size, usable : BOOLEAN]

ASSUME VersionAssumption == Version \subseteq Nat
ASSUME SizeAssumption == Size \subseteq Nat

Input == [deltas : Seq(Delta), from : Version, to : Version,
          full : Size, limit : Nat]

ASSUME InputsAssumption == Inputs \subseteq Input

VARIABLES
  input,        (* The arguments.                                         *)
  stage,        (* Where the computation is.                              *)
  round,        (* Rounds completed.                                      *)
  at,           (* The delta the inner loop looks at next.                *)
  layer,        (* Best chains of `round` deltas, by the version they end *)
                (* at: a partial function, as the map is.                 *)
  next,         (* The same for the round in progress.                    *)
  best,         (* The best chain that arrives, or NoChain.               *)
  plan,         (* The deltas to download: their places in the list.      *)
  chains,       (* All chains of `round` deltas.                          *)
  arrived       (* All chains that arrive within `round` deltas.          *)

plan_vars == << input, stage, round, at, layer, next, best, plan, chains, arrived >>

deltas == input.deltas

Chain(cost, path) == [cost |-> cost, path |-> path]
NoChain == Chain(0, << >>)
NoChains == [v \in {} |-> NoChain]

(* The deltas that move forward within the route.                           *)
Edges ==
  {i \in DOMAIN deltas :
     /\ deltas[i].usable
     /\ input.from <= deltas[i].from
     /\ deltas[i].from < deltas[i].to
     /\ deltas[i].to <= input.to}

(* An unknown size ranks as that of the full artifact, and as 1 when that   *)
(* is unknown too.                                                          *)
CostOf_Free(i) == deltas[i].size
CostOf(i) ==
  IF deltas[i].size > 0 THEN deltas[i].size
  ELSE IF input.full > 0 THEN input.full ELSE 1

Better(a, b) ==
  a.cost < b.cost \/ (a.cost = b.cost /\ Len(a.path) < Len(b.path))

Known(path) == \A k \in DOMAIN path : deltas[path[k]].size > 0

------------------------------------------------------------------------------
(* delta_bases: release n ships deltas from the `direct` newest releases    *)
(* before it, and from those 2, 4, 8, ... back.                             *)

Doubled[k \in Nat] == IF k = 0 THEN 1 ELSE 2 * Doubled[k - 1]

DeltaBases_DirectOnly(n, direct) == {n - s : s \in {s \in 1 .. n : s <= direct}}
DeltaBases(n, direct) ==
  {n - s : s \in {s \in 1 .. n :
    s <= direct \/ (s > direct /\ \E k \in 1 .. n : s = Doubled[k])}}

------------------------------------------------------------------------------
PlanInit ==
  /\ input \in Inputs
  /\ stage = IF input.limit = 0 THEN "decide" ELSE "extend"
  /\ round = 0
  /\ at = 1
  /\ layer = [v \in {input.from} |-> NoChain]
  /\ next = NoChains
  /\ best = NoChain
  /\ plan = << >>
  /\ chains = {[to |-> input.from, cost |-> 0, known |-> TRUE]}
  /\ arrived = {}

Inserted(map, v, chain) ==
  [u \in DOMAIN map \cup {v} |-> IF u = v THEN chain ELSE map[u]]

Candidate(i) ==
  Chain(layer[deltas[i].from].cost + CostOf(i),
        Append(layer[deltas[i].from].path, i))

Reaches(i) == i \in Edges /\ deltas[i].from \in DOMAIN layer

Improves(i) ==
  \/ deltas[i].to \notin DOMAIN next
  \/ Better(Candidate(i), next[deltas[i].to])

Extend ==
  /\ stage = "extend"
  /\ at \in DOMAIN deltas
  /\ next' = IF Reaches(at) /\ Improves(at)
             THEN Inserted(next, deltas[at].to, Candidate(at))
             ELSE next
  /\ at' = at + 1
  /\ UNCHANGED << input, stage, round, layer, best, plan, chains, arrived >>

(* Every chain of one delta more.                                           *)
Longer(cs) ==
  {[to    |-> deltas[p[2]].to,
    cost  |-> p[1].cost + CostOf(p[2]),
    known |-> p[1].known /\ deltas[p[2]].size > 0] :
     p \in {q \in cs \X Edges : deltas[q[2]].from = q[1].to}}

Arrivals(cs, hops) ==
  {[cost |-> c.cost, hops |-> hops, known |-> c.known] :
     c \in {d \in cs : d.to = input.to}}

Best ==
  IF input.to \in DOMAIN next /\ (best = NoChain \/ Better(next[input.to], best))
  THEN next[input.to] ELSE best

LastRound_Late(r) == r > input.limit
LastRound(r) == r = input.limit

EndRound ==
  /\ stage = "extend"
  /\ at \notin DOMAIN deltas
  /\ at' = 1
  /\ best' = Best
  /\ IF DOMAIN next = {}
     THEN /\ stage' = "decide"
          /\ UNCHANGED << round, layer, chains, arrived >>
     ELSE /\ stage' = IF LastRound(round + 1) THEN "decide" ELSE "extend"
          /\ round' = round + 1
          /\ layer' = next
          /\ chains' = Longer(chains)
          /\ arrived' = arrived \cup Arrivals(Longer(chains), round + 1)
  /\ next' = NoChains
  /\ UNCHANGED << input, plan >>

(* When all sizes are known, the cost of a chain is the bytes it downloads. *)
Pays(chain) ==
  ~(input.full > 0 /\ Known(chain.path) /\ chain.cost >= input.full)

Decide ==
  /\ stage = "decide"
  /\ stage' = "done"
  /\ plan' = IF Pays(best) THEN best.path ELSE << >>
  /\ UNCHANGED << input, round, at, layer, next, best, chains, arrived >>

PlanNext ==
  \/ Extend
  \/ EndRound
  \/ Decide

PlanSpec == PlanInit /\ [][PlanNext]_plan_vars

------------------------------------------------------------------------------
ChainType == [cost : Nat, path : Seq(Nat)]

TypeOK ==
  /\ input \in Input
  /\ stage \in {"extend", "decide", "done"}
  /\ round \in 0 .. input.limit
  /\ at \in 1 .. Len(deltas) + 1
  /\ DOMAIN layer \subseteq Version /\ layer \in [DOMAIN layer -> ChainType]
  /\ DOMAIN next \subseteq Version /\ next \in [DOMAIN next -> ChainType]
  /\ best \in ChainType
  /\ plan \in Seq(Nat)
  /\ chains \subseteq [to : Version, cost : Nat, known : BOOLEAN]
  /\ arrived \subseteq [cost : Nat, hops : Nat, known : BOOLEAN]

(* The planned deltas can be applied one after the other: the first to the  *)
(* installed version, each to what the one before it makes, and the last    *)
(* makes the version wanted; all are usable, and no more than allowed.      *)
Connects(path, v) ==
  /\ \A k \in DOMAIN path : path[k] \in Edges
  /\ Len(path) <= input.limit
  /\ deltas[path[1]].from = input.from
  /\ \A k \in 1 .. Len(path) - 1 : deltas[path[k]].to = deltas[path[k + 1]].from
  /\ deltas[path[Len(path)]].to = v

PlanConnects == plan # << >> => Connects(plan, input.to)

(* No chain within the limit costs less than the one found, and none that   *)
(* costs the same is shorter; and the search ends early only when there     *)
(* are no longer chains.                                                    *)
BestIsCheapest ==
  stage \in {"decide", "done"} =>
    /\ \A c \in arrived :
         /\ best # NoChain
         /\ best.cost <= c.cost
         /\ best.cost = c.cost => Len(best.path) <= c.hops
    /\ round < input.limit => Longer(chains) = {}

(* No byte is wasted: when some chain is known to be smaller than the full  *)
(* artifact, the plan is a chain of known size no larger than it; and a     *)
(* plan of known size is always smaller than the full artifact.             *)
PlanSavesBytes ==
  stage = "done" =>
    /\ \A c \in arrived :
         c.known /\ c.cost < input.full =>
           plan # << >> /\ Known(plan) /\ best.cost <= c.cost
    /\ plan # << >> /\ Known(plan) /\ input.full > 0 => best.cost < input.full

(* Every release after the installed one was published with delta_bases.   *)
ShipsBases(direct) ==
  \A n \in input.from + 1 .. input.to : \A b \in DeltaBases(n, direct) :
    b >= input.from => \E i \in Edges : deltas[i].from = b /\ deltas[i].to = n

SameCost == \A i, j \in Edges : CostOf(i) = CostOf(j)

Gap == input.to - input.from

(* The doc of delta_bases: when every release was published that way, with  *)
(* at least one direct delta, a user d releases behind reaches the newest   *)
(* in at most log2(d) + 1 deltas.  If no delta is larger than another, that *)
(* is what the search finds, if it may take that many.                      *)
GapIsShort ==
  stage = "done" /\ SameCost /\ input.from < input.to =>
    \A direct \in 1 .. input.to :
      ShipsBases(direct) /\ Gap < Doubled[input.limit] =>
        /\ best # NoChain
        /\ Len(best.path) > 1 => Doubled[Len(best.path) - 1] <= Gap
        /\ input.full = 0 => plan = best.path

==============================================================================
