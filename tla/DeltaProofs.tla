----------------------------- MODULE DeltaProofs -----------------------------
(***************************************************************************)
(* Delta updates, for all values of the constants.                         *)
(*                                                                         *)
(* Planning: the planned deltas can be applied one after the other, no     *)
(* other chain of them is cheaper, and they are downloaded only when that  *)
(* saves bytes.  The argument is the one behind Bellman-Ford.  The inner   *)
(* loop keeps, for the deltas it has looked at, a chain at least as cheap  *)
(* as any of `round` + 1 deltas that ends with one of them; when it has    *)
(* looked at all, that is every such chain.                                *)
(* A publisher who follows delta_bases leaves a short chain: its last delta *)
(* bridges the largest power of two, and what remains is shorter than that. *)
(*                                                                         *)
(* Applying: whatever trees a delta is made from and however it is         *)
(* damaged, nothing is written outside the output, what comes out is the   *)
(* new build, and what the release tools made applies.  The invariant says *)
(* where the delta comes from, and what part of the listed tree is written *)
(* when an entry is next.                                                  *)
(***************************************************************************)
EXTENDS DeltaPlan, DeltaFile, FiniteSetTheorems, SequenceTheorems, NaturalsInduction,
        WellFoundedInduction, TLAPS

------------------------------------------------------------------------------
(* Planning (DeltaPlan).                                                   *)

(* A chain of n deltas from the installed version to v.                     *)
PathTo(path, v, n) ==
  /\ path \in Seq(Nat)
  /\ Len(path) = n
  /\ \A k \in 1 .. n : path[k] \in Edges
  /\ n > 0 => deltas[path[1]].from = input.from /\ deltas[path[n]].to = v
  /\ n = 0 => v = input.from
  /\ \A k \in 1 .. n - 1 : deltas[path[k]].to = deltas[path[k + 1]].from

(* A chain with a delta of unknown size costs what the full artifact does.  *)
Ranked(chain) == Known(chain.path) \/ input.full <= chain.cost

(* What the maps hold are chains of the right length.                       *)
Sound(map, n) ==
  \A v \in DOMAIN map : PathTo(map[v].path, v, n) /\ Ranked(map[v])

BestSound ==
  best # NoChain =>
    /\ Len(best.path) \in 1 .. round
    /\ PathTo(best.path, input.to, Len(best.path))
    /\ Ranked(best)

(* The maps hold the cheapest.                                              *)
LayerCheapest ==
  \A c \in chains : c.to \in DOMAIN layer /\ layer[c.to].cost <= c.cost

NextCheapest ==
  \A c \in chains, i \in Edges :
    i < at /\ deltas[i].from = c.to =>
      /\ deltas[i].to \in DOMAIN next
      /\ next[deltas[i].to].cost <= c.cost + CostOf(i)

BestCheapest ==
  \A c \in arrived :
    /\ best # NoChain
    /\ best.cost <= c.cost
    /\ best.cost = c.cost => Len(best.path) <= c.hops

Control ==
  /\ stage = "extend" => round < input.limit
  /\ stage # "extend" => round = input.limit \/ Longer(chains) = {}
  /\ stage # "done" => plan = << >>
  /\ stage = "done" => plan = IF Pays(best) THEN best.path ELSE << >>

PlanInv ==
  /\ TypeOK
  /\ Sound(layer, round)
  /\ stage = "extend" => Sound(next, round + 1) /\ NextCheapest
  /\ BestSound
  /\ LayerCheapest
  /\ BestCheapest
  /\ Control

------------------------------------------------------------------------------
(* The arguments' types, spelled out.                                       *)
LEMMA InputFacts ==
  ASSUME input \in Input
  PROVE  /\ deltas \in Seq(Delta) /\ Len(deltas) \in Nat
         /\ DOMAIN deltas = 1 .. Len(deltas)
         /\ input.from \in Nat /\ input.to \in Nat
         /\ input.from \in Version /\ input.to \in Version
         /\ input.full \in Nat /\ input.limit \in Nat
         /\ \A i \in DOMAIN deltas :
              /\ deltas[i].from \in Version /\ deltas[i].from \in Nat
              /\ deltas[i].to \in Version /\ deltas[i].to \in Nat
              /\ deltas[i].size \in Nat
  <1>1. deltas \in Seq(Delta)
    BY DEF deltas, Input
  <1>2. Len(deltas) \in Nat /\ DOMAIN deltas = 1 .. Len(deltas)
    BY <1>1
  <1>3. \A i \in DOMAIN deltas : deltas[i] \in Delta
    BY <1>1, <1>2
  <1>4. \A i \in DOMAIN deltas :
          /\ deltas[i].from \in Version /\ deltas[i].from \in Nat
          /\ deltas[i].to \in Version /\ deltas[i].to \in Nat
          /\ deltas[i].size \in Nat
    BY <1>3, VersionAssumption, SizeAssumption DEF Delta
  <1>5. /\ input.from \in Version /\ input.to \in Version
        /\ input.from \in Nat /\ input.to \in Nat
        /\ input.full \in Nat /\ input.limit \in Nat
    BY VersionAssumption, SizeAssumption DEF Input
  <1> QED BY <1>1, <1>2, <1>4, <1>5

(* What a delta that `delta_plan` keeps as an edge is known to satisfy.     *)
LEMMA EdgeFacts ==
  ASSUME input \in Input, NEW i \in Edges
  PROVE  /\ i \in DOMAIN deltas /\ i \in Nat
         /\ CostOf(i) \in Nat /\ CostOf(i) > 0
         /\ deltas[i].size = 0 => input.full <= CostOf(i)
         /\ deltas[i].to \in Version /\ deltas[i].from \in Version
  <1>1. i \in DOMAIN deltas
    BY DEF Edges
  <1> QED BY <1>1, InputFacts DEF CostOf

(* The initial state.                                                       *)
LEMMA InitInv == PlanInit => PlanInv
<1> SUFFICES ASSUME PlanInit PROVE PlanInv
  OBVIOUS
<1>1. input \in Input
  BY InputsAssumption DEF PlanInit
<1> USE InputFacts, <1>1
<1>2. NoChain.cost = 0 /\ NoChain.path = << >> /\ NoChain \in ChainType
  BY DEF NoChain, Chain, ChainType
<1>3. DOMAIN layer = {input.from} /\ layer[input.from] = NoChain /\ DOMAIN next = {}
  BY DEF PlanInit, NoChains
<1>4. TypeOK
  <2>1. round \in 0 .. input.limit /\ at \in 1 .. Len(deltas) + 1
    BY DEF PlanInit
  <2>2. layer \in [DOMAIN layer -> ChainType] /\ next \in [DOMAIN next -> ChainType]
    BY <1>2, <1>3 DEF PlanInit, NoChains
  <2>3. chains \subseteq [to : Version, cost : Nat, known : BOOLEAN]
    BY DEF PlanInit
  <2> QED BY <1>1, <1>2, <1>3, <2>1, <2>2, <2>3 DEF PlanInit, TypeOK
<1>5. Sound(layer, round)
  <2>1. PathTo(NoChain.path, input.from, 0)
    BY <1>2 DEF PathTo
  <2>2. Known(NoChain.path)
    BY <1>2 DEF Known
  <2> QED BY <1>3, <2>1, <2>2 DEF Sound, Ranked, PlanInit
<1>6. Sound(next, round + 1) /\ NextCheapest
  <2>1. \A i \in Edges : ~(i < at)
    BY EdgeFacts DEF PlanInit, Edges
  <2> QED BY <1>3, <2>1 DEF Sound, NextCheapest
<1>7. LayerCheapest
  BY <1>2, <1>3 DEF PlanInit, LayerCheapest
<1>8. BestSound /\ BestCheapest
  BY DEF PlanInit, BestSound, BestCheapest
<1>9. Control
  BY DEF PlanInit, Control
<1> QED BY <1>4, <1>5, <1>6, <1>7, <1>8, <1>9 DEF PlanInv

(* Appending an edge that starts where a path ends makes a longer path.     *)
LEMMA PathAppend ==
  ASSUME input \in Input, NEW n \in Nat, NEW path, NEW i \in Edges,
         PathTo(path, deltas[i].from, n)
  PROVE  PathTo(Append(path, i), deltas[i].to, n + 1)
<1> DEFINE longer == Append(path, i)
<1>1. i \in Nat
  BY EdgeFacts
<1>2. longer \in Seq(Nat) /\ Len(longer) = n + 1
  BY <1>1 DEF PathTo
<1>3. longer[n + 1] = i /\ \A k \in 1 .. n : longer[k] = path[k]
  BY <1>1 DEF PathTo
<1>4. \A k \in 1 .. n + 1 : longer[k] \in Edges
  <2> SUFFICES ASSUME NEW k \in 1 .. n + 1 PROVE longer[k] \in Edges
    OBVIOUS
  <2>1. k \in 1 .. n \/ k = n + 1
    OBVIOUS
  <2> QED BY <2>1, <1>3 DEF PathTo
<1>5. deltas[longer[1]].from = input.from
  <2>1. CASE n = 0
    BY <2>1, <1>3 DEF PathTo
  <2>2. CASE n > 0
    <3>1. longer[1] = path[1]
      BY <2>2, <1>3
    <3> QED BY <2>2, <3>1 DEF PathTo
  <2> QED BY <2>1, <2>2
<1>6. \A k \in 1 .. n : deltas[longer[k]].to = deltas[longer[k + 1]].from
  <2> SUFFICES ASSUME NEW k \in 1 .. n
               PROVE  deltas[longer[k]].to = deltas[longer[k + 1]].from
    OBVIOUS
  <2>1. CASE k = n
    BY <2>1, <1>3 DEF PathTo
  <2>2. CASE k # n
    <3>1. k \in 1 .. n - 1 /\ k + 1 \in 1 .. n
      BY <2>2
    <3>2. longer[k] = path[k] /\ longer[k + 1] = path[k + 1]
      BY <3>1, <1>3
    <3> QED BY <3>1, <3>2 DEF PathTo
  <2> QED BY <2>1, <2>2
<1> HIDE DEF longer
<1>7. PathTo(longer, deltas[i].to, n + 1)
  BY <1>2, <1>3, <1>4, <1>5, <1>6 DEF PathTo
<1> QED BY <1>7 DEF longer

(* ... and one of known size when both are.                                 *)
LEMMA KnownAppend ==
  ASSUME NEW path \in Seq(Nat), NEW i \in Nat, Known(path), deltas[i].size > 0
  PROVE  Known(Append(path, i))
<1>1. /\ Len(path) \in Nat /\ DOMAIN path = 1 .. Len(path)
      /\ DOMAIN Append(path, i) = 1 .. Len(path) + 1
      /\ Append(path, i)[Len(path) + 1] = i
      /\ \A k \in 1 .. Len(path) : Append(path, i)[k] = path[k]
  OBVIOUS
<1> SUFFICES ASSUME NEW k \in 1 .. Len(path) + 1
             PROVE  deltas[Append(path, i)[k]].size > 0
  BY <1>1 DEF Known
<1>2. CASE k \in 1 .. Len(path)
  BY <1>1, <1>2 DEF Known
<1>3. CASE k = Len(path) + 1
  BY <1>1, <1>3
<1> QED BY <1>1, <1>2, <1>3

(* What the inner loop would insert for delta i is sound, and as cheap as   *)
(* every chain that ends with it.                                           *)
LEMMA CandidateFacts ==
  ASSUME input \in Input, NEW i, Reaches(i), round \in Nat,
         layer \in [DOMAIN layer -> ChainType], Sound(layer, round)
  PROVE  /\ Candidate(i) \in ChainType
         /\ PathTo(Candidate(i).path, deltas[i].to, round + 1)
         /\ Ranked(Candidate(i))
         /\ Candidate(i).cost = layer[deltas[i].from].cost + CostOf(i)
<1> DEFINE prev == layer[deltas[i].from]
<1>1. i \in Edges /\ deltas[i].from \in DOMAIN layer
  BY DEF Reaches
<1>2. /\ prev.cost \in Nat /\ prev.path \in Seq(Nat)
      /\ PathTo(prev.path, deltas[i].from, round) /\ Ranked(prev)
  BY <1>1 DEF ChainType, Sound
<1>3. /\ Candidate(i).cost = prev.cost + CostOf(i)
      /\ Candidate(i).path = Append(prev.path, i)
      /\ Candidate(i) = [cost |-> Candidate(i).cost, path |-> Candidate(i).path]
  BY DEF Candidate, Chain
<1>4. i \in Nat /\ CostOf(i) \in Nat /\ (deltas[i].size = 0 => input.full <= CostOf(i))
  BY <1>1, EdgeFacts
<1>5. i \in DOMAIN deltas /\ deltas[i].size \in Nat /\ input.full \in Nat
  BY <1>1, InputFacts DEF Edges
<1>6. Append(prev.path, i) \in Seq(Nat) /\ prev.cost + CostOf(i) \in Nat
  BY <1>2, <1>4
<1>7. Candidate(i) \in ChainType
  BY <1>3, <1>6 DEF ChainType
<1>8. PathTo(Candidate(i).path, deltas[i].to, round + 1)
  BY <1>1, <1>2, <1>3, PathAppend
<1>9. Ranked(Candidate(i))
  <2>1. CASE deltas[i].size = 0 \/ input.full <= prev.cost
    BY <2>1, <1>2, <1>3, <1>4, <1>5 DEF Ranked
  <2>2. CASE deltas[i].size > 0 /\ Known(prev.path)
    <3>1. Known(Append(prev.path, i))
      BY <2>2, <1>2, <1>4, KnownAppend
    <3> QED BY <3>1, <1>3 DEF Ranked
  <2> QED BY <2>1, <2>2, <1>2, <1>5 DEF Ranked
<1> QED BY <1>3, <1>7, <1>8, <1>9

(* Inserting a sound chain keeps a map sound, and of its type.              *)
LEMMA InsertFacts ==
  ASSUME NEW map, NEW n, NEW v \in Version, NEW chain \in ChainType,
         map \in [DOMAIN map -> ChainType], DOMAIN map \subseteq Version,
         Sound(map, n), PathTo(chain.path, v, n), Ranked(chain)
  PROVE  /\ Inserted(map, v, chain) \in [DOMAIN map \cup {v} -> ChainType]
         /\ DOMAIN map \cup {v} \subseteq Version
         /\ Inserted(map, v, chain)[v] = chain
         /\ \A u \in DOMAIN map : u # v => Inserted(map, v, chain)[u] = map[u]
         /\ Sound(Inserted(map, v, chain), n)
<1> DEFINE m == Inserted(map, v, chain)
<1>1. DOMAIN m = DOMAIN map \cup {v}
  BY DEF Inserted
<1>2. m[v] = chain /\ \A u \in DOMAIN map : u # v => m[u] = map[u]
  BY DEF Inserted
<1>3. m \in [DOMAIN map \cup {v} -> ChainType]
  <2>1. \A u \in DOMAIN map \cup {v} :
          (IF u = v THEN chain ELSE map[u]) \in ChainType
    OBVIOUS
  <2> QED BY <2>1 DEF Inserted
<1> HIDE DEF m
<1>4. Sound(m, n)
  BY <1>1, <1>2 DEF Sound
<1> QED BY <1>2, <1>3, <1>4 DEF m

(* One turn of the inner loop.                                              *)
LEMMA ExtendInv == PlanInv /\ Extend => PlanInv'
<1> SUFFICES ASSUME PlanInv, Extend PROVE PlanInv'
  OBVIOUS
<1> DEFINE d == deltas[at]
<1>1. /\ input' = input /\ stage' = stage /\ round' = round /\ layer' = layer
      /\ best' = best /\ plan' = plan /\ chains' = chains /\ arrived' = arrived
      /\ stage = "extend" /\ at \in DOMAIN deltas /\ at' = at + 1
  BY DEF Extend
<1>2. /\ input \in Input /\ round \in Nat /\ Sound(layer, round)
      /\ layer \in [DOMAIN layer -> ChainType]
      /\ next \in [DOMAIN next -> ChainType] /\ DOMAIN next \subseteq Version
      /\ Sound(next, round + 1) /\ NextCheapest /\ LayerCheapest
      /\ chains \subseteq [to : Version, cost : Nat, known : BOOLEAN]
  BY <1>1, InputFacts DEF PlanInv, TypeOK
<1>3. deltas' = deltas /\ Edges' = Edges /\ \A i : CostOf(i)' = CostOf(i)
  BY <1>1 DEF deltas, Edges, CostOf
<1>4. /\ next' \in [DOMAIN next' -> ChainType] /\ DOMAIN next' \subseteq Version
      /\ Sound(next', round + 1)
      /\ DOMAIN next \subseteq DOMAIN next'
      /\ \A v \in DOMAIN next : next'[v].cost <= next[v].cost
      /\ Reaches(at) =>
           /\ d.to \in DOMAIN next'
           /\ next'[d.to].cost <= layer[d.from].cost + CostOf(at)
  <2>0. \A v \in DOMAIN next : next[v].cost \in Nat
    BY <1>2 DEF ChainType
  <2>1. CASE Reaches(at)
    <3> DEFINE c == Candidate(at)
    <3>1. /\ c \in ChainType /\ PathTo(c.path, d.to, round + 1) /\ Ranked(c)
          /\ c.cost = layer[d.from].cost + CostOf(at)
      BY <1>2, <2>1, CandidateFacts
    <3>2. d.to \in Version /\ c.cost \in Nat
      BY <1>2, <2>1, <3>1, EdgeFacts DEF Reaches, ChainType
    <3>3. CASE Improves(at)
      <4>1. next' = Inserted(next, d.to, c)
        BY <2>1, <3>3 DEF Extend
      <4>2. d.to \in DOMAIN next => c.cost <= next[d.to].cost
        BY <3>2, <3>3, <2>0 DEF Improves, Better
      <4> HIDE DEF c, d
      <4>3. /\ next' \in [DOMAIN next' -> ChainType] /\ DOMAIN next' \subseteq Version
            /\ DOMAIN next' = DOMAIN next \cup {d.to} /\ next'[d.to] = c
            /\ \A v \in DOMAIN next : v # d.to => next'[v] = next[v]
            /\ Sound(next', round + 1)
        <5>1. /\ next \in [DOMAIN next -> ChainType] /\ DOMAIN next \subseteq Version
              /\ Sound(next, round + 1)
          BY <1>2
        <5>2. /\ d.to \in Version /\ c \in ChainType
              /\ PathTo(c.path, d.to, round + 1) /\ Ranked(c)
          BY <3>1, <3>2
        <5>3. /\ Inserted(next, d.to, c) \in [DOMAIN next \cup {d.to} -> ChainType]
              /\ DOMAIN next \cup {d.to} \subseteq Version
              /\ Inserted(next, d.to, c)[d.to] = c
              /\ \A u \in DOMAIN next : u # d.to => Inserted(next, d.to, c)[u] = next[u]
              /\ Sound(Inserted(next, d.to, c), round + 1)
          BY <5>1, <5>2, InsertFacts
        <5> QED BY <5>3, <4>1
      <4>4. \A v \in DOMAIN next : next'[v].cost <= next[v].cost
        BY <2>0, <4>2, <4>3
      <4> QED BY <2>1, <3>1, <3>2, <4>3, <4>4
    <3>4. CASE ~Improves(at)
      <4>1. next' = next
        BY <3>4 DEF Extend
      <4>2. d.to \in DOMAIN next /\ next[d.to].cost <= c.cost
        BY <3>2, <3>4, <2>0 DEF Improves, Better
      <4> QED BY <1>2, <2>0, <3>1, <4>1, <4>2
    <3> QED BY <3>3, <3>4
  <2>2. CASE ~Reaches(at)
    <3>1. next' = next
      BY <2>2 DEF Extend
    <3> QED BY <1>2, <2>0, <2>2, <3>1
  <2> QED BY <2>1, <2>2
<1>5. NextCheapest'
  <2> SUFFICES ASSUME NEW c \in chains, NEW i \in Edges,
                      i < at + 1, deltas[i].from = c.to
               PROVE  /\ deltas[i].to \in DOMAIN next'
                      /\ next'[deltas[i].to].cost <= c.cost + CostOf(i)
    BY <1>1, <1>3 DEF NextCheapest
  <2>1. i \in Nat /\ at \in Nat /\ CostOf(i) \in Nat /\ c.cost \in Nat
    BY <1>1, <1>2, EdgeFacts, InputFacts
  <2>2. \A v \in DOMAIN next' : next'[v].cost \in Nat
    BY <1>4 DEF ChainType
  <2>3. \A v \in DOMAIN next : next[v].cost \in Nat
    BY <1>2 DEF ChainType
  <2>4. CASE i < at
    <3>1. deltas[i].to \in DOMAIN next /\ next[deltas[i].to].cost <= c.cost + CostOf(i)
      BY <1>2, <2>4 DEF NextCheapest
    <3> QED BY <1>4, <2>1, <2>2, <2>3, <3>1
  <2>5. CASE i = at
    <3>1. c.to \in DOMAIN layer /\ layer[c.to].cost <= c.cost
      BY <1>2 DEF LayerCheapest
    <3>2. Reaches(at) /\ layer[c.to].cost \in Nat
      BY <1>2, <2>5, <3>1 DEF Reaches, ChainType
    <3>3. /\ deltas[i].to \in DOMAIN next'
          /\ next'[deltas[i].to].cost <= layer[c.to].cost + CostOf(i)
      BY <1>4, <2>5, <3>2
    <3> QED BY <2>1, <2>2, <3>1, <3>2, <3>3
  <2> QED BY <2>1, <2>4, <2>5
<1>6. TypeOK'
  <2>1. at + 1 \in 1 .. Len(deltas) + 1
    BY <1>1, <1>2, InputFacts
  <2> QED BY <1>1, <1>3, <1>4, <2>1 DEF PlanInv, TypeOK
<1>8. Sound(layer, round)' /\ Sound(next, round + 1)'
  BY <1>1, <1>2, <1>3, <1>4 DEF Sound, PathTo, Ranked, Known
<1>9. BestSound'
  BY <1>1, <1>3 DEF PlanInv, BestSound, PathTo, Ranked, Known
<1>10. LayerCheapest' /\ BestCheapest'
  BY <1>1 DEF PlanInv, LayerCheapest, BestCheapest
<1>11. Control'
  BY <1>1, <1>3 DEF PlanInv, Control
<1> QED BY <1>5, <1>6, <1>8, <1>9, <1>10, <1>11 DEF PlanInv

(* A chain of one delta more costs at least what the round just ended found *)
(* for the version it ends at.                                              *)
LEMMA LongerFacts ==
  ASSUME PlanInv, stage = "extend", at \notin DOMAIN deltas
  PROVE  /\ Longer(chains) \subseteq [to : Version, cost : Nat, known : BOOLEAN]
         /\ \A c \in Longer(chains) : c.to \in DOMAIN next /\ next[c.to].cost <= c.cost
<1>1. /\ input \in Input /\ NextCheapest /\ at \in 1 .. Len(deltas) + 1
      /\ chains \subseteq [to : Version, cost : Nat, known : BOOLEAN]
  BY DEF PlanInv, TypeOK
<1>2. \A i \in Edges : i \in Nat /\ i < at
  BY <1>1, EdgeFacts, InputFacts
<1> SUFFICES ASSUME NEW c \in chains, NEW i \in Edges, deltas[i].from = c.to,
                    NEW l, l = [to    |-> deltas[i].to,
                                cost  |-> c.cost + CostOf(i),
                                known |-> c.known /\ deltas[i].size > 0]
             PROVE  /\ l \in [to : Version, cost : Nat, known : BOOLEAN]
                    /\ l.to \in DOMAIN next /\ next[l.to].cost <= l.cost
  BY DEF Longer
<1>3. CostOf(i) \in Nat /\ deltas[i].to \in Version /\ c.cost \in Nat
  BY <1>1, EdgeFacts
<1>4. l.to = deltas[i].to /\ l.cost = c.cost + CostOf(i)
  OBVIOUS
<1>5. deltas[i].to \in DOMAIN next /\ next[deltas[i].to].cost <= c.cost + CostOf(i)
  BY <1>1, <1>2 DEF NextCheapest
<1>6. (c.known /\ deltas[i].size > 0) \in BOOLEAN
  OBVIOUS
<1>7. l \in [to : Version, cost : Nat, known : BOOLEAN]
  BY <1>3, <1>6
<1> QED BY <1>4, <1>5, <1>7

(* The best chain that arrives, after a round in which some were found.     *)
LEMMA BestFacts ==
  ASSUME PlanInv, stage = "extend", at \notin DOMAIN deltas
  PROVE  /\ Best \in ChainType
         /\ Best # NoChain =>
              /\ Len(Best.path) \in 1 .. round + 1
              /\ PathTo(Best.path, input.to, Len(Best.path))
              /\ Ranked(Best)
         /\ \A c \in arrived \cup Arrivals(Longer(chains), round + 1) :
              /\ Best # NoChain
              /\ Best.cost <= c.cost
              /\ Best.cost = c.cost => Len(Best.path) <= c.hops
<1>1. /\ input \in Input /\ round \in Nat /\ best \in ChainType
      /\ next \in [DOMAIN next -> ChainType] /\ Sound(next, round + 1)
      /\ BestSound /\ BestCheapest
      /\ arrived \subseteq [cost : Nat, hops : Nat, known : BOOLEAN]
  BY InputFacts DEF PlanInv, TypeOK
<1>2. /\ best.cost \in Nat /\ Len(best.path) \in Nat
      /\ best # NoChain => Len(best.path) \in 1 .. round
  BY <1>1 DEF ChainType, BestSound
<1>3. NoChain.path = << >>
  BY DEF NoChain, Chain
<1>4. \A c \in Arrivals(Longer(chains), round + 1) :
        /\ c.cost \in Nat /\ c.hops = round + 1
        /\ input.to \in DOMAIN next /\ next[input.to].cost <= c.cost
  BY LongerFacts DEF Arrivals
<1>5. \A c \in arrived : c.cost \in Nat /\ c.hops \in Nat
  BY <1>1
<1>6. CASE input.to \in DOMAIN next /\ (best = NoChain \/ Better(next[input.to], best))
  <2> DEFINE n == next[input.to]
  <2>1. Best = n
    BY <1>6 DEF Best
  <2>2. /\ n \in ChainType /\ n.cost \in Nat
        /\ PathTo(n.path, input.to, round + 1) /\ Ranked(n)
    BY <1>1, <1>6 DEF Sound, ChainType
  <2>3. Len(n.path) = round + 1
    BY <2>2 DEF PathTo
  <2>4. n # NoChain
    BY <1>1, <1>3, <2>3
  <2>5. best # NoChain => n.cost < best.cost
    BY <1>1, <1>2, <1>6, <2>2, <2>3 DEF Better
  <2>6. \A c \in arrived : n.cost < c.cost
    <3> SUFFICES ASSUME NEW c \in arrived PROVE n.cost < c.cost
      OBVIOUS
    <3>1. best # NoChain /\ best.cost <= c.cost
      BY <1>1 DEF BestCheapest
    <3> QED BY <1>2, <1>5, <2>2, <2>5, <3>1
  <2> HIDE DEF n
  <2>7. \A c \in arrived \cup Arrivals(Longer(chains), round + 1) :
          n.cost <= c.cost /\ (n.cost = c.cost => Len(n.path) <= c.hops)
    <3>1. \A c \in arrived : n.cost <= c.cost /\ n.cost # c.cost
      BY <1>5, <2>2, <2>6
    <3>2. \A c \in Arrivals(Longer(chains), round + 1) :
            n.cost <= c.cost /\ Len(n.path) <= c.hops
      BY <1>1, <1>4, <2>3 DEF n
    <3> QED BY <3>1, <3>2
  <2> QED BY <1>1, <2>1, <2>2, <2>3, <2>4, <2>7
<1>7. CASE ~(input.to \in DOMAIN next /\ (best = NoChain \/ Better(next[input.to], best)))
  <2>1. Best = best
    BY <1>7 DEF Best
  <2>2. \A c \in Arrivals(Longer(chains), round + 1) :
          best # NoChain /\ best.cost <= c.cost /\ Len(best.path) <= c.hops
    <3> SUFFICES ASSUME NEW c \in Arrivals(Longer(chains), round + 1)
                 PROVE  best # NoChain /\ best.cost <= c.cost /\ Len(best.path) <= c.hops
      OBVIOUS
    <3>1. best # NoChain /\ ~Better(next[input.to], best) /\ next[input.to].cost \in Nat
      BY <1>1, <1>4, <1>7 DEF ChainType
    <3>2. best.cost <= next[input.to].cost
      BY <1>2, <3>1 DEF Better
    <3> QED BY <1>1, <1>2, <1>4, <3>1, <3>2
  <2>3. best # NoChain => Len(best.path) \in 1 .. round + 1
    BY <1>1, <1>2
  <2>4. \A c \in arrived :
          /\ best # NoChain /\ best.cost <= c.cost
          /\ best.cost = c.cost => Len(best.path) <= c.hops
    BY <1>1 DEF BestCheapest
  <2> QED BY <1>1, <2>1, <2>2, <2>3, <2>4 DEF BestSound
<1> QED BY <1>6, <1>7

(* The end of a round.                                                      *)
LEMMA EndRoundInv == PlanInv /\ EndRound => PlanInv'
<1> SUFFICES ASSUME PlanInv, EndRound PROVE PlanInv'
  OBVIOUS
<1>1. /\ input' = input /\ plan' = plan /\ at' = 1 /\ next' = NoChains /\ best' = Best
      /\ stage = "extend" /\ at \notin DOMAIN deltas
  BY DEF EndRound
<1>2. /\ input \in Input /\ round \in Nat /\ round < input.limit /\ plan = << >>
      /\ layer \in [DOMAIN layer -> ChainType] /\ DOMAIN layer \subseteq Version
      /\ next \in [DOMAIN next -> ChainType] /\ DOMAIN next \subseteq Version
      /\ Sound(layer, round) /\ Sound(next, round + 1) /\ LayerCheapest
      /\ input.limit \in Nat /\ Len(deltas) \in Nat
  BY <1>1, InputFacts DEF PlanInv, TypeOK, Control
<1>3. deltas' = deltas /\ Edges' = Edges /\ \A i : CostOf(i)' = CostOf(i)
  BY <1>1 DEF deltas, Edges, CostOf
<1>4. DOMAIN next' = {}
  BY <1>1 DEF NoChains
<1>5. NextCheapest' /\ Sound(next, round + 1)'
  <2>1. \A i \in Edges : ~(i < 1)
    BY <1>2, EdgeFacts, InputFacts
  <2>2. NextCheapest'
    BY <1>1, <1>3, <2>1 DEF NextCheapest
  <2> QED BY <1>4, <2>2 DEF Sound
<1>6. CASE DOMAIN next = {}
  <2>1. /\ stage' = "decide" /\ round' = round /\ layer' = layer
        /\ chains' = chains /\ arrived' = arrived
    BY <1>6 DEF EndRound
  <2>2. Longer(chains) = {}
    BY <1>1, <1>6, LongerFacts
  <2>3. Best = best
    BY <1>6 DEF Best
  <2>4. TypeOK'
    BY <1>1, <1>2, <1>3, <1>4, <2>1, <2>3 DEF PlanInv, TypeOK
  <2>5. Sound(layer, round)' /\ LayerCheapest'
    BY <1>1, <1>2, <1>3, <2>1 DEF Sound, PathTo, Ranked, Known, LayerCheapest
  <2>6. BestSound' /\ BestCheapest'
    BY <1>1, <1>3, <2>1, <2>3 DEF PlanInv, BestSound, PathTo, Ranked, Known, BestCheapest
  <2>7. Longer(chains)' = {}
    BY <1>3, <2>1, <2>2 DEF Longer
  <2>8. Control'
    BY <1>1, <1>2, <2>1, <2>7 DEF Control
  <2> QED BY <2>1, <2>4, <2>5, <2>6, <2>8 DEF PlanInv
<1>7. CASE DOMAIN next # {}
  <2>1. /\ stage' = IF round + 1 = input.limit THEN "decide" ELSE "extend"
        /\ round' = round + 1 /\ layer' = next /\ chains' = Longer(chains)
        /\ arrived' = arrived \cup Arrivals(Longer(chains), round + 1)
    BY <1>7 DEF EndRound, LastRound
  <2>2. /\ Longer(chains) \subseteq [to : Version, cost : Nat, known : BOOLEAN]
        /\ \A c \in Longer(chains) : c.to \in DOMAIN next /\ next[c.to].cost <= c.cost
    BY <1>1, LongerFacts
  <2>3. Arrivals(Longer(chains), round + 1) \subseteq
          [cost : Nat, hops : Nat, known : BOOLEAN]
    BY <1>2, <2>2 DEF Arrivals
  <2>4. TypeOK'
    <3>1. Best \in ChainType
      BY <1>1, BestFacts
    <3>2. round + 1 \in 0 .. input.limit /\ 1 \in 1 .. Len(deltas) + 1
      BY <1>2
    <3> QED BY <1>1, <1>2, <1>3, <1>4, <2>1, <2>2, <2>3, <3>1, <3>2 DEF PlanInv, TypeOK
  <2>5. Sound(layer, round)' /\ LayerCheapest'
    <3>1. LayerCheapest'
      BY <2>1, <2>2 DEF LayerCheapest
    <3>2. /\ \A path, v, n : PathTo(path, v, n)' <=> PathTo(path, v, n)
          /\ \A chain : Ranked(chain)' <=> Ranked(chain)
      BY <1>1, <1>3 DEF PathTo, Ranked, Known
    <3>3. Sound(layer, round)'
      BY <1>2, <2>1, <3>2 DEF Sound
    <3> QED BY <3>1, <3>3
  <2>6. BestSound'
    <3>1. Best # NoChain =>
            /\ Len(Best.path) \in 1 .. round + 1
            /\ PathTo(Best.path, input.to, Len(Best.path))
            /\ Ranked(Best)
      BY <1>1, BestFacts
    <3> HIDE DEF Best
    <3> QED BY <1>1, <1>3, <2>1, <3>1 DEF BestSound, PathTo, Ranked, Known
  <2>7. BestCheapest'
    <3>1. \A c \in arrived \cup Arrivals(Longer(chains), round + 1) :
            /\ Best # NoChain
            /\ Best.cost <= c.cost
            /\ Best.cost = c.cost => Len(Best.path) <= c.hops
      BY <1>1, BestFacts
    <3> QED BY <1>1, <2>1, <3>1 DEF BestCheapest
  <2>8. Control'
    BY <1>1, <1>2, <2>1 DEF Control
  <2> QED BY <1>5, <2>1, <2>4, <2>5, <2>6, <2>7, <2>8 DEF PlanInv
<1> QED BY <1>6, <1>7

(* What follows the loops.                                                  *)
LEMMA DecideInv == PlanInv /\ Decide => PlanInv'
<1> SUFFICES ASSUME PlanInv, Decide PROVE PlanInv'
  OBVIOUS
<1>1. /\ input' = input /\ round' = round /\ at' = at /\ layer' = layer
      /\ next' = next /\ best' = best /\ chains' = chains /\ arrived' = arrived
      /\ stage = "decide" /\ stage' = "done"
      /\ plan' = IF Pays(best) THEN best.path ELSE << >>
  BY DEF Decide
<1>2. deltas' = deltas /\ Edges' = Edges /\ \A i : CostOf(i)' = CostOf(i)
  BY <1>1 DEF deltas, Edges, CostOf
<1>3. TypeOK'
  <2>1. best.path \in Seq(Nat) /\ << >> \in Seq(Nat)
    BY DEF PlanInv, TypeOK, ChainType
  <2> QED BY <1>1, <1>2, <2>1 DEF PlanInv, TypeOK
<1>4. Sound(layer, round)' /\ LayerCheapest'
  BY <1>1, <1>2 DEF PlanInv, Sound, PathTo, Ranked, Known, LayerCheapest
<1>5. BestSound' /\ BestCheapest'
  BY <1>1, <1>2 DEF PlanInv, BestSound, PathTo, Ranked, Known, BestCheapest
<1>6. Control'
  <2>1. Longer(chains)' = Longer(chains) /\ Pays(best)' = Pays(best)
    BY <1>1, <1>2 DEF Longer, Pays, Known
  <2> QED BY <1>1, <2>1 DEF PlanInv, Control
<1> QED BY <1>1, <1>3, <1>4, <1>5, <1>6 DEF PlanInv

(* The invariant is inductive.                                              *)
LEMMA StepInv == PlanInv /\ [PlanNext]_plan_vars => PlanInv'
<1> SUFFICES ASSUME PlanInv, [PlanNext]_plan_vars PROVE PlanInv'
  OBVIOUS
<1>1. CASE Extend
  BY <1>1, ExtendInv
<1>2. CASE EndRound
  BY <1>2, EndRoundInv
<1>3. CASE Decide
  BY <1>3, DecideInv
<1>4. CASE UNCHANGED plan_vars
  <2>1. /\ UNCHANGED << input, stage, round, at, layer, next, best, plan, chains, arrived >>
        /\ deltas' = deltas /\ Edges' = Edges /\ \A i : CostOf(i)' = CostOf(i)
    BY <1>4 DEF plan_vars, deltas, Edges, CostOf
  <2>2. /\ \A path, v, n : PathTo(path, v, n)' <=> PathTo(path, v, n)
        /\ \A chain : Ranked(chain)' <=> Ranked(chain)
    BY <2>1 DEF PathTo, Ranked, Known
  <2>3. TypeOK'
    BY <2>1 DEF PlanInv, TypeOK
  <2>4. Sound(layer, round)' /\ (stage' = "extend" => Sound(next, round + 1)') /\ BestSound'
    BY <2>1, <2>2 DEF PlanInv, Sound, BestSound
  <2>5. (stage' = "extend" => NextCheapest') /\ LayerCheapest' /\ BestCheapest'
    BY <2>1 DEF PlanInv, NextCheapest, LayerCheapest, BestCheapest
  <2>6. Longer(chains)' = Longer(chains) /\ Pays(best)' = Pays(best)
    BY <2>1 DEF Longer, Pays, Known
  <2>7. Control'
    BY <2>1, <2>6 DEF PlanInv, Control
  <2> QED BY <2>1, <2>3, <2>4, <2>5, <2>7 DEF PlanInv
<1> QED BY <1>1, <1>2, <1>3, <1>4 DEF PlanNext

(* It holds in every state of every behaviour.                              *)
THEOREM PlanInvariance == PlanSpec => []PlanInv
<1> QED BY InitInv, StepInv, PTL DEF PlanSpec

------------------------------------------------------------------------------
(* The planned deltas can be applied one after the other, from the          *)
(* installed version to the one wanted, within the limit (`cheapest`).      *)
THEOREM PlansConnect == PlanSpec => []PlanConnects
<1>1. PlanInv => PlanConnects
  <2> SUFFICES ASSUME PlanInv, plan # << >> PROVE Connects(plan, input.to)
    BY DEF PlanConnects
  <2>1. plan = best.path /\ best.path # << >>
    BY DEF PlanInv, Control
  <2>2. best # NoChain
    BY <2>1 DEF NoChain, Chain
  <2> DEFINE n == Len(plan)
  <2>3. n \in 1 .. round /\ PathTo(plan, input.to, n)
    BY <2>1, <2>2 DEF PlanInv, BestSound
  <2>4. round \in 0 .. input.limit /\ input.limit \in Nat
    BY InputFacts DEF PlanInv, TypeOK
  <2>5. DOMAIN plan = 1 .. n /\ n <= input.limit /\ n > 0
    BY <2>3, <2>4 DEF PathTo
  <2> QED BY <2>3, <2>5 DEF PathTo, Connects
<1> QED BY <1>1, PlanInvariance, PTL

(* Of all chains within the limit none is cheaper than the one `cheapest`   *)
(* finds, and none that costs the same is shorter.                          *)
THEOREM FindsTheCheapest == PlanSpec => []BestIsCheapest
<1>1. PlanInv => BestIsCheapest
  <2> SUFFICES ASSUME PlanInv, stage \in {"decide", "done"}
               PROVE  BestIsCheapest
    BY DEF BestIsCheapest
  <2>1. round \in 0 .. input.limit /\ input.limit \in Nat
    BY InputFacts DEF PlanInv, TypeOK
  <2>2. round < input.limit => Longer(chains) = {}
    BY <2>1 DEF PlanInv, Control
  <2> QED BY <2>2 DEF PlanInv, BestCheapest, BestIsCheapest
<1> QED BY <1>1, PlanInvariance, PTL

(* Deltas are downloaded when that is known to save bytes, and a plan of    *)
(* known size always saves some.                                            *)
THEOREM PlansSaveBytes == PlanSpec => []PlanSavesBytes
<1>1. PlanInv => PlanSavesBytes
  <2> SUFFICES ASSUME PlanInv, stage = "done" PROVE PlanSavesBytes
    BY DEF PlanSavesBytes
  <2>1. /\ input.full \in Nat /\ best.cost \in Nat
        /\ plan = IF Pays(best) THEN best.path ELSE << >>
    BY InputFacts DEF PlanInv, TypeOK, ChainType, Control
  <2>2. ASSUME NEW c \in arrived, c.known, c.cost < input.full
        PROVE  plan # << >> /\ Known(plan) /\ best.cost <= c.cost
    <3>1. best # NoChain /\ best.cost <= c.cost /\ c.cost \in Nat
      BY DEF PlanInv, BestCheapest, TypeOK
    <3>2. Len(best.path) \in 1 .. round /\ Ranked(best)
      BY <3>1 DEF PlanInv, BestSound
    <3>3. Known(best.path) /\ best.cost < input.full
      BY <2>1, <2>2, <3>1, <3>2 DEF Ranked
    <3>4. plan = best.path
      BY <2>1, <3>3 DEF Pays
    <3>5. best.path # << >>
      BY <3>2 DEF PlanInv, TypeOK
    <3> QED BY <3>1, <3>3, <3>4, <3>5
  <2>3. ASSUME plan # << >>, Known(plan), input.full > 0
        PROVE  best.cost < input.full
    <3>1. Pays(best) /\ plan = best.path
      BY <2>1, <2>3
    <3> QED BY <2>1, <2>3, <3>1 DEF Pays
  <2> QED BY <2>2, <2>3 DEF PlanSavesBytes
<1> QED BY <1>1, PlanInvariance, PTL

------------------------------------------------------------------------------
(* Published histories: the powers of two that delta_bases doubles its way  *)
(* through, the chains a publisher who follows it leaves, and the search,   *)
(* which overlooks none of them.                                            *)

(* Every set of numbers that is not empty has a least member.               *)
LEMMA LeastNumber ==
  ASSUME NEW S \in SUBSET Nat, S # {}
  PROVE  \E m \in S : \A n \in S : m <= n
<1> DEFINE R == OpToRel(<, Nat)
<1>1. IsWellFoundedOn(R, Nat)
  BY NatLessThanWellFounded
<1>2. \A m, n \in Nat : << n, m >> \in R <=> n < m
  BY DEF OpToRel
<1> HIDE DEF R
<1>3. PICK m \in S : \A n \in S : ~(<< n, m >> \in R)
  BY <1>1, WFMin
<1>4. ASSUME NEW n \in S PROVE m <= n
  <2>1. m \in Nat /\ n \in Nat
    OBVIOUS
  <2>2. ~(n < m)
    BY <1>2, <1>3, <2>1
  <2> QED
    BY <2>1, <2>2
<1> QED
  BY <1>4

(* The powers of two up to the n-th.                                        *)
Doubles(f, n) == f = [k \in 0 .. n |-> IF k = 0 THEN 1 ELSE 2 * f[k - 1]]

(* There are always more of them.                                           *)
LEMMA DoublesAll ==
  ASSUME NEW n \in Nat
  PROVE  \E f : Doubles(f, n)
<1> DEFINE Without == {m \in Nat : ~ \E f : Doubles(f, m)}
<1> SUFFICES ASSUME Without # {} PROVE FALSE
  OBVIOUS
<1>1. PICK m \in Without : \A k \in Without : m <= k
  BY LeastNumber
<1>2. Doubles([k \in 0 .. 0 |-> 1], 0)
  BY DEF Doubles
<1>3. m \in Nat /\ m # 0
  BY <1>1, <1>2
<1>4. m - 1 \in Nat /\ m - 1 \notin Without
  BY <1>1, <1>3
<1>5. PICK f : Doubles(f, m - 1)
  BY <1>4
<1> DEFINE g == [k \in 0 .. m |-> IF k = m THEN 2 * f[m - 1] ELSE f[k]]
<1>6. ASSUME NEW k \in 0 .. m
      PROVE  g[k] = IF k = 0 THEN 1 ELSE 2 * g[k - 1]
  <2>1. CASE k = m
    BY <1>3, <2>1
  <2>2. CASE k # m
    <3>1. k \in 0 .. m - 1 /\ (k # 0 => k - 1 \in 0 .. m - 1 /\ k - 1 # m)
      BY <1>3, <2>2
    <3>2. f[k] = IF k = 0 THEN 1 ELSE 2 * f[k - 1]
      BY <1>5, <3>1 DEF Doubles
    <3>3. g[k] = f[k] /\ (k # 0 => g[k - 1] = f[k - 1])
      BY <2>2, <3>1
    <3> QED BY <3>2, <3>3
  <2> QED BY <2>1, <2>2
<1>7. g = [k \in 0 .. m |-> g[k]]
  OBVIOUS
<1>8. Doubles(g, m)
  <2> HIDE DEF g
  <2> QED BY <1>6, <1>7 DEF Doubles
<1> QED BY <1>1, <1>8

(* ... and they agree.                                                      *)
LEMMA DoublesAgree ==
  ASSUME NEW n \in Nat, NEW m \in Nat, NEW f, NEW g, Doubles(f, n), Doubles(g, m),
         NEW k \in Nat, k <= n, k <= m
  PROVE  f[k] = g[k]
<1> DEFINE Differ == {i \in Nat : i <= n /\ i <= m /\ f[i] # g[i]}
<1> SUFFICES ASSUME Differ # {} PROVE FALSE
  OBVIOUS
<1>1. PICK i \in Differ : \A j \in Differ : i <= j
  BY LeastNumber
<1>2. i \in Nat /\ i <= n /\ i <= m /\ f[i] # g[i]
  OBVIOUS
<1>3. i \in 0 .. n /\ i \in 0 .. m
  BY <1>2
<1>4. /\ f[i] = IF i = 0 THEN 1 ELSE 2 * f[i - 1]
      /\ g[i] = IF i = 0 THEN 1 ELSE 2 * g[i - 1]
  BY <1>3 DEF Doubles
<1>5. i # 0 => i - 1 \in Nat /\ i - 1 <= n /\ i - 1 <= m /\ i - 1 \notin Differ
  BY <1>1, <1>2
<1>6. i # 0 => f[i - 1] = g[i - 1]
  BY <1>5
<1> QED BY <1>2, <1>4, <1>6

(* Each power of two is twice the one before it.                            *)
LEMMA DoubledIs ==
  ASSUME NEW k \in Nat
  PROVE  Doubled[k] = IF k = 0 THEN 1 ELSE 2 * Doubled[k - 1]
<1> DEFINE f(n) == CHOOSE g : Doubles(g, n)
           F == [n \in Nat |-> f(n)[n]]
<1>1. ASSUME NEW n \in Nat PROVE Doubles(f(n), n)
  BY DoublesAll
<1>2. ASSUME NEW n \in Nat PROVE F[n] = IF n = 0 THEN 1 ELSE 2 * F[n - 1]
  <2>1. n \in 0 .. n
    OBVIOUS
  <2>2. f(n)[n] = IF n = 0 THEN 1 ELSE 2 * f(n)[n - 1]
    <3>1. \A g : Doubles(g, n) => g[n] = IF n = 0 THEN 1 ELSE 2 * g[n - 1]
      BY <2>1 DEF Doubles
    <3> HIDE DEF f
    <3> QED BY <1>1, <3>1
  <2>3. n # 0 => f(n)[n - 1] = f(n - 1)[n - 1]
    <3> SUFFICES ASSUME n # 0 PROVE f(n)[n - 1] = f(n - 1)[n - 1]
      OBVIOUS
    <3>1. n - 1 \in Nat /\ n - 1 <= n
      OBVIOUS
    <3>2. Doubles(f(n), n) /\ Doubles(f(n - 1), n - 1)
      BY <1>1, <3>1
    <3> HIDE DEF f
    <3> QED BY <3>1, <3>2, DoublesAgree
  <2>4. F[n] = f(n)[n] /\ (n # 0 => F[n - 1] = f(n - 1)[n - 1])
    <3> HIDE DEF f
    <3> QED OBVIOUS
  <2> HIDE DEF f, F
  <2> QED BY <2>2, <2>3, <2>4
<1>3. F = [n \in Nat |-> IF n = 0 THEN 1 ELSE 2 * F[n - 1]]
  <2>1. F = [n \in Nat |-> F[n]]
    OBVIOUS
  <2> HIDE DEF F
  <2> QED BY <1>2, <2>1
<1>4. Doubled = [n \in Nat |-> IF n = 0 THEN 1 ELSE 2 * Doubled[n - 1]]
  <2> HIDE DEF F
  <2> QED BY <1>3 DEF Doubled
<1> QED BY <1>4

(* A power of two is larger than its exponent, and they grow.               *)
LEMMA DoubledGrows ==
  /\ Doubled[0] = 1
  /\ \A k \in Nat : Doubled[k] \in Nat /\ k < Doubled[k]
  /\ \A k \in Nat : Doubled[k + 1] = 2 * Doubled[k]
<1>1. Doubled[0] = 1
  BY DoubledIs
<1>2. \A k \in Nat : Doubled[k + 1] = 2 * Doubled[k]
  <2> SUFFICES ASSUME NEW k \in Nat PROVE Doubled[k + 1] = 2 * Doubled[k]
    OBVIOUS
  <2>1. k + 1 \in Nat /\ k + 1 # 0 /\ (k + 1) - 1 = k
    OBVIOUS
  <2> QED BY <2>1, DoubledIs
<1>3. \A k \in Nat : Doubled[k] \in Nat /\ k < Doubled[k]
  <2> DEFINE Small == {k \in Nat : ~(Doubled[k] \in Nat /\ k < Doubled[k])}
  <2> SUFFICES ASSUME Small # {} PROVE FALSE
    OBVIOUS
  <2>1. PICK m \in Small : \A k \in Small : m <= k
    BY LeastNumber
  <2>2. m # 0
    BY <1>1, <2>1
  <2>3. m - 1 \in Nat /\ m - 1 \notin Small /\ m = (m - 1) + 1
    BY <2>1, <2>2
  <2>4. Doubled[m] = 2 * Doubled[m - 1]
    BY <1>2, <2>3
  <2>5. Doubled[m - 1] \in Nat /\ m - 1 < Doubled[m - 1]
    BY <2>3
  <2>6. Doubled[m] \in Nat /\ m < Doubled[m]
    BY <2>3, <2>4, <2>5
  <2> QED BY <2>1, <2>6
<1> QED BY <1>1, <1>2, <1>3

(* ... as their exponents do.                                               *)
LEMMA DoubledMonotone ==
  ASSUME NEW j \in Nat, NEW k \in Nat, j <= k
  PROVE  Doubled[j] <= Doubled[k]
<1> DEFINE Falls == {n \in Nat : j <= n /\ ~(Doubled[j] <= Doubled[n])}
<1> SUFFICES ASSUME Falls # {} PROVE FALSE
  BY DoubledGrows
<1>1. PICK m \in Falls : \A n \in Falls : m <= n
  BY LeastNumber
<1>2. /\ Doubled[j] \in Nat /\ Doubled[m] \in Nat /\ m \in Nat
      /\ j <= m /\ ~(Doubled[j] <= Doubled[m])
  BY DoubledGrows
<1>3. m # j
  BY <1>2
<1>4. m - 1 \in Nat /\ j <= m - 1 /\ m - 1 \notin Falls /\ m = (m - 1) + 1
  BY <1>1, <1>2, <1>3
<1>5. Doubled[m] = 2 * Doubled[m - 1] /\ Doubled[m - 1] \in Nat
  BY <1>4, DoubledGrows
<1>6. Doubled[j] <= Doubled[m - 1]
  BY <1>4
<1> QED BY <1>2, <1>5, <1>6

(* Every distance lies between two powers of two.                           *)
LEMMA LargestStep ==
  ASSUME NEW d \in Nat \ {0}
  PROVE  \E k \in Nat : Doubled[k] <= d /\ d < Doubled[k + 1]
<1> DEFINE Above == {k \in Nat : d < Doubled[k + 1]}
<1>1. d \in Above
  <2>1. d + 1 \in Nat
    OBVIOUS
  <2>2. d + 1 < Doubled[d + 1] /\ Doubled[d + 1] \in Nat
    BY <2>1, DoubledGrows
  <2> QED BY <2>2
<1>2. PICK k \in Above : \A j \in Above : k <= j
  BY <1>1, LeastNumber
<1>3. CASE k = 0
  BY <1>2, <1>3, DoubledGrows
<1>4. CASE k # 0
  <2>1. k - 1 \in Nat /\ k - 1 \notin Above /\ (k - 1) + 1 = k
    BY <1>2, <1>4
  <2>2. ~(d < Doubled[k]) /\ Doubled[k] \in Nat
    BY <2>1, DoubledGrows
  <2> QED BY <1>2, <2>2
<1> QED BY <1>3, <1>4

(* The start of a chain is a chain.                                         *)
LEMMA PathStart ==
  ASSUME NEW path, NEW v, NEW n \in Nat, PathTo(path, v, n), NEW m \in 1 .. n
  PROVE  PathTo(SubSeq(path, 1, m), deltas[path[m]].to, m)
<1> DEFINE start == SubSeq(path, 1, m)
<1>1. path \in Seq(Nat) /\ Len(path) = n
  BY DEF PathTo
<1>2. start \in Seq(Nat) /\ Len(start) = m /\ \A k \in 1 .. m : start[k] = path[k]
  BY <1>1
<1>3. \A k \in 1 .. m : k \in 1 .. n
  OBVIOUS
<1>4. \A k \in 1 .. m - 1 : k \in 1 .. n - 1 /\ k \in 1 .. m /\ k + 1 \in 1 .. m
  OBVIOUS
<1> HIDE DEF start
<1>5. \A k \in 1 .. m : start[k] \in Edges
  BY <1>2, <1>3 DEF PathTo
<1>6. deltas[start[1]].from = input.from /\ deltas[start[m]].to = deltas[path[m]].to
  <2>1. 1 \in 1 .. m /\ m \in 1 .. m /\ n > 0
    OBVIOUS
  <2>2. start[1] = path[1] /\ start[m] = path[m]
    BY <1>2, <2>1
  <2>3. deltas[path[1]].from = input.from
    BY <2>1 DEF PathTo
  <2> QED BY <2>2, <2>3
<1>7. \A k \in 1 .. m - 1 : deltas[start[k]].to = deltas[start[k + 1]].from
  <2> SUFFICES ASSUME NEW k \in 1 .. m - 1
               PROVE  deltas[start[k]].to = deltas[start[k + 1]].from
    OBVIOUS
  <2>1. start[k] = path[k] /\ start[k + 1] = path[k + 1]
    BY <1>2, <1>4
  <2> QED BY <1>4, <2>1 DEF PathTo
<1>8. PathTo(start, deltas[path[m]].to, m)
  BY <1>2, <1>5, <1>6, <1>7 DEF PathTo
<1> QED BY <1>8 DEF start

(* The last delta of a chain, and the chain before it.                      *)
LEMMA PathFront ==
  ASSUME NEW path, NEW v, NEW n \in Nat, PathTo(path, v, n + 1)
  PROVE  /\ path[n + 1] \in Edges /\ deltas[path[n + 1]].to = v
         /\ PathTo(SubSeq(path, 1, n), deltas[path[n + 1]].from, n)
<1>1. n + 1 \in 1 .. n + 1 /\ n + 1 > 0
  OBVIOUS
<1>2. path[n + 1] \in Edges /\ deltas[path[n + 1]].to = v
  BY <1>1 DEF PathTo
<1>3. CASE n = 0
  <2>1. SubSeq(path, 1, n) = << >> /\ << >> \in Seq(Nat) /\ Len(<< >>) = 0
    BY <1>3 DEF PathTo
  <2>2. deltas[path[n + 1]].from = input.from
    BY <1>3 DEF PathTo
  <2> QED BY <1>2, <1>3, <2>1, <2>2 DEF PathTo
<1>4. CASE n # 0
  <2>1. n \in 1 .. n + 1 /\ n \in 1 .. (n + 1) - 1
    BY <1>4
  <2>2. PathTo(SubSeq(path, 1, n), deltas[path[n]].to, n)
    BY <2>1, PathStart
  <2>3. deltas[path[n]].to = deltas[path[n + 1]].from
    BY <2>1 DEF PathTo
  <2> QED BY <1>2, <2>2, <2>3
<1> QED BY <1>3, <1>4

HasChain(v, n) == \E path : PathTo(path, v, n)

(* From the installed version there is a chain to each later one, with the  *)
(* number of deltas the doc of delta_bases promises: the last delta bridges *)
(* the largest power of two.                                                *)
LEMMA ShortChain ==
  ASSUME input \in Input, NEW direct \in Nat \ {0}, ShipsBases(direct),
         NEW d \in 1 .. Gap
  PROVE  \E h \in Nat \ {0} : HasChain(input.from + d, h) /\ Doubled[h - 1] <= d
<1> DEFINE Short(x) == \E h \in Nat \ {0} :
                         HasChain(input.from + x, h) /\ Doubled[h - 1] <= x
           Long == {x \in 1 .. Gap : ~Short(x)}
<1>1. input.from \in Nat /\ input.to \in Nat
  BY InputFacts
<1>2. Gap \in Int /\ \A x \in 1 .. Gap :
        x \in Nat \ {0} /\ input.from + x \in input.from + 1 .. input.to
  BY <1>1 DEF Gap
<1> SUFFICES ASSUME Long # {} PROVE FALSE
  OBVIOUS
<1>3. Long \in SUBSET Nat
  BY <1>2
<1>4. PICK m \in Long : \A x \in Long : m <= x
  BY <1>3, LeastNumber
<1>5. m \in 1 .. Gap /\ m \in Nat \ {0} /\ ~Short(m) /\ \A x \in 1 .. Gap : x < m => Short(x)
  <2>1. \A x \in 1 .. Gap : x < m => x \notin Long
    BY <1>2, <1>3, <1>4
  <2> QED BY <1>2, <2>1
<1>6. PICK k \in Nat : Doubled[k] <= m /\ m < Doubled[k + 1]
  BY <1>5, LargestStep
<1>7. /\ Doubled[k] \in Nat /\ k < Doubled[k] /\ Doubled[0] = 1
      /\ Doubled[k + 1] = 2 * Doubled[k]
  BY DoubledGrows
<1> DEFINE n == input.from + m
           rest == m - Doubled[k]
<1>8. /\ n \in input.from + 1 .. input.to /\ n \in Nat /\ rest \in Nat
      /\ rest < Doubled[k] /\ rest < m /\ n - Doubled[k] = input.from + rest
      /\ Doubled[k] \in 1 .. n /\ k \in Nat /\ k <= n
  <2>1. Doubled[k] > 0
    BY <1>7
  <2> QED BY <1>1, <1>2, <1>5, <1>6, <1>7, <2>1
<1>9. n - Doubled[k] \in DeltaBases(n, direct)
  <2>1. CASE k = 0
    <3>1. Doubled[k] <= direct
      BY <1>7, <2>1
    <3> QED BY <1>8, <3>1 DEF DeltaBases
  <2>2. CASE k # 0
    <3>1. k \in 1 .. n
      BY <1>8, <2>2
    <3>2. Doubled[k] <= direct \/ Doubled[k] > direct
      BY <1>7
    <3> QED BY <1>8, <3>1, <3>2 DEF DeltaBases
  <2> QED BY <2>1, <2>2
<1>10. PICK i \in Edges : deltas[i].from = input.from + rest /\ deltas[i].to = n
  <2>1. n - Doubled[k] >= input.from
    BY <1>1, <1>8
  <2>2. \E i \in Edges : deltas[i].from = n - Doubled[k] /\ deltas[i].to = n
    BY <1>8, <1>9, <2>1 DEF ShipsBases
  <2> QED BY <1>8, <2>2
<1>11. \A h \in Nat : HasChain(input.from + rest, h) => HasChain(input.from + m, h + 1)
  <2> SUFFICES ASSUME NEW h \in Nat, NEW path, PathTo(path, deltas[i].from, h)
               PROVE  PathTo(Append(path, i), deltas[i].to, h + 1)
    BY <1>10 DEF HasChain
  <2> QED BY PathAppend
<1>12. CASE rest = 0
  <2>1. HasChain(input.from + rest, 0)
    <3>1. << >> \in Seq(Nat) /\ Len(<< >>) = 0 /\ input.from + rest = input.from
      BY <1>1, <1>12
    <3>2. PathTo(<< >>, input.from + rest, 0)
      BY <3>1 DEF PathTo
    <3> QED BY <3>2 DEF HasChain
  <2>2. HasChain(input.from + m, 0 + 1)
    BY <1>11, <2>1
  <2>3. 0 + 1 \in Nat \ {0} /\ Doubled[(0 + 1) - 1] <= m
    BY <1>5, <1>7
  <2> QED BY <1>5, <2>2, <2>3
<1>13. CASE rest # 0
  <2>1. rest \in 1 .. Gap
    BY <1>2, <1>5, <1>8, <1>13
  <2>2. PICK h \in Nat \ {0} : HasChain(input.from + rest, h) /\ Doubled[h - 1] <= rest
    BY <1>5, <1>8, <2>1
  <2>3. h - 1 \in Nat /\ Doubled[h - 1] \in Nat /\ Doubled[h - 1] < Doubled[k]
    BY <1>7, <1>8, <2>2, DoubledGrows
  <2>4. h <= k
    <3>1. SUFFICES ASSUME k <= h - 1 PROVE FALSE
      BY <2>3
    <3>2. Doubled[k] <= Doubled[h - 1]
      BY <2>3, <3>1, DoubledMonotone
    <3> QED BY <1>7, <2>3, <3>2
  <2>5. h + 1 \in Nat \ {0} /\ (h + 1) - 1 = h /\ Doubled[h] <= Doubled[k] /\ Doubled[h] \in Nat
    BY <2>4, DoubledMonotone, DoubledGrows
  <2>6. HasChain(input.from + m, h + 1)
    BY <1>11, <2>2
  <2>7. Doubled[(h + 1) - 1] <= m
    BY <1>5, <1>6, <1>7, <2>5
  <2> QED BY <1>5, <2>5, <2>6, <2>7
<1> QED BY <1>12, <1>13

(* No chain is overlooked.                                                  *)
Collected == \A v : HasChain(v, round) => \E c \in chains : c.to = v

Arrived == \A n \in 1 .. round : HasChain(input.to, n) => \E a \in arrived : a.hops = n

(* When all deltas cost the same, chains cost what their length says.       *)
Uniform(unit) ==
  /\ \A v \in DOMAIN layer : layer[v].cost = unit * round
  /\ stage = "extend" => \A v \in DOMAIN next : next[v].cost = unit * (round + 1)
  /\ best # NoChain => best.cost = unit * Len(best.path)
  /\ \A c \in chains : c.cost = unit * round
  /\ \A a \in arrived : a.cost = unit * a.hops

CostsAre(unit) == \A i \in Edges : CostOf(i) = unit

ReachInv ==
  /\ Collected
  /\ Arrived
  /\ \A unit \in Nat : CostsAre(unit) => Uniform(unit)

(* The initial state.                                                       *)
LEMMA InitReach == PlanInit => ReachInv
<1> SUFFICES ASSUME PlanInit PROVE ReachInv
  OBVIOUS
<1>1. input \in Input
  BY InputsAssumption DEF PlanInit
<1>2. NoChain.cost = 0 /\ NoChain.path = << >>
  BY DEF NoChain, Chain
<1>3. /\ DOMAIN layer = {input.from} /\ layer[input.from] = NoChain /\ DOMAIN next = {}
      /\ round = 0 /\ best = NoChain /\ arrived = {}
      /\ chains = {[to |-> input.from, cost |-> 0, known |-> TRUE]}
  BY DEF PlanInit, NoChains
<1>4. Collected
  BY <1>3 DEF Collected, HasChain, PathTo
<1>5. Arrived
  BY <1>3 DEF Arrived
<1>6. ASSUME NEW unit \in Nat PROVE Uniform(unit)
  <2>1. unit * 0 = 0
    OBVIOUS
  <2> QED BY <1>2, <1>3, <2>1 DEF Uniform
<1> QED BY <1>4, <1>5, <1>6 DEF ReachInv

(* A turn of the inner loop.                                                *)
LEMMA ExtendReach == PlanInv /\ ReachInv /\ Extend => ReachInv'
<1> SUFFICES ASSUME PlanInv, ReachInv, Extend PROVE ReachInv'
  OBVIOUS
<1>1. /\ input' = input /\ stage' = stage /\ round' = round /\ layer' = layer
      /\ best' = best /\ chains' = chains /\ arrived' = arrived
      /\ stage = "extend" /\ at \in DOMAIN deltas
  BY DEF Extend
<1>2. input \in Input /\ round \in Nat
  BY InputFacts DEF PlanInv, TypeOK
<1>3. deltas' = deltas /\ Edges' = Edges /\ \A i : CostOf(i)' = CostOf(i)
  BY <1>1 DEF deltas, Edges, CostOf
<1>4. Collected' /\ Arrived'
  BY <1>1, <1>3 DEF ReachInv, Collected, Arrived, HasChain, PathTo
<1>5. ASSUME NEW unit \in Nat, CostsAre(unit)' PROVE Uniform(unit)'
  <2>1. CostsAre(unit)
    BY <1>3, <1>5 DEF CostsAre
  <2>2. Uniform(unit)
    BY <2>1 DEF ReachInv
  <2>3. \A v \in DOMAIN next' : next'[v].cost = unit * (round + 1)
    <3>1. CASE Reaches(at) /\ Improves(at)
      <4>1. next' = Inserted(next, deltas[at].to, Candidate(at))
        BY <3>1 DEF Extend
      <4>2. Candidate(at).cost = layer[deltas[at].from].cost + CostOf(at)
        BY DEF Candidate, Chain
      <4>3. layer[deltas[at].from].cost = unit * round /\ CostOf(at) = unit
        BY <2>1, <2>2, <3>1 DEF Uniform, Reaches, CostsAre
      <4>4. unit * round + unit = unit * (round + 1)
        BY <1>2
      <4>5. Candidate(at).cost = unit * (round + 1)
        BY <4>2, <4>3, <4>4
      <4>6. \A v \in DOMAIN next : next[v].cost = unit * (round + 1)
        BY <1>1, <2>2 DEF Uniform
      <4>7. /\ DOMAIN next' = DOMAIN next \cup {deltas[at].to}
            /\ \A v \in DOMAIN next' :
                 next'[v] = IF v = deltas[at].to THEN Candidate(at) ELSE next[v]
        BY <4>1 DEF Inserted
      <4> QED BY <4>5, <4>6, <4>7
    <3>2. CASE ~(Reaches(at) /\ Improves(at))
      BY <1>1, <2>2, <3>2 DEF Extend, Uniform
    <3> QED BY <3>1, <3>2
  <2> QED BY <1>1, <2>2, <2>3 DEF Uniform
<1> QED BY <1>4, <1>5 DEF ReachInv

(* The end of a round.                                                      *)
LEMMA EndRoundReach == PlanInv /\ ReachInv /\ EndRound => ReachInv'
<1> SUFFICES ASSUME PlanInv, ReachInv, EndRound PROVE ReachInv'
  OBVIOUS
<1>1. /\ input' = input /\ plan' = plan /\ at' = 1 /\ next' = NoChains /\ best' = Best
      /\ stage = "extend" /\ at \notin DOMAIN deltas
  BY DEF EndRound
<1>2. /\ input \in Input /\ round \in Nat
      /\ next \in [DOMAIN next -> ChainType] /\ Sound(next, round + 1)
  BY <1>1, InputFacts DEF PlanInv, TypeOK
<1>3. deltas' = deltas /\ Edges' = Edges /\ \A i : CostOf(i)' = CostOf(i)
  BY <1>1 DEF deltas, Edges, CostOf
<1>4. DOMAIN next' = {}
  BY <1>1 DEF NoChains
<1>5. ASSUME NEW unit \in Nat, Uniform(unit), Best # NoChain
      PROVE  Best.cost = unit * Len(Best.path)
  <2>1. CASE input.to \in DOMAIN next /\ (best = NoChain \/ Better(next[input.to], best))
    <3>1. Best = next[input.to]
      BY <2>1 DEF Best
    <3>2. Len(next[input.to].path) = round + 1
      BY <1>2, <2>1 DEF Sound, PathTo
    <3>3. next[input.to].cost = unit * (round + 1)
      BY <1>1, <1>5, <2>1 DEF Uniform
    <3> QED BY <3>1, <3>2, <3>3
  <2>2. CASE ~(input.to \in DOMAIN next /\ (best = NoChain \/ Better(next[input.to], best)))
    <3>1. Best = best
      BY <2>2 DEF Best
    <3> QED BY <1>5, <3>1 DEF Uniform
  <2> QED BY <2>1, <2>2
<1>6. CASE DOMAIN next = {}
  <2>1. /\ stage' = "decide" /\ round' = round /\ layer' = layer
        /\ chains' = chains /\ arrived' = arrived
    BY <1>6 DEF EndRound
  <2>2. Collected' /\ Arrived'
    BY <1>1, <1>3, <2>1 DEF ReachInv, Collected, Arrived, HasChain, PathTo
  <2>3. ASSUME NEW unit \in Nat, CostsAre(unit)' PROVE Uniform(unit)'
    <3>1. Uniform(unit)
      BY <1>3, <2>3 DEF CostsAre, ReachInv
    <3>2. Best # NoChain => Best.cost = unit * Len(Best.path)
      BY <1>5, <3>1
    <3> HIDE DEF Best
    <3> QED BY <1>1, <2>1, <3>1, <3>2 DEF Uniform
  <2> QED BY <2>2, <2>3 DEF ReachInv
<1>7. CASE DOMAIN next # {}
  <2>1. /\ stage' = IF round + 1 = input.limit THEN "decide" ELSE "extend"
        /\ round' = round + 1 /\ layer' = next /\ chains' = Longer(chains)
        /\ arrived' = arrived \cup Arrivals(Longer(chains), round + 1)
    BY <1>7 DEF EndRound, LastRound
  <2>2. ASSUME NEW path, NEW v, PathTo(path, v, round + 1)
        PROVE  \E c \in Longer(chains) : c.to = v
    <3> DEFINE i == path[round + 1]
    <3>1. /\ i \in Edges /\ deltas[i].to = v
          /\ PathTo(SubSeq(path, 1, round), deltas[i].from, round)
      BY <1>2, <2>2, PathFront
    <3>2. PICK c \in chains : c.to = deltas[i].from
      BY <3>1 DEF ReachInv, Collected, HasChain
    <3> DEFINE l == [to |-> deltas[i].to, cost |-> c.cost + CostOf(i),
                     known |-> c.known /\ deltas[i].size > 0]
    <3>3. << c, i >> \in {q \in chains \X Edges : deltas[q[2]].from = q[1].to}
      BY <3>1, <3>2
    <3>4. l \in Longer(chains)
      BY <3>3 DEF Longer
    <3>5. l.to = v
      BY <3>1
    <3> QED BY <3>4, <3>5
  <2>3. Collected'
    BY <1>1, <1>3, <2>1, <2>2 DEF Collected, HasChain, PathTo
  <2>4. Arrived'
    <3>1. ASSUME NEW n \in 1 .. round + 1, HasChain(input.to, n)
          PROVE  \E a \in arrived \cup Arrivals(Longer(chains), round + 1) : a.hops = n
      <4>1. CASE n = round + 1
        <5>1. PICK c \in Longer(chains) : c.to = input.to
          BY <2>2, <3>1, <4>1 DEF HasChain
        <5> DEFINE a == [cost |-> c.cost, hops |-> round + 1, known |-> c.known]
        <5>2. a \in Arrivals(Longer(chains), round + 1)
          BY <5>1 DEF Arrivals
        <5>3. a.hops = n
          BY <4>1
        <5> QED BY <5>2, <5>3
      <4>2. CASE n # round + 1
        <5>1. n \in 1 .. round
          BY <1>2, <4>2
        <5> QED BY <3>1, <5>1 DEF ReachInv, Arrived, HasChain
      <4> QED BY <4>1, <4>2
    <3>2. \A v, n : HasChain(v, n)' <=> HasChain(v, n)
      BY <1>1, <1>3 DEF HasChain, PathTo
    <3>3. ASSUME NEW n \in 1 .. round + 1, HasChain(input.to, n)'
          PROVE  \E a \in arrived' : a.hops = n
      <4>1. HasChain(input.to, n)
        BY <1>1, <3>2, <3>3
      <4> QED BY <2>1, <3>1, <4>1
    <3> QED BY <1>1, <2>1, <3>3 DEF Arrived
  <2>5. ASSUME NEW unit \in Nat, CostsAre(unit)' PROVE Uniform(unit)'
    <3>1. CostsAre(unit) /\ Uniform(unit)
      BY <1>3, <2>5 DEF CostsAre, ReachInv
    <3>2. Best # NoChain => Best.cost = unit * Len(Best.path)
      BY <1>5, <3>1
    <3>3. \A v \in DOMAIN next : next[v].cost = unit * (round + 1)
      BY <1>1, <3>1 DEF Uniform
    <3>4. \A c \in Longer(chains) : c.cost = unit * (round + 1)
      <4> SUFFICES ASSUME NEW p \in chains \X Edges
                   PROVE  p[1].cost + CostOf(p[2]) = unit * (round + 1)
        BY DEF Longer
      <4>1. p[1].cost = unit * round /\ CostOf(p[2]) = unit
        BY <3>1 DEF Uniform, CostsAre
      <4>2. unit * round + unit = unit * (round + 1)
        BY <1>2
      <4> QED BY <4>1, <4>2
    <3>5. \A a \in Arrivals(Longer(chains), round + 1) : a.cost = unit * a.hops
      BY <3>4 DEF Arrivals
    <3>6. \A a \in arrived \cup Arrivals(Longer(chains), round + 1) : a.cost = unit * a.hops
      BY <3>1, <3>5 DEF Uniform
    <3> HIDE DEF Best
    <3> QED BY <1>1, <1>4, <2>1, <3>2, <3>3, <3>4, <3>6 DEF Uniform
  <2> QED BY <2>3, <2>4, <2>5 DEF ReachInv
<1> QED BY <1>6, <1>7

(* They hold in every state of every behaviour.                             *)
THEOREM ChainsCollected == PlanSpec => []ReachInv
<1>1. PlanInv /\ ReachInv /\ [PlanNext]_plan_vars => ReachInv'
  <2> SUFFICES ASSUME PlanInv, ReachInv, [PlanNext]_plan_vars PROVE ReachInv'
    OBVIOUS
  <2>1. ASSUME UNCHANGED << input, round, layer, next, best, chains, arrived >>,
               stage' = "extend" => stage = "extend"
        PROVE  ReachInv'
    BY <2>1 DEF ReachInv, Collected, Arrived, Uniform, CostsAre, HasChain,
                  PathTo, CostOf, Edges, deltas
  <2>2. CASE Extend
    BY <2>2, ExtendReach
  <2>3. CASE EndRound
    BY <2>3, EndRoundReach
  <2>4. CASE Decide
    BY <2>1, <2>4 DEF Decide
  <2>5. CASE UNCHANGED plan_vars
    BY <2>1, <2>5 DEF plan_vars
  <2> QED BY <2>2, <2>3, <2>4, <2>5 DEF PlanNext
<1> QED BY <1>1, InitReach, PlanInvariance, PTL DEF PlanSpec

(* A user d releases behind, all of which were published with delta_bases,  *)
(* reaches the newest in at most log2(d) + 1 deltas.                        *)
THEOREM GapsAreShort == PlanSpec => []GapIsShort
<1>1. PlanInv /\ ReachInv => GapIsShort
  <2> SUFFICES ASSUME PlanInv, ReachInv, stage = "done", SameCost, input.from < input.to,
                      NEW direct \in 1 .. input.to, ShipsBases(direct),
                      Gap < Doubled[input.limit]
               PROVE  /\ best # NoChain
                      /\ Len(best.path) > 1 => Doubled[Len(best.path) - 1] <= Gap
                      /\ input.full = 0 => plan = best.path
    BY DEF GapIsShort
  <2>1. /\ input \in Input /\ input.from \in Nat /\ input.to \in Nat /\ input.limit \in Nat
        /\ round \in 0 .. input.limit /\ round \in Nat
        /\ arrived \subseteq [cost : Nat, hops : Nat, known : BOOLEAN]
    BY InputFacts DEF PlanInv, TypeOK
  <2>2. Gap \in 1 .. Gap /\ Gap \in Nat /\ input.from + Gap = input.to /\ direct \in Nat \ {0}
    BY <2>1 DEF Gap
  <2>3. PICK h \in Nat \ {0} : HasChain(input.from + Gap, h) /\ Doubled[h - 1] <= Gap
    BY <2>1, <2>2, ShortChain
  <2> PICK path : PathTo(path, input.to, h)
    BY <2>2, <2>3 DEF HasChain
  <2>4. PathTo(path, input.to, h) /\ h - 1 \in Nat /\ Doubled[h - 1] \in Nat
    BY <2>2, <2>3, DoubledGrows
  <2>5. h <= input.limit
    <3> SUFFICES ASSUME input.limit <= h - 1 PROVE FALSE
      BY <2>1
    <3>1. Doubled[input.limit] <= Doubled[h - 1] /\ Doubled[input.limit] \in Nat
      BY <2>1, <2>4, DoubledMonotone, DoubledGrows
    <3> QED BY <2>2, <2>3, <2>4, <3>1
  <2>6. h <= round
    <3> SUFFICES ASSUME round < h PROVE FALSE
      BY <2>1
    <3>1. Longer(chains) = {}
      BY <2>1, <2>5 DEF PlanInv, Control
    <3> DEFINE start == SubSeq(path, 1, round + 1)
               last == start[round + 1]
               v == deltas[path[round + 1]].to
    <3>2. round + 1 \in 1 .. h
      BY <2>1
    <3>3. PathTo(start, v, round + 1)
      BY <2>4, <3>2, PathStart
    <3> HIDE DEF start, v
    <3>4. last \in Edges /\ PathTo(SubSeq(start, 1, round), deltas[last].from, round)
      BY <2>1, <3>3, PathFront
    <3>5. PICK c \in chains : c.to = deltas[last].from
      BY <3>4 DEF ReachInv, Collected, HasChain
    <3>6. << c, last >> \in {q \in chains \X Edges : deltas[q[2]].from = q[1].to}
      BY <3>4, <3>5
    <3>7. [to |-> deltas[last].to, cost |-> c.cost + CostOf(last),
           known |-> c.known /\ deltas[last].size > 0] \in Longer(chains)
      <4> HIDE DEF last
      <4> QED BY <3>6 DEF Longer
    <3> QED BY <3>1, <3>7
  <2>7. PICK a \in arrived : a.hops = h
    <3>1. h \in 1 .. round
      BY <2>1, <2>6
    <3> QED BY <2>4, <3>1 DEF ReachInv, Arrived, HasChain
  <2>8. PICK i \in Edges : TRUE
    <3>1. 1 \in 1 .. h
      OBVIOUS
    <3> QED BY <2>4, <3>1 DEF PathTo
  <2> DEFINE unit == CostOf(i)
  <2>9. unit \in Nat /\ unit > 0 /\ CostsAre(unit)
    BY <2>1, EdgeFacts DEF SameCost, CostsAre
  <2> HIDE DEF unit
  <2>10. best # NoChain /\ best.cost <= a.cost
    BY DEF PlanInv, BestCheapest
  <2>11. best.cost = unit * Len(best.path) /\ a.cost = unit * h
    BY <2>7, <2>9, <2>10 DEF ReachInv, Uniform
  <2>12. Len(best.path) \in 1 .. round
    BY <2>10 DEF PlanInv, BestSound
  <2>13. Len(best.path) <= h
    <3> DEFINE n == Len(best.path)
    <3>1. n \in Nat /\ unit * n <= unit * h
      BY <2>10, <2>11, <2>12
    <3> HIDE DEF n
    <3>2. SUFFICES ASSUME h + 1 <= n PROVE FALSE
      BY <3>1 DEF n
    <3>3. unit * n = unit * h + unit * (n - h)
      BY <2>9, <3>1
    <3>4. unit * (n - h) >= unit
      <4>1. n - h - 1 \in Nat
        BY <3>1, <3>2
      <4>2. unit * (n - h) = unit * (n - h - 1) + unit
        BY <2>9, <3>1
      <4>3. unit * (n - h - 1) \in Nat
        BY <2>9, <4>1
      <4> QED BY <2>9, <4>2, <4>3
    <3>5. unit * h \in Nat /\ unit * (n - h) \in Int
      BY <2>9, <3>1
    <3> QED BY <2>9, <3>1, <3>3, <3>4, <3>5
  <2>14. Len(best.path) > 1 => Doubled[Len(best.path) - 1] <= Gap
    <3>1. Len(best.path) - 1 \in Nat /\ Len(best.path) - 1 <= h - 1
      BY <2>1, <2>12, <2>13
    <3>2. Doubled[Len(best.path) - 1] <= Doubled[h - 1] /\ Doubled[Len(best.path) - 1] \in Nat
      BY <2>4, <3>1, DoubledMonotone, DoubledGrows
    <3> QED BY <2>2, <2>3, <2>4, <3>2
  <2>15. input.full = 0 => plan = best.path
    BY DEF PlanInv, Control, Pays
  <2> QED BY <2>10, <2>14, <2>15
<1> QED BY <1>1, PlanInvariance, ChainsCollected, PTL

------------------------------------------------------------------------------
(* Applying (DeltaFile).                                                    *)

(* What a header lists: paths and nodes, in a sequence.                     *)
Listing(list) ==
  /\ Len(list) \in Nat /\ DOMAIN list = 1 .. Len(list)
  /\ \A i \in 1 .. Len(list) : list[i].path \in Seq(STRING) /\ list[i].node \in Node

(* A header that describes the tree, whatever the sources of its files.     *)
Describes(header, tree) ==
  /\ header.root = tree[Root].kind
  /\ \A i \in DOMAIN header.entries : header.entries[i].node = tree[header.entries[i].path]
  /\ \E walk \in Walks(tree) :
       /\ DOMAIN header.entries = DOMAIN walk
       /\ \A i \in DOMAIN walk : header.entries[i].path = walk[i]

(* Its sources are those creation chooses between.                          *)
Sourced(header, from, to) ==
  \A i \in DOMAIN header.entries :
    header.entries[i].source \in Sources(from, to, header.entries[i].path)

(* A function of paths, in which every node but the root is in a directory. *)
Shaped(tree) ==
  /\ tree = [p \in DOMAIN tree |-> tree[p]]
  /\ \A p \in DOMAIN tree :
       p # Root => Parent(p) \in DOMAIN tree /\ tree[Parent(p)].kind = "dir"

(* The first k entries are in the tree, directories up to the m-th without  *)
(* their modes.                                                             *)
Laid(header, tree, k, m) ==
  /\ DOMAIN tree = {header.entries[i].path : i \in 1 .. k}
                     \cup (IF header.root = "dir" THEN {Root} ELSE {})
  /\ header.root = "dir" => tree[Root] = Dir("writable")
  /\ \A i \in 1 .. k :
       tree[header.entries[i].path] =
         IF header.entries[i].node.kind = "dir" /\ i <= m THEN Dir("writable")
         ELSE Recreated(header.entries[i].node)

(* Each file of the header has the content of a file of the tree, or comes  *)
(* from where such a file does.                                             *)
Traced(header, from, to) ==
  \A i \in DOMAIN header.entries : header.entries[i].node.kind = "file" =>
    \E p \in DOMAIN to :
      /\ IsFile(to, p)
      /\ \/ header.entries[i].node.content = to[p].content
         \/ header.entries[i].source \in Sources(from, to, p)

(* The files among the first k entries were rebuilt.                        *)
RebuiltTo(k) == \A i \in 1 .. k : entries[i].node.kind = "file" => Rebuilt(entries[i])

(* The states of the output path.                                           *)
Phases ==
  /\ pc \in {"make", "start", "write", "modes", "clean", "ended", "ship", "rejected"}
  /\ who \in {"release", "app"} /\ origin \in {"release", "foreign"}
  /\ pc # "ended" => result = "none" /\ faulted # "removal"
  /\ pc = "ended" => result \in {"ok", "error"}
  /\ pc \in {"make", "ship", "rejected"} => who = "release"
  /\ who = "release" => before = NoTree /\ damaged = "nothing" /\ faulted = "nothing"
  /\ pc \in {"make", "start", "ship"} => out = before
  /\ pc \in {"write", "modes", "clean"} => before = NoTree /\ Shaped(out)
  /\ pc = "ended" /\ result = "error" =>
       IF faulted = "removal" THEN before = NoTree ELSE out = before
  /\ ~escaped

(* Where the delta came from.                                               *)
Provenance ==
  /\ Listing(entries) /\ delta.root \in {"dir", "file"}
  /\ origin = "foreign" => delta \in Foreign /\ pc # "make" /\ who = "app"
  /\ origin = "release" =>
       /\ Tree(old) /\ Tree(new) /\ Tree(installed)
       /\ pc # "make" => \/ SameKind(old, new) /\ Traced(delta, old, new)
                         \/ ~SameKind(old, new) /\ pc = "ended" /\ result = "error"
       /\ pc # "make" /\ SameKind(old, new) =>
            /\ damaged # "header" => Describes(delta, new)
            /\ damaged = "nothing" => Sourced(delta, old, new)
  /\ damaged \in {"nothing", "blob", "header"}
  /\ verified => origin = "release" /\ (who = "app" \/ pc = "ship")
  /\ verified /\ damaged = "nothing" => Valid(delta)

(* How far the application is.                                              *)
Progress ==
  /\ pc \in {"write", "modes"} => Valid(delta)
  /\ pc = "ended" /\ result = "ok" => Valid(delta)
  /\ pc = "write" => /\ place \in 1 .. Len(entries) + 1 /\ RebuiltTo(place - 1)
                     /\ Laid(delta, out, place - 1, Len(entries))
  /\ pc = "modes" => /\ place \in 0 .. Len(entries) /\ RebuiltTo(Len(entries))
                     /\ Laid(delta, out, Len(entries), place)
  /\ pc = "ended" /\ result = "ok" =>
       /\ Lists(delta, out)
       /\ origin = "release" => Genuine(out) /\ (damaged # "header" => out = Expected(new))

(* Nothing keeps the delta from being applied.                              *)
Undisturbed ==
  /\ origin = "release" /\ SameKind(old, new)
  /\ verified \/ Portable(new)
  /\ who = "app" => Serves /\ damaged = "nothing" /\ faulted = "nothing"
Succeeding ==
  /\ Undisturbed => pc # "clean"
  /\ Undisturbed /\ pc = "ended" /\ before = NoTree => result = "ok"
  /\ pc = "rejected" => \E p \in DOMAIN new : new[p].mode = "set-user-ID"

IInv == Phases /\ Provenance /\ Progress /\ Succeeding

------------------------------------------------------------------------------
(* Paths and nodes.                                                         *)

(* Paths are sequences of names, and the unsafe ones are not the root.      *)
LEMMA PathsAreSequences ==
  /\ Path \subseteq Seq(STRING)
  /\ Root \notin Unsafe
<1>1. \A i \in 1 .. Len(Order) : Order[i] \in Seq(STRING)
  BY OrderAssumption
<1>2. Root \in Seq(STRING)
  BY DEF Root
<1> QED
  BY <1>1, <1>2, OrderAssumption DEF Path

(* What is one name deep is in the root; what is deeper is in a path that   *)
(* is shorter by one name.                                                  *)
LEMMA ParentFacts ==
  ASSUME NEW p \in Seq(STRING)
  PROVE  /\ Parent(p) # p \/ p = Root
         /\ p # Root => Len(p) >= 1 /\ Parent(p) \in Seq(STRING) /\ Len(Parent(p)) = Len(p) - 1
         /\ p # Root /\ ~(Len(p) > 1) => Parent(p) = Root
         /\ Len(p) > 1 => p # Root /\ Parent(p) # Root
<1>1. p # Root => Len(p) >= 1
  BY DEF Root
<1>2. p # Root => Parent(p) \in Seq(STRING) /\ Len(Parent(p)) = Len(p) - 1
  <2> SUFFICES ASSUME p # Root
               PROVE  Parent(p) \in Seq(STRING) /\ Len(Parent(p)) = Len(p) - 1
    OBVIOUS
  <2> DEFINE n == Len(p) - 1
  <2>1. n \in Int /\ n >= 0 /\ 1 \in Int /\ \A i \in 1 .. n : p[i] \in STRING
    BY <1>1
  <2>2. Parent(p) = SubSeq(p, 1, n)
    BY DEF Parent
  <2> HIDE DEF n
  <2>3. SubSeq(p, 1, n) \in Seq(STRING)
    BY <2>1, SubSeqProperties
  <2>4. Len(SubSeq(p, 1, n)) = n
    <3>1. Len(SubSeq(p, 1, n)) = IF 1 <= n THEN n - 1 + 1 ELSE 0
      BY <2>1, SubSeqProperties
    <3> QED
      BY <3>1, <2>1
  <2> QED
    BY <2>2, <2>3, <2>4 DEF n
<1>3. p # Root /\ ~(Len(p) > 1) => Parent(p) = Root
  <2> SUFFICES ASSUME p # Root, ~(Len(p) > 1) PROVE Parent(p) = Root
    OBVIOUS
  <2>1. Parent(p) \in Seq(STRING) /\ Len(Parent(p)) = 0
    BY <1>1, <1>2
  <2> QED
    BY <2>1 DEF Root
<1>4. Len(Root) = 0
  BY DEF Root
<1> QED
  BY <1>1, <1>2, <1>3, <1>4

(* A node is what its kind says.                                            *)
LEMMA NodeFacts ==
  ASSUME NEW node \in Node
  PROVE  /\ node.kind \in {"dir", "link", "file"} /\ node.mode \in Mode
         /\ node.kind = "dir" => node = Dir(node.mode)
         /\ node.kind = "link" => node = Link(node.target) /\ node.target \in Target
         /\ node.kind = "file" => node = File(node.mode, node.content)
         /\ Recreated(node).kind = node.kind
         /\ node.mode # "set-user-ID" => Recreated(node) = node
         /\ Recreated(node).content = node.content
<1>1. CASE \E mode \in Mode : node = Dir(mode)
  BY <1>1 DEF Dir, Recreated, ModeSet
<1>2. CASE \E target \in Target : node = Link(target)
  BY <1>2 DEF Link, Recreated, Mode
<1>3. CASE \E mode \in Mode, content \in Content : node = File(mode, content)
  BY <1>3 DEF File, Recreated, ModeSet
<1> QED
  BY <1>1, <1>2, <1>3 DEF Node

(* A header of the release tools' or of others lists paths and nodes.       *)
LEMMA ForeignListing ==
  ASSUME NEW header \in Foreign
  PROVE  Listing(header.entries)
<1>1. header.entries \in Seq(Entry)
  BY ForeignAssumption
<1>2. \A i \in 1 .. Len(header.entries) : header.entries[i] \in Entry
  BY <1>1
<1> QED
  BY <1>1, <1>2, PathsAreSequences DEF Listing, Entry

------------------------------------------------------------------------------
(* Trees.                                                                   *)

(* What Put does.                                                           *)
LEMMA PutFacts ==
  ASSUME NEW tree, NEW path, NEW node
  PROVE  /\ DOMAIN Put(tree, path, node) = DOMAIN tree \cup {path}
         /\ Put(tree, path, node)[path] = node
         /\ \A p \in DOMAIN tree : p # path => Put(tree, path, node)[p] = tree[p]
BY DEF Put

(* A node put into a directory of a tree is in a directory of a tree.       *)
LEMMA PutShaped ==
  ASSUME NEW tree, NEW path, NEW node, Shaped(tree), path \notin DOMAIN tree,
         path # Root => Parent(path) \in DOMAIN tree /\ tree[Parent(path)].kind = "dir"
  PROVE  Shaped(Put(tree, path, node))
<1> DEFINE grown == Put(tree, path, node)
<1>1. /\ DOMAIN grown = DOMAIN tree \cup {path}
      /\ \A p \in DOMAIN tree : grown[p] = tree[p]
  BY DEF Put
<1>0. grown = [p \in DOMAIN grown |-> grown[p]]
  BY DEF Put
<1> HIDE DEF grown
<1> SUFFICES ASSUME NEW p \in DOMAIN grown, p # Root
             PROVE  Parent(p) \in DOMAIN grown /\ grown[Parent(p)].kind = "dir"
  BY <1>0 DEF Shaped, grown
<1>2. Parent(p) \in DOMAIN tree /\ tree[Parent(p)].kind = "dir"
  BY <1>1 DEF Shaped
<1> QED
  BY <1>1, <1>2

(* So does a directory that replaces a node.                                *)
LEMMA ModeShaped ==
  ASSUME NEW tree, NEW path \in DOMAIN tree, NEW mode, Shaped(tree)
  PROVE  Shaped(Put(tree, path, Dir(mode)))
<1> DEFINE grown == Put(tree, path, Dir(mode))
<1>1. /\ DOMAIN grown = DOMAIN tree
      /\ grown[path] = Dir(mode)
      /\ \A p \in DOMAIN tree : p # path => grown[p] = tree[p]
  BY DEF Put
<1>0. grown = [p \in DOMAIN grown |-> grown[p]]
  BY DEF Put
<1> HIDE DEF grown
<1>2. Dir(mode).kind = "dir"
  BY DEF Dir
<1> SUFFICES ASSUME NEW p \in DOMAIN grown, p # Root
             PROVE  Parent(p) \in DOMAIN grown /\ grown[Parent(p)].kind = "dir"
  BY <1>0 DEF Shaped, grown
<1>3. Parent(p) \in DOMAIN tree /\ tree[Parent(p)].kind = "dir"
  BY <1>1 DEF Shaped
<1> QED
  BY <1>1, <1>2, <1>3

(* Once its directories can be written to, all of a tree can be removed.    *)
LEMMA CleanedLeavesNothing ==
  ASSUME NEW tree, Shaped(tree)
  PROVE  Cleaned(tree) = NoTree
<1> DEFINE writable == MadeWritable(tree)
<1>1. /\ DOMAIN writable = DOMAIN tree
      /\ \A p \in DOMAIN tree : tree[p].kind = "dir" => writable[p] = Dir("writable")
  BY DEF MadeWritable
<1> HIDE DEF writable
<1>2. Dir("writable").mode # "read-only"
  BY DEF Dir
<1>3. \A q \in DOMAIN writable : q # Root => writable[Parent(q)].mode # "read-only"
  BY <1>1, <1>2 DEF Shaped
<1>4. Undeletable(writable) = {}
  BY <1>3 DEF Undeletable
<1>5. Removed(writable) = [p \in {} |-> writable[p]]
  BY <1>4 DEF Removed
<1>6. [p \in {} |-> writable[p]] = NoTree
  BY DEF NoTree
<1> QED
  BY <1>5, <1>6 DEF Cleaned, writable

------------------------------------------------------------------------------
(* Applying a header that passed validation.                                *)

(* What validation says of an entry.                                        *)
LEMMA ValidEntry ==
  ASSUME NEW header, header.root \in {"dir", "file"}, Listing(header.entries), Valid(header),
         NEW i \in 1 .. Len(header.entries)
  PROVE  /\ header.entries[i].path \notin Unsafe
         /\ \A j \in 1 .. i - 1 : header.entries[j].path # header.entries[i].path
         /\ header.root = "dir" => /\ header.entries[i].path # Root
                                   /\ ParentListed(header.entries, i)
         /\ header.root = "file" => /\ i = 1 /\ header.entries[i].path = Root
                                    /\ header.entries[i].node.kind = "file"
<1>1. CASE header.root = "file"
  <2>1. Len(header.entries) = 1 /\ header.entries[1].path = Root
          /\ header.entries[1].node.kind = "file"
    BY <1>1 DEF Valid
  <2>2. i = 1
    BY <2>1
  <2> QED
    BY <1>1, <2>1, <2>2, PathsAreSequences
<1>2. CASE header.root = "dir"
  <2>1. /\ CheckRel("dir", header.entries[i].path)
        /\ \A j \in 1 .. i - 1 : header.entries[j].path # header.entries[i].path
        /\ ParentListed(header.entries, i)
    BY <1>2 DEF Valid
  <2> QED
    BY <1>2, <2>1 DEF CheckRel
<1> QED
  BY <1>1, <1>2

(* No path is listed twice.                                                 *)
LEMMA DistinctPaths ==
  ASSUME NEW header, header.root \in {"dir", "file"}, Listing(header.entries), Valid(header),
         NEW i \in 1 .. Len(header.entries), NEW j \in 1 .. Len(header.entries), i # j
  PROVE  header.entries[i].path # header.entries[j].path
<1>1. Len(header.entries) \in Nat
  BY DEF Listing
<1>2. i \in 1 .. j - 1 \/ j \in 1 .. i - 1
  BY <1>1
<1> QED
  BY <1>2, ValidEntry

(* The next entry goes into a directory that is there and can be written    *)
(* to, so placing it neither fails nor follows a link.                      *)
LEMMA EntryFits ==
  ASSUME delta.root \in {"dir", "file"}, Listing(entries), Valid(delta),
         place \in 1 .. Len(entries), Laid(delta, out, place - 1, Len(entries))
  PROVE  /\ CanPlace(entries[place].path) /\ ~Leads(entries[place].path)
         /\ entries[place].path \notin DOMAIN out
         /\ entries[place].path # Root =>
              /\ Parent(entries[place].path) \in DOMAIN out
              /\ out[Parent(entries[place].path)].kind = "dir"
<1> DEFINE path == entries[place].path
<1> USE DEF entries
<1>0. Dir("writable").kind = "dir" /\ Dir("writable").mode = "writable"
  BY DEF Dir
<1>1. path \in Seq(STRING) /\ Len(entries) \in Nat
  BY DEF Listing
<1>2. /\ path \notin Unsafe
      /\ \A j \in 1 .. place - 1 : entries[j].path # path
      /\ delta.root = "dir" => path # Root /\ ParentListed(entries, place)
      /\ delta.root = "file" => place = 1 /\ path = Root
  BY ValidEntry
<1>3. /\ DOMAIN out = {entries[i].path : i \in 1 .. place - 1}
                        \cup (IF delta.root = "dir" THEN {Root} ELSE {})
      /\ delta.root = "dir" => out[Root] = Dir("writable")
      /\ \A i \in 1 .. place - 1 :
           entries[i].node.kind = "dir" => out[entries[i].path] = Dir("writable")
  <2>1. \A i \in 1 .. place - 1 : i <= Len(entries)
    BY <1>1
  <2> QED
    BY <2>1 DEF Laid
<1>4. path \notin DOMAIN out
  BY <1>2, <1>3
<1>5. CASE delta.root = "file"
  <2>1. path = Root
    BY <1>2, <1>5
  <2> QED
    BY <1>2, <1>4, <2>1 DEF CanPlace, Leads
<1>6. CASE delta.root = "dir"
  <2>1. Parent(path) \in DOMAIN out /\ out[Parent(path)] = Dir("writable")
    <3>1. CASE Len(path) > 1
      <4>1. PICK j \in 1 .. place - 1 :
                   entries[j].node.kind = "dir" /\ entries[j].path = Parent(path)
        BY <1>2, <1>6, <3>1 DEF ParentListed
      <4> QED
        BY <4>1, <1>3
    <3>2. CASE ~(Len(path) > 1)
      <4>1. Parent(path) = Root
        BY <1>1, <1>2, <1>6, <3>2, ParentFacts
      <4> QED
        BY <4>1, <1>3, <1>6
    <3> QED
      BY <3>1, <3>2
  <2> QED
    BY <1>0, <1>2, <1>4, <2>1 DEF CanPlace, Accepts, Leads
<1> QED
  BY <1>5, <1>6, <1>4

(* Writing it makes the output reach one entry further.                     *)
LEMMA EntryLaid ==
  ASSUME delta.root \in {"dir", "file"}, Listing(entries), Valid(delta),
         place \in 1 .. Len(entries), Laid(delta, out, place - 1, Len(entries)),
         entries[place].node.kind = "file" => Rebuilt(entries[place]),
         out' = Put(out, entries[place].path, Written(entries[place]))
  PROVE  Laid(delta, out', place, Len(entries))
<1> DEFINE path == entries[place].path
<1> USE DEF entries
<1>1. Len(entries) \in Nat /\ entries[place].node \in Node
  BY DEF Listing
<1>2. path \notin DOMAIN out
  BY EntryFits
<1>3. /\ DOMAIN out' = DOMAIN out \cup {path}
      /\ out'[path] = Written(entries[place])
      /\ \A p \in DOMAIN out : out'[p] = out[p]
  <2> DEFINE node == Written(entries[place])
  <2>1. out' = Put(out, path, node)
    OBVIOUS
  <2> HIDE DEF path, node
  <2>2. \A p \in DOMAIN out : p # path
    BY <1>2 DEF path
  <2>3. out' = [p \in DOMAIN out \cup {path} |-> IF p = path THEN node ELSE out[p]]
    BY <2>1 DEF Put
  <2>4. /\ DOMAIN out' = DOMAIN out \cup {path}
        /\ out'[path] = node
        /\ \A p \in DOMAIN out : out'[p] = out[p]
    BY <2>2, <2>3
  <2> QED
    BY <2>4 DEF path, node
<1>4. Written(entries[place]) =
        IF entries[place].node.kind = "dir" THEN Dir("writable")
        ELSE Recreated(entries[place].node)
  BY <1>1, NodeFacts DEF Written, Recreated, Rebuilt
<1>5. /\ DOMAIN out = {entries[i].path : i \in 1 .. place - 1}
                        \cup (IF delta.root = "dir" THEN {Root} ELSE {})
      /\ delta.root = "dir" => out[Root] = Dir("writable")
      /\ \A i \in 1 .. place - 1 :
           out[entries[i].path] =
             IF entries[i].node.kind = "dir" /\ i <= Len(entries) THEN Dir("writable")
             ELSE Recreated(entries[i].node)
  BY DEF Laid
<1>6. 1 .. place = (1 .. place - 1) \cup {place} /\ place <= Len(entries)
  BY <1>1
<1>7. DOMAIN out' = {entries[i].path : i \in 1 .. place}
                      \cup (IF delta.root = "dir" THEN {Root} ELSE {})
  <2>1. {entries[i].path : i \in 1 .. place} = {entries[i].path : i \in 1 .. place - 1} \cup {path}
    BY <1>6
  <2> QED
    BY <1>3, <1>5, <2>1
<1>8. \A i \in 1 .. place :
        out'[entries[i].path] =
          IF entries[i].node.kind = "dir" /\ i <= Len(entries) THEN Dir("writable")
          ELSE Recreated(entries[i].node)
  <2> TAKE i \in 1 .. place
  <2>1. CASE i = place
    BY <2>1, <1>3, <1>4, <1>6
  <2>2. CASE i \in 1 .. place - 1
    <3>1. entries[i].path \in DOMAIN out
      BY <2>2, <1>5
    <3> QED
      BY <2>2, <3>1, <1>3, <1>5
  <2> QED
    BY <2>1, <2>2, <1>6
<1>9. delta.root = "dir" => out'[Root] = Dir("writable")
  BY <1>3, <1>5
<1> QED
  BY <1>6, <1>7, <1>8, <1>9 DEF Laid

(* Setting its mode leaves one entry less to be set.                        *)
LEMMA ModeLaid ==
  ASSUME delta.root \in {"dir", "file"}, Listing(entries), Valid(delta),
         place \in 1 .. Len(entries), Laid(delta, out, Len(entries), place),
         out' = IF entries[place].node.kind = "dir"
                  THEN Put(out, entries[place].path, Dir(ModeSet(entries[place].node.mode)))
                  ELSE out
  PROVE  Laid(delta, out', Len(entries), place - 1)
<1> DEFINE path == entries[place].path
<1> USE DEF entries
<1>1. Len(entries) \in Nat /\ entries[place].node \in Node
  BY DEF Listing
<1>2. /\ DOMAIN out = {entries[i].path : i \in 1 .. Len(entries)}
                        \cup (IF delta.root = "dir" THEN {Root} ELSE {})
      /\ delta.root = "dir" => out[Root] = Dir("writable")
      /\ \A i \in 1 .. Len(entries) :
           out[entries[i].path] =
             IF entries[i].node.kind = "dir" /\ i <= place THEN Dir("writable")
             ELSE Recreated(entries[i].node)
  BY DEF Laid
<1>3. path \in DOMAIN out
  BY <1>2
<1>4. /\ DOMAIN out' = DOMAIN out
      /\ \A p \in DOMAIN out : p # path => out'[p] = out[p]
      /\ entries[place].node.kind = "dir" => out'[path] = Recreated(entries[place].node)
      /\ entries[place].node.kind # "dir" => out'[path] = out[path]
  <2>1. CASE entries[place].node.kind = "dir"
    <3>1. Recreated(entries[place].node) = Dir(ModeSet(entries[place].node.mode))
      BY <2>1 DEF Recreated
    <3> DEFINE node == Recreated(entries[place].node)
    <3>2. out' = Put(out, path, node)
      BY <2>1, <3>1
    <3> HIDE DEF path, node
    <3>3. out' = [p \in DOMAIN out \cup {path} |-> IF p = path THEN node ELSE out[p]]
      BY <3>2 DEF Put
    <3>4. DOMAIN out' = DOMAIN out /\ out'[path] = node
            /\ \A p \in DOMAIN out : p # path => out'[p] = out[p]
      BY <1>3, <3>3 DEF path
    <3> QED
      BY <2>1, <3>4 DEF path, node
  <2>2. CASE entries[place].node.kind # "dir"
    BY <2>2
  <2> QED
    BY <2>1, <2>2
<1>5. \A i \in 1 .. Len(entries) :
        out'[entries[i].path] =
          IF entries[i].node.kind = "dir" /\ i <= place - 1 THEN Dir("writable")
          ELSE Recreated(entries[i].node)
  <2> TAKE i \in 1 .. Len(entries)
  <2>1. CASE i = place
    <3>1. ~(i <= place - 1) /\ i <= place
      BY <2>1, <1>1
    <3>2. out[path] = IF entries[place].node.kind = "dir" THEN Dir("writable")
                      ELSE Recreated(entries[place].node)
      BY <1>2, <3>1, <2>1
    <3> QED
      BY <2>1, <3>1, <3>2, <1>4
  <2>2. CASE i # place
    <3>1. entries[i].path # path /\ entries[i].path \in DOMAIN out
      BY <2>2, <1>2, DistinctPaths
    <3>2. i <= place <=> i <= place - 1
      BY <2>2, <1>1
    <3> QED
      BY <3>1, <3>2, <1>2, <1>4
  <2> QED
    BY <2>1, <2>2
<1>6. delta.root = "dir" => out'[Root] = Dir("writable")
  <2> SUFFICES ASSUME delta.root = "dir" PROVE out'[Root] = Dir("writable")
    OBVIOUS
  <2>1. path # Root
    BY ValidEntry
  <2>2. Root \in DOMAIN out
    BY <1>2
  <2> QED
    BY <2>1, <2>2, <1>2, <1>4
<1> QED
  BY <1>2, <1>4, <1>5, <1>6 DEF Laid

------------------------------------------------------------------------------
(* What creation makes.                                                     *)

(* Where a file comes from: what it names in the old build is there, with   *)
(* the content it is to have, and from it the new content is produced.      *)
LEMMA SourceServes ==
  ASSUME NEW path, IsFile(new, path), NEW source \in Sources(old, new, path)
  PROVE  /\ source.blob
         /\ source.op # "add" => /\ IsFile(old, source.base)
                                 /\ old[source.base].content = source.base_sha256
         /\ Produced(source) = new[path].content
<1> DEFINE content == new[path].content
<1>1. source \in Choices(old, new, path)
  BY DEF Sources
<1>2. CASE source = Copy(path, content) /\ Unchanged(old, new, path)
  BY <1>2 DEF Copy, Unchanged, Produced
<1>3. CASE \E p \in Firsts(Twins(old, content)) : source = Copy(p, content)
  BY <1>3 DEF Copy, Firsts, Twins, Produced
<1>4. CASE source = Add(content)
  BY <1>4 DEF Add, Produced
<1>5. CASE source = Patch(path, old[path].content, content) /\ Patchable(old, new, path)
  <2>1. /\ source.op = "patch" /\ source.base = path /\ source.blob
        /\ source.base_sha256 = old[path].content
        /\ source.transform = Transforms(content)
        /\ Transforms(content) => /\ source.from = Normalized(old[path].content)
                                  /\ source.to = Normalized(content)
        /\ ~Transforms(content) => source.from = old[path].content /\ source.to = content
    BY <1>5 DEF Patch
  <2>2. Patched(source) = content
    BY <2>1 DEF Patched, Transforms
  <2> QED
    BY <1>5, <2>1, <2>2 DEF Produced, Patchable
<1> QED
  BY <1>1, <1>2, <1>3, <1>4, <1>5 DEF Choices

(* A tree is a function into nodes, and what is listed of it is not unsafe  *)
(* and not the root of a directory.                                         *)
LEMMA TreeFacts ==
  ASSUME NEW tree, Tree(tree)
  PROVE  /\ \A p \in DOMAIN tree : tree[p] \in Node /\ p \in Seq(STRING) /\ p \notin Unsafe
         /\ tree[Root].kind \in {"dir", "file"} /\ Root \in DOMAIN tree
         /\ tree[Root].kind = "file" <=> IsFile(tree, Root)
         /\ tree[Root].kind = "dir" => tree[Root] = Dir("writable")
         /\ tree[Root].kind = "file" => DOMAIN tree = {Root}
         /\ Listed(tree) \subseteq DOMAIN tree
         /\ Cardinality(Listed(tree)) \in Nat
<1>1. /\ Root \in DOMAIN tree /\ DOMAIN tree \subseteq Path /\ DOMAIN tree \cap Unsafe = {}
      /\ \A p \in DOMAIN tree : tree[p] \in Node
      /\ tree[Root] = Dir("writable") \/ (tree[Root].kind = "file" /\ DOMAIN tree = {Root})
  BY DEF Tree
<1>2. Dir("writable").kind = "dir"
  BY DEF Dir
<1>3. Listed(tree) \subseteq DOMAIN tree
  BY <1>1 DEF Listed
<1>4. Cardinality(Listed(tree)) \in Nat
  <2>1. IsFiniteSet(DOMAIN tree)
    BY DEF Tree
  <2> QED
    BY <1>3, <2>1, FS_Subset, FS_CardinalityType
<1> QED
  BY <1>1, <1>2, <1>3, <1>4, PathsAreSequences DEF IsFile

(* A walk lists every path of the tree once.                                *)
LEMMA WalkFacts ==
  ASSUME NEW tree, Tree(tree), NEW walk \in Walks(tree)
  PROVE  /\ DOMAIN walk = 1 .. Cardinality(Listed(tree))
         /\ \A i \in DOMAIN walk : walk[i] \in Listed(tree)
         /\ \A p \in Listed(tree) : \E i \in DOMAIN walk : walk[i] = p
         /\ \A i, j \in DOMAIN walk : i < j => walk[i] # walk[j] /\ Parent(walk[i]) # walk[j]
<1>1. /\ DOMAIN walk = 1 .. Cardinality(Listed(tree))
      /\ \A i \in DOMAIN walk : walk[i] \in Listed(tree)
      /\ \A p \in Listed(tree) : \E i \in DOMAIN walk : walk[i] = p
      /\ \A i, j \in DOMAIN walk : i < j => Before(walk[i], walk[j])
  BY DEF Walks
<1>2. ASSUME NEW p, NEW q, Before(p, q)
      PROVE  p # q /\ Parent(p) # q
  <2>1. PICK i, j \in 1 .. Len(Order) : i < j /\ Order[i] = p /\ Order[j] = q
    BY <1>2 DEF Before
  <2>2. Len(Order) \in Nat
    BY OrderAssumption
  <2>3. ~(j <= i)
    BY <2>1, <2>2
  <2>4. Order[j] \notin {Order[i], Parent(Order[i])}
    BY <2>3, OrderAssumption
  <2> QED
    BY <2>1, <2>4
<1> QED
  BY <1>1, <1>2

(* A header that describes a tree lists its paths and nodes.                *)
LEMMA DescribesFacts ==
  ASSUME NEW header, NEW tree, Tree(tree), Describes(header, tree)
  PROVE  /\ header.root = tree[Root].kind
         /\ \A i \in DOMAIN header.entries : /\ header.entries[i].path \in Listed(tree)
                                             /\ header.entries[i].node = tree[header.entries[i].path]
         /\ \A p \in Listed(tree) : \E i \in DOMAIN header.entries : header.entries[i].path = p
         /\ \A i, j \in DOMAIN header.entries :
              i < j => /\ header.entries[i].path # header.entries[j].path
                       /\ Parent(header.entries[i].path) # header.entries[j].path
<1>1. PICK walk \in Walks(tree) : /\ DOMAIN header.entries = DOMAIN walk
                                  /\ \A i \in DOMAIN walk : header.entries[i].path = walk[i]
  BY DEF Describes
<1>2. /\ \A i \in DOMAIN walk : walk[i] \in Listed(tree)
      /\ \A p \in Listed(tree) : \E i \in DOMAIN walk : walk[i] = p
      /\ \A i, j \in DOMAIN walk : i < j => walk[i] # walk[j] /\ Parent(walk[i]) # walk[j]
  BY WalkFacts
<1> QED
  BY <1>1, <1>2 DEF Describes

(* What creation makes describes the new build, from sources it chose.      *)
LEMMA DeltasDescribe ==
  ASSUME Tree(new), NEW header \in Deltas(old, new)
  PROVE  Describes(header, new) /\ Sourced(header, old, new) /\ Listing(header.entries)
<1>1. PICK walk \in Walks(new), choice \in Selections(old, new) :
             header = [root |-> new[Root].kind,
                       entries |-> [i \in DOMAIN walk |-> EntryOf(new, walk[i], choice[walk[i]])]]
  BY DEF Deltas
<1> DEFINE n == Cardinality(Listed(new))
<1>2. n \in Nat /\ DOMAIN walk = 1 .. n
  BY TreeFacts, WalkFacts
<1>3. header.root = new[Root].kind
        /\ header.entries = [i \in 1 .. n |-> EntryOf(new, walk[i], choice[walk[i]])]
  BY <1>1, <1>2
<1> HIDE DEF n
<1>4. DOMAIN header.entries = 1 .. n /\ Len(header.entries) = n
  BY <1>2, <1>3
<1>5. \A i \in 1 .. n : /\ header.entries[i].path = walk[i]
                        /\ header.entries[i].node = new[walk[i]]
                        /\ header.entries[i].source = choice[walk[i]]
  BY <1>3 DEF EntryOf
<1>6. \A i \in 1 .. n : walk[i] \in DOMAIN new
  <2>1. \A i \in 1 .. n : walk[i] \in Listed(new)
    BY <1>2, WalkFacts
  <2> QED
    BY <2>1, TreeFacts
<1>7. Describes(header, new)
  BY <1>2, <1>3, <1>4, <1>5 DEF Describes
<1>8. Sourced(header, old, new)
  <2>1. \A p \in DOMAIN new : choice[p] \in Sources(old, new, p)
    BY DEF Selections
  <2> QED
    BY <2>1, <1>4, <1>5, <1>6 DEF Sourced
<1>9. Listing(header.entries)
  <2>1. \A p \in DOMAIN new : new[p] \in Node /\ p \in Seq(STRING)
    BY TreeFacts
  <2> QED
    BY <2>1, <1>2, <1>4, <1>5, <1>6 DEF Listing
<1> QED
  BY <1>7, <1>8, <1>9

(* What replaces an entry of a sequence replaces no other, and no length.   *)
LEMMA EntryReplaced ==
  ASSUME NEW list, Listing(list), NEW i \in DOMAIN list, NEW entry,
         NEW changed, changed = [list EXCEPT ![i] = entry]
  PROVE  /\ DOMAIN changed = DOMAIN list /\ Len(changed) = Len(list)
         /\ \A j \in DOMAIN list : changed[j] = IF j = i THEN entry ELSE list[j]
<1> DEFINE n == Len(list)
<1>1. n \in Nat /\ DOMAIN list = 1 .. n
  BY DEF Listing
<1> HIDE DEF n
<1>2. changed = [j \in 1 .. n |-> IF j = i THEN entry ELSE list[j]]
  BY <1>1
<1>3. Len(changed) = n
  BY <1>1, <1>2
<1> QED
  BY <1>1, <1>2, <1>3 DEF n

(* Damage to a blob changes no path and no node.                            *)
LEMMA DamageKeepsPaths ==
  ASSUME NEW header, Listing(header.entries), NEW damage \in BlobDamage(header)
  PROVE  /\ damage.root = header.root
         /\ DOMAIN damage.entries = DOMAIN header.entries
         /\ \A i \in DOMAIN header.entries : /\ damage.entries[i].path = header.entries[i].path
                                             /\ damage.entries[i].node = header.entries[i].node
         /\ Listing(damage.entries)
<1>1. PICK i, entry :
          /\ i \in DOMAIN header.entries /\ entry \in Damaged(header.entries[i])
          /\ damage = [root |-> header.root, entries |-> [header.entries EXCEPT ![i] = entry]]
  BY DEF BlobDamage
<1>2. entry.path = header.entries[i].path /\ entry.node = header.entries[i].node
  BY <1>1 DEF Damaged
<1>3. damage.root = header.root /\ damage.entries = [header.entries EXCEPT ![i] = entry]
  BY <1>1
<1>4. /\ DOMAIN damage.entries = DOMAIN header.entries
      /\ Len(damage.entries) = Len(header.entries)
      /\ \A j \in DOMAIN header.entries :
           damage.entries[j] = IF j = i THEN entry ELSE header.entries[j]
  BY <1>1, <1>3, EntryReplaced
<1> QED
  BY <1>2, <1>3, <1>4 DEF Listing

(* So what describes a tree still describes it.                             *)
LEMMA DamageDescribes ==
  ASSUME NEW header, NEW tree, Describes(header, tree), Listing(header.entries),
         NEW damage \in BlobDamage(header)
  PROVE  Describes(damage, tree)
<1>1. /\ damage.root = header.root
      /\ DOMAIN damage.entries = DOMAIN header.entries
      /\ \A i \in DOMAIN header.entries : /\ damage.entries[i].path = header.entries[i].path
                                          /\ damage.entries[i].node = header.entries[i].node
  BY DamageKeepsPaths
<1>2. PICK walk \in Walks(tree) : /\ DOMAIN header.entries = DOMAIN walk
                                  /\ \A i \in DOMAIN walk : header.entries[i].path = walk[i]
  BY DEF Describes
<1> QED
  BY <1>1, <1>2 DEF Describes

(* The sources of what describes a tree are those of the files of the tree. *)
LEMMA DescribesTraced ==
  ASSUME Tree(new), NEW header, Describes(header, new)
  PROVE  Traced(header, old, new)
<1> SUFFICES ASSUME NEW i \in DOMAIN header.entries, header.entries[i].node.kind = "file"
             PROVE  \E p \in DOMAIN new :
                      IsFile(new, p) /\ header.entries[i].node.content = new[p].content
  BY DEF Traced
<1> DEFINE path == header.entries[i].path
<1>1. path \in Listed(new) /\ header.entries[i].node = new[path]
  BY DescribesFacts
<1>2. path \in DOMAIN new
  BY <1>1, TreeFacts
<1> QED
  BY <1>1, <1>2 DEF IsFile

(* A field that reads otherwise leaves the node or the source, and what is  *)
(* a file a file.                                                           *)
LEMMA MisreadFacts ==
  ASSUME NEW entry, entry.path \in Seq(STRING), entry.node \in Node, NEW other \in Misread(entry)
  PROVE  /\ other.path \in Seq(STRING) /\ other.node \in Node
         /\ other.node.kind = entry.node.kind
         /\ other.node = entry.node \/ other.source = entry.source
<1>1. CASE \E path \in Path :
             other = [path |-> path, node |-> entry.node, source |-> entry.source]
  BY <1>1, PathsAreSequences
<1>2. CASE \E node \in MisreadNodes(entry.node) :
             other = [path |-> entry.path, node |-> node, source |-> entry.source]
  <2>1. PICK node \in MisreadNodes(entry.node) :
               other = [path |-> entry.path, node |-> node, source |-> entry.source]
    BY <1>2
  <2>2. node \in Node /\ node.kind = entry.node.kind
    <3>1. /\ node.kind = entry.node.kind
          /\ node \in {Dir(mode) : mode \in Mode} \cup {Link(target) : target \in Target}
                        \cup {File(mode, entry.node.content) : mode \in Mode}
                        \cup {File(entry.node.mode, Garbage)}
      BY DEF MisreadNodes
    <3>2. CASE node \in {Dir(mode) : mode \in Mode} \cup {Link(target) : target \in Target}
      BY <3>1, <3>2 DEF Node
    <3>3. CASE node \in {File(mode, entry.node.content) : mode \in Mode}
      <4>1. node.kind = "file"
        BY <3>3 DEF File
      <4>2. PICK mode \in Mode, content \in Content : entry.node = File(mode, content)
        <5>1. /\ \A mode : Dir(mode).kind # "file"
              /\ \A target : Link(target).kind # "file"
          BY DEF Dir, Link
        <5>2. entry.node.kind = "file"
          BY <3>1, <4>1
        <5> QED
          BY <5>1, <5>2 DEF Node
      <4>3. entry.node.content \in Content
        BY <4>2 DEF File
      <4> QED
        BY <3>1, <3>3, <4>3 DEF Node
    <3>4. CASE node = File(entry.node.mode, Garbage)
      <4>1. Garbage \in Content
        BY DEF Garbage, Content, Hashes
      <4>2. entry.node.mode \in Mode
        BY NodeFacts
      <4> QED
        BY <3>1, <3>4, <4>1, <4>2 DEF Node
    <3> QED
      BY <3>1, <3>2, <3>3, <3>4
  <2> QED
    BY <2>1, <2>2
<1>3. CASE \E source \in MisreadSources(entry.source) :
             other = [path |-> entry.path, node |-> entry.node, source |-> source]
  BY <1>3
<1> QED
  BY <1>1, <1>2, <1>3 DEF Misread

(* So a header that reads otherwise is still one, and each of its files has *)
(* the content of a file of the new build or comes from where one does.     *)
LEMMA HeaderDamageTraced ==
  ASSUME Tree(new), NEW header, Listing(header.entries), header.root \in {"dir", "file"},
         Describes(header, new), Sourced(header, old, new), NEW damage \in HeaderDamage(header)
  PROVE  /\ damage.root \in {"dir", "file"} /\ Listing(damage.entries)
         /\ Traced(damage, old, new)
<1>1. Traced(header, old, new)
  BY DescribesTraced
<1>2. CASE damage \in {[root |-> root, entries |-> header.entries] : root \in {"dir", "file"}}
  BY <1>1, <1>2 DEF Traced
<1>3. CASE damage \notin {[root |-> root, entries |-> header.entries] : root \in {"dir", "file"}}
  <2>1. PICK i, entry :
            /\ i \in DOMAIN header.entries /\ entry \in Misread(header.entries[i])
            /\ damage = [root |-> header.root, entries |-> [header.entries EXCEPT ![i] = entry]]
    BY <1>3 DEF HeaderDamage
  <2>2. damage.root = header.root /\ damage.entries = [header.entries EXCEPT ![i] = entry]
    BY <2>1
  <2>3. /\ DOMAIN damage.entries = DOMAIN header.entries
        /\ Len(damage.entries) = Len(header.entries)
        /\ \A j \in DOMAIN header.entries :
             damage.entries[j] = IF j = i THEN entry ELSE header.entries[j]
    BY <2>1, <2>2, EntryReplaced
  <2>4. header.entries[i].path \in Seq(STRING) /\ header.entries[i].node \in Node
    BY <2>1 DEF Listing
  <2>5. /\ entry.path \in Seq(STRING) /\ entry.node \in Node
        /\ entry.node.kind = header.entries[i].node.kind
        /\ entry.node = header.entries[i].node \/ entry.source = header.entries[i].source
    BY <2>1, <2>4, MisreadFacts
  <2>6. Listing(damage.entries)
    BY <2>3, <2>5 DEF Listing
  <2>7. Traced(damage, old, new)
    <3> SUFFICES ASSUME NEW j \in DOMAIN header.entries, damage.entries[j].node.kind = "file"
                 PROVE  \E p \in DOMAIN new :
                          /\ IsFile(new, p)
                          /\ \/ damage.entries[j].node.content = new[p].content
                             \/ damage.entries[j].source \in Sources(old, new, p)
      BY <2>3 DEF Traced
    <3>1. CASE damage.entries[j].node = header.entries[j].node
      <4> DEFINE path == header.entries[j].path
      <4>1. path \in Listed(new) /\ header.entries[j].node = new[path]
        BY DescribesFacts
      <4>2. path \in DOMAIN new
        BY <4>1, TreeFacts
      <4> QED
        BY <3>1, <4>1, <4>2 DEF IsFile
    <3>2. CASE damage.entries[j].node # header.entries[j].node
      <4>1. j = i /\ damage.entries[j].source = header.entries[j].source
              /\ header.entries[j].node.kind = "file"
        BY <3>2, <2>1, <2>3, <2>5
      <4> DEFINE path == header.entries[j].path
      <4>2. path \in Listed(new) /\ header.entries[j].node = new[path]
        BY DescribesFacts
      <4>3. path \in DOMAIN new
        BY <4>2, TreeFacts
      <4>4. header.entries[j].source \in Sources(old, new, path)
        BY DEF Sourced
      <4> QED
        BY <4>1, <4>2, <4>3, <4>4 DEF IsFile
    <3> QED
      BY <3>1, <3>2
  <2> QED
    BY <2>2, <2>6, <2>7
<1> QED
  BY <1>2, <1>3

(* What describes a build without absolute links passes validation.         *)
LEMMA DescribesValid ==
  ASSUME NEW header, Tree(old), Tree(new), SameKind(old, new), Portable(new),
         Describes(header, new), Sourced(header, old, new), Listing(header.entries)
  PROVE  Valid(header)
<1> DEFINE list == header.entries
<1>1. Len(list) \in Nat /\ DOMAIN list = 1 .. Len(list)
  BY DEF Listing
<1>2. /\ header.root = new[Root].kind
      /\ \A i \in 1 .. Len(list) : list[i].path \in Listed(new) /\ list[i].node = new[list[i].path]
      /\ \A p \in Listed(new) : \E i \in 1 .. Len(list) : list[i].path = p
      /\ \A i, j \in 1 .. Len(list) :
           i < j => list[i].path # list[j].path /\ Parent(list[i].path) # list[j].path
  BY <1>1, DescribesFacts
<1>3. /\ new[Root].kind \in {"dir", "file"} /\ (new[Root].kind = "file" <=> IsFile(new, Root))
      /\ old[Root].kind \in {"dir", "file"} /\ (old[Root].kind = "file" <=> IsFile(old, Root))
      /\ Root \in DOMAIN new /\ Root \in DOMAIN old
  BY TreeFacts
<1>4. ASSUME NEW i \in 1 .. Len(list), list[i].node.kind = "file"
      PROVE  CheckSource(header.root, list[i].source)
  <2> DEFINE source == list[i].source
  <2>1. list[i].path \in DOMAIN new /\ IsFile(new, list[i].path)
    BY <1>2, <1>4, TreeFacts DEF IsFile
  <2>2. source \in Sources(old, new, list[i].path)
    BY <1>1 DEF Sourced
  <2>3. source.blob /\ (source.op # "add" => IsFile(old, source.base))
    BY <2>1, <2>2, SourceServes
  <2>4. IsFile(old, source.base) => CheckRel(header.root, source.base)
    <3> SUFFICES ASSUME IsFile(old, source.base) PROVE CheckRel(header.root, source.base)
      OBVIOUS
    <3>1. source.base \in DOMAIN old /\ old[source.base].kind = "file"
      BY DEF IsFile
    <3>2. CASE IsFile(old, Root)
      <4>1. header.root = "file" /\ source.base = Root
        BY <3>1, <3>2, <1>2, <1>3, TreeFacts DEF SameKind
      <4> QED
        BY <4>1 DEF CheckRel
    <3>3. CASE ~IsFile(old, Root)
      <4>1. header.root = "dir" /\ source.base # Root
        BY <3>1, <3>3, <1>2, <1>3 DEF SameKind
      <4>2. source.base \notin Unsafe
        BY <3>1, TreeFacts
      <4> QED
        BY <4>1, <4>2 DEF CheckRel
    <3> QED
      BY <3>2, <3>3
  <2> QED
    BY <2>3, <2>4 DEF CheckSource
<1>5. CASE header.root = "file"
  <2>1. Listed(new) = {Root} /\ new[Root].kind = "file"
    BY <1>2, <1>3, <1>5 DEF Listed
  <2>2. PICK k \in 1 .. Len(list) : list[k].path = Root
    BY <1>2, <2>1
  <2>3. ~(Len(list) > 1)
    <3> SUFFICES ASSUME Len(list) > 1 PROVE FALSE
      BY <1>1
    <3>1. 1 \in 1 .. Len(list) /\ 2 \in 1 .. Len(list)
      BY <1>1
    <3> QED
      BY <3>1, <1>2, <2>1
  <2>4. Len(list) = 1 /\ 1 \in 1 .. Len(list)
    <3> DEFINE n == Len(list)
    <3>1. n \in Nat /\ k \in 1 .. n /\ ~(n > 1)
      BY <1>1, <2>2, <2>3
    <3> HIDE DEF n
    <3>2. n = 1
      BY <3>1
    <3> QED
      BY <3>2 DEF n
  <2>5. list[1].path = Root /\ list[1].node.kind = "file"
    BY <2>1, <2>4, <1>2
  <2>6. CheckSource("file", list[1].source)
    BY <1>4, <1>5, <2>4, <2>5
  <2> QED
    BY <1>5, <2>4, <2>5, <2>6 DEF Valid
<1>6. CASE header.root = "dir"
  <2> SUFFICES ASSUME NEW i \in 1 .. Len(list)
               PROVE  /\ CheckRel("dir", list[i].path)
                      /\ \A j \in 1 .. i - 1 : list[j].path # list[i].path
                      /\ ParentListed(list, i)
                      /\ list[i].node.kind = "link" => list[i].node.target = "relative"
                      /\ list[i].node.kind = "file" => CheckSource("dir", list[i].source)
    BY <1>6 DEF Valid
  <2>1. /\ Listed(new) = DOMAIN new \ {Root}
        /\ list[i].path \in DOMAIN new /\ list[i].path # Root
        /\ list[i].path \in Seq(STRING) /\ list[i].path \notin Unsafe
        /\ list[i].node = new[list[i].path] /\ list[i].node \in Node
    <3>1. Listed(new) = DOMAIN new \ {Root}
      BY <1>2, <1>3, <1>6 DEF Listed
    <3> QED
      BY <3>1, <1>2, TreeFacts
  <2>2. CheckRel("dir", list[i].path)
    BY <2>1 DEF CheckRel
  <2>3. \A j \in 1 .. i - 1 : list[j].path # list[i].path
    <3>1. \A j \in 1 .. i - 1 : j \in 1 .. Len(list) /\ j < i
      BY <1>1
    <3> QED
      BY <3>1, <1>2
  <2>4. ParentListed(list, i)
    <3> DEFINE parent == Parent(list[i].path)
    <3> SUFFICES ASSUME Len(list[i].path) > 1
                 PROVE  \E j \in 1 .. i - 1 : list[j].node.kind = "dir" /\ list[j].path = parent
      BY DEF ParentListed
    <3>1. parent \in DOMAIN new /\ new[parent].kind = "dir"
      BY <2>1 DEF Tree
    <3>2. parent # Root /\ parent # list[i].path
      BY <2>1, ParentFacts
    <3>3. PICK j \in 1 .. Len(list) : list[j].path = parent
      BY <1>2, <2>1, <3>1, <3>2
    <3>4. ~(i < j) /\ i # j
      <4>1. i < j => Parent(list[i].path) # list[j].path
        BY <1>2
      <4> QED
        BY <4>1, <3>2, <3>3
    <3>5. j \in 1 .. i - 1
      BY <1>1, <3>4
    <3> QED
      BY <1>2, <3>1, <3>3, <3>5
  <2>5. list[i].node.kind = "link" => list[i].node.target = "relative"
    <3>1. list[i].node.target # "absolute"
      BY <2>1 DEF Portable
    <3>2. list[i].node.kind = "link" => list[i].node.target \in Target
      BY <2>1, NodeFacts
    <3> QED
      BY <3>1, <3>2 DEF Target
  <2> QED
    BY <2>2, <2>3, <2>4, <2>5, <1>4, <1>6
<1> QED
  BY <1>2, <1>3, <1>5, <1>6

(* When all entries are written, with all modes, the output is what the     *)
(* header lists.                                                            *)
LEMMA LaidIsListed ==
  ASSUME Listing(entries), Laid(delta, out, Len(entries), 0)
  PROVE  /\ Lists(delta, out)
         /\ delta.root = "dir" => out[Root] = Dir("writable")
<1> USE DEF entries
<1>1. Len(entries) \in Nat /\ DOMAIN entries = 1 .. Len(entries)
  BY DEF Listing
<1>2. \A i \in 1 .. Len(entries) : ~(i <= 0)
  BY <1>1
<1> QED
  BY <1>1, <1>2 DEF Laid, Lists

(* If the header describes a build, that is the build.                      *)
LEMMA LaidIsExpected ==
  ASSUME Tree(new), Describes(delta, new), Listing(entries), Laid(delta, out, Len(entries), 0),
         Shaped(out)
  PROVE  out = Expected(new)
<1> USE DEF entries
<1>1. Len(entries) \in Nat /\ DOMAIN entries = 1 .. Len(entries)
  BY DEF Listing
<1>2. /\ delta.root = new[Root].kind
      /\ \A i \in 1 .. Len(entries) : /\ entries[i].path \in Listed(new)
                                      /\ entries[i].node = new[entries[i].path]
      /\ \A p \in Listed(new) : \E i \in 1 .. Len(entries) : entries[i].path = p
  BY <1>1, DescribesFacts
<1>3. /\ DOMAIN out = {entries[i].path : i \in 1 .. Len(entries)}
                        \cup (IF delta.root = "dir" THEN {Root} ELSE {})
      /\ delta.root = "dir" => out[Root] = Dir("writable")
      /\ \A i \in 1 .. Len(entries) : out[entries[i].path] = Recreated(entries[i].node)
  BY <1>1, LaidIsListed DEF Lists
<1>4. DOMAIN out = DOMAIN new
  <2>1. {entries[i].path : i \in 1 .. Len(entries)} = Listed(new)
    BY <1>2
  <2>2. DOMAIN new = Listed(new) \cup (IF delta.root = "dir" THEN {Root} ELSE {})
    BY <1>2, TreeFacts DEF Listed
  <2> QED
    BY <2>1, <2>2, <1>3
<1>5. ASSUME NEW p \in DOMAIN new
      PROVE  out[p] = Recreated(new[p])
  <2>1. CASE p \in Listed(new)
    BY <2>1, <1>2, <1>3
  <2>2. CASE p \notin Listed(new)
    <3>1. p = Root /\ new[Root].kind = "dir" /\ new[Root] = Dir("writable")
      BY <2>2, TreeFacts DEF Listed
    <3>2. Recreated(new[Root]) = new[Root]
      <4>1. new[Root] \in Node /\ new[Root].mode = "writable"
        BY <3>1, TreeFacts DEF Dir
      <4> QED
        BY <4>1, NodeFacts
    <3> QED
      BY <3>1, <3>2, <1>2, <1>3
  <2> QED
    BY <2>1, <2>2
<1> QED
  BY <1>4, <1>5 DEF Expected, Shaped

(* And each of its files has the content of a file of the new build.        *)
LEMMA LaidIsGenuine ==
  ASSUME Tree(new), Traced(delta, old, new), Listing(entries),
         Laid(delta, out, Len(entries), 0), RebuiltTo(Len(entries))
  PROVE  Genuine(out)
<1> USE DEF entries
<1>1. Len(entries) \in Nat /\ DOMAIN entries = 1 .. Len(entries)
        /\ \A i \in 1 .. Len(entries) : entries[i].node \in Node
  BY DEF Listing
<1>2. /\ DOMAIN out = {entries[i].path : i \in 1 .. Len(entries)}
                        \cup (IF delta.root = "dir" THEN {Root} ELSE {})
      /\ delta.root = "dir" => out[Root] = Dir("writable")
      /\ \A i \in 1 .. Len(entries) : out[entries[i].path] = Recreated(entries[i].node)
  BY <1>1, LaidIsListed DEF Lists
<1> SUFFICES ASSUME NEW p \in DOMAIN out, IsFile(out, p)
             PROVE  \E q \in DOMAIN new : IsFile(new, q) /\ out[p].content = new[q].content
  BY DEF Genuine
<1>3. out[p].kind = "file"
  BY DEF IsFile
<1>4. PICK i \in 1 .. Len(entries) : entries[i].path = p
  <2>1. Dir("writable").kind = "dir"
    BY DEF Dir
  <2> QED
    BY <1>2, <1>3, <2>1
<1> DEFINE node == entries[i].node
           source == entries[i].source
<1>5. out[p] = Recreated(node) /\ node \in Node
  BY <1>1, <1>2, <1>4
<1>6. node.kind = "file" /\ out[p].content = node.content
  BY <1>3, <1>5, NodeFacts
<1>7. PICK q \in DOMAIN new : /\ IsFile(new, q)
                              /\ node.content = new[q].content \/ source \in Sources(old, new, q)
  BY <1>1, <1>6 DEF Traced
<1>8. source \in Sources(old, new, q) => node.content = new[q].content
  <2>1. Produced(source) = node.content
    BY <1>6 DEF RebuiltTo, Rebuilt
  <2>2. source \in Sources(old, new, q) => Produced(source) = new[q].content
    BY <1>7, SourceServes
  <2> QED
    BY <2>1, <2>2
<1> QED
  BY <1>6, <1>7, <1>8

(* Without a set-user-ID bit that is the new build itself, and of a single  *)
(* file the content always is.                                              *)
LEMMA ExpectedIsSame ==
  ASSUME Tree(new), \A p \in DOMAIN new : new[p].mode # "set-user-ID"
  PROVE  SameTree(Expected(new), new)
<1>1. \A p \in DOMAIN new : Recreated(new[p]) = new[p] /\ Root \in DOMAIN new
  BY TreeFacts, NodeFacts
<1>2. new = [p \in DOMAIN new |-> new[p]]
  BY DEF Tree
<1>3. Expected(new) = new
  BY <1>1, <1>2 DEF Expected
<1> QED
  BY <1>3 DEF SameTree

------------------------------------------------------------------------------
(* The invariant.                                                           *)

(* What was rebuilt stays so while the delta and what it is applied to do.  *)
LEMMA SameRebuilt ==
  ASSUME UNCHANGED << builds, who >>, NEW entry
  PROVE  Rebuilt(entry)' <=> Rebuilt(entry)
BY DEF builds, Rebuilt, BaseFits, base

(* Nothing is written, and nothing made, at first.                          *)
LEMMA InitHolds == Init => IInv
<1> SUFFICES ASSUME Init PROVE IInv
  OBVIOUS
<1> USE DEF Init
<1>1. Phases
  BY DEF Phases
<1>2. Provenance
  <2>1. CASE origin = "release"
    <3>1. delta = NoDelta /\ pc = "make"
      BY <2>1
    <3>2. Listing(entries) /\ delta.root = "dir"
      BY <3>1 DEF Listing, NoDelta, entries
    <3>3. Tree(old) /\ Tree(new) /\ Tree(installed)
      BY <2>1, BuildsAssumption
    <3> QED
      BY <2>1, <3>1, <3>2, <3>3 DEF Provenance
  <2>2. CASE origin = "foreign"
    <3>1. delta \in Foreign /\ pc = "start" /\ who = "app"
      BY <2>2
    <3>2. Listing(entries) /\ delta.root \in {"dir", "file"}
      BY <3>1, ForeignListing, ForeignAssumption DEF entries
    <3> QED
      BY <2>2, <3>1, <3>2 DEF Provenance
  <2> QED
    BY <2>1, <2>2
<1>3. Progress /\ Succeeding
  BY DEF Progress, Succeeding
<1> QED
  BY <1>1, <1>2, <1>3 DEF IInv

(* A delta that nothing disturbs rebuilds each file.                        *)
LEMMA UndisturbedRebuilds ==
  ASSUME Phases, Provenance, Undisturbed, pc = "write", place \in 1 .. Len(entries),
         entries[place].node.kind = "file"
  PROVE  Rebuilt(entries[place])
<1> DEFINE path == entries[place].path
           source == entries[place].source
<1>1. damaged = "nothing"
  BY DEF Phases, Undisturbed
<1>2. /\ Tree(new) /\ SameKind(old, new) /\ Describes(delta, new) /\ Sourced(delta, old, new)
      /\ Listing(entries)
  BY <1>1 DEF Provenance, Undisturbed
<1>3. place \in DOMAIN entries
  BY <1>2 DEF Listing
<1>4. path \in Listed(new) /\ entries[place].node = new[path] /\ source \in Sources(old, new, path)
  BY <1>2, <1>3, DescribesFacts DEF entries, Sourced
<1>5. IsFile(new, path)
  BY <1>2, <1>4, TreeFacts DEF IsFile
<1>6. /\ source.op # "add" => IsFile(old, source.base)
                                /\ old[source.base].content = source.base_sha256
      /\ Produced(source) = new[path].content
  BY <1>4, <1>5, SourceServes
<1>7. BaseFits(source)
  <2>1. CASE who = "release"
    BY <2>1, <1>6 DEF BaseFits, base
  <2>2. CASE who = "app"
    <3>1. Serves /\ base = installed
      BY <2>2 DEF Undisturbed, base
    <3>2. IsFile(old, source.base) =>
            /\ IsFile(installed, source.base)
            /\ installed[source.base].content = old[source.base].content
      BY <3>1 DEF Serves, IsFile
    <3> QED
      BY <3>1, <3>2, <1>6 DEF BaseFits
  <2> QED
    BY <2>1, <2>2 DEF Phases
<1> QED
  BY <1>4, <1>6, <1>7 DEF Rebuilt

(* It passes validation, too.                                               *)
LEMMA UndisturbedValid ==
  ASSUME Phases, Provenance, Undisturbed, pc = "start"
  PROVE  Valid(delta)
<1>1. damaged = "nothing"
  BY DEF Phases, Undisturbed
<1>2. CASE verified
  BY <1>1, <1>2 DEF Provenance
<1>3. CASE Portable(new)
  <2>1. /\ Tree(old) /\ Tree(new) /\ SameKind(old, new) /\ Describes(delta, new)
        /\ Sourced(delta, old, new) /\ Listing(delta.entries)
    BY <1>1 DEF Provenance, Undisturbed, entries
  <2> QED
    BY <2>1, <1>3, DescribesValid
<1> QED
  BY <1>2, <1>3 DEF Undisturbed

(* create makes a delta that describes the new build, or none.              *)
LEMMA MakeStep == IInv /\ Make => IInv'
<1> SUFFICES ASSUME IInv, Make PROVE IInv'
  OBVIOUS
<1> USE DEF Make, builds
<1>1. Phases'
  BY DEF IInv, Phases
<1>0. /\ origin = "release" /\ Tree(old) /\ Tree(new) /\ Tree(installed)
      /\ damaged = "nothing" /\ ~verified
  BY DEF IInv, Phases, Provenance
<1>2. Provenance'
  <2>1. CASE SameKind(old, new)
    <3>1. delta' \in Deltas(old, new) /\ pc' \in {"start", "ship"}
      BY <2>1
    <3>2. /\ Describes(delta', new) /\ Sourced(delta', old, new) /\ Listing(delta'.entries)
          /\ Traced(delta', old, new)
      BY <1>0, <3>1, DeltasDescribe, DescribesTraced
    <3>3. delta'.root \in {"dir", "file"}
      BY <1>0, <3>2, DescribesFacts, TreeFacts
    <3> QED
      BY <1>0, <2>1, <3>1, <3>2, <3>3 DEF Provenance, entries
  <2>2. CASE ~SameKind(old, new)
    <3>1. pc' = "ended" /\ result' = "error" /\ delta' = delta
      BY <2>2
    <3> QED
      BY <1>0, <2>2, <3>1 DEF IInv, Provenance, entries
  <2> QED
    BY <2>1, <2>2
<1>3. Progress'
  BY DEF Progress
<1>4. Succeeding'
  BY DEF Succeeding, Undisturbed
<1> QED
  BY <1>1, <1>2, <1>3, <1>4 DEF IInv

(* What is not valid, or would replace something, is turned down at once.   *)
LEMMA StartStep == IInv /\ Start => IInv'
<1> SUFFICES ASSUME IInv, Start PROVE IInv'
  OBVIOUS
<1> USE DEF Start, builds
<1>0. /\ out = before /\ Listing(entries) /\ delta.root \in {"dir", "file"}
      /\ out = NoTree /\ Valid(delta) =>
           out' = IF delta.root = "dir" THEN Put(NoTree, Root, Dir("writable")) ELSE NoTree
  BY DEF IInv, Phases, Provenance
<1> DEFINE first == IF delta.root = "dir" THEN Put(NoTree, Root, Dir("writable")) ELSE NoTree
<1>5. Shaped(first) /\ Laid(delta, first, 0, Len(entries))
  <2>1. Shaped(NoTree) /\ DOMAIN NoTree = {}
    BY DEF Shaped, NoTree
  <2>2. CASE delta.root = "dir"
    <3>1. Shaped(Put(NoTree, Root, Dir("writable")))
      BY <2>1, PutShaped
    <3>2. /\ DOMAIN Put(NoTree, Root, Dir("writable")) = {Root}
          /\ Put(NoTree, Root, Dir("writable"))[Root] = Dir("writable")
      BY <2>1 DEF Put
    <3> QED
      BY <2>2, <3>1, <3>2 DEF Laid
  <2>3. CASE delta.root # "dir"
    BY <2>1, <2>3 DEF Laid
  <2> QED
    BY <2>2, <2>3
<1> HIDE DEF first
<1>1. Phases'
  BY <1>0, <1>5 DEF IInv, Phases, first
<1>2. Provenance'
  BY DEF IInv, Provenance, entries, Phases
<1>3. Progress'
  <2>1. Len(entries) \in Nat
    BY <1>0 DEF Listing
  <2>2. CASE out # NoTree \/ ~Valid(delta)
    BY <2>2 DEF Progress
  <2>3. CASE out = NoTree /\ Valid(delta)
    <3>1. pc' = "write" /\ place' = 1 /\ delta' = delta /\ out' = first /\ Valid(delta')
      BY <2>3, <1>0 DEF first
    <3>2. 1 \in 1 .. Len(entries') + 1 /\ Laid(delta', out', place' - 1, Len(entries'))
      BY <2>1, <3>1, <1>5 DEF entries
    <3>3. RebuiltTo(place - 1)'
      BY <3>1 DEF RebuiltTo
    <3> QED
      BY <3>1, <3>2, <3>3 DEF Progress
  <2> QED
    BY <2>2, <2>3
<1>4. Succeeding'
  <2>1. Undisturbed' => Undisturbed
    BY DEF Undisturbed, Serves
  <2>2. Undisturbed => Valid(delta)
    BY UndisturbedValid DEF IInv
  <2> QED
    BY <2>1, <2>2, <1>0 DEF Succeeding
<1> QED
  BY <1>1, <1>2, <1>3, <1>4 DEF IInv

(* Writing an entry, which fails only where a file is not rebuilt.          *)
LEMMA WriteStep == IInv /\ Write => IInv'
<1> SUFFICES ASSUME IInv, Write PROVE IInv'
  OBVIOUS
<1> USE DEF builds
<1> DEFINE entry == entries[place]
           lost == entry.node.kind = "file" /\ ~Rebuilt(entry)
<1>0. /\ Listing(entries) /\ delta.root \in {"dir", "file"} /\ Valid(delta) /\ Shaped(out)
      /\ Len(entries) \in Nat /\ place \in 1 .. Len(entries)
      /\ Laid(delta, out, place - 1, Len(entries)) /\ RebuiltTo(place - 1)
  BY DEF IInv, Phases, Provenance, Progress, Listing, Write
<1>5. /\ CanPlace(entry.path) /\ ~Leads(entry.path) /\ entry.path \notin DOMAIN out
      /\ entry.path # Root => /\ Parent(entry.path) \in DOMAIN out
                              /\ out[Parent(entry.path)].kind = "dir"
  BY <1>0, EntryFits
<1>6. /\ UNCHANGED << builds, delta, origin, verified, damaged, who, before, faulted, result >>
      /\ pc = "write" /\ escaped' = FALSE
      /\ \/ lost /\ pc' = "clean" /\ out' = out /\ place' = place
         \/ /\ ~lost /\ pc' = "write" /\ place' = place + 1
            /\ out' = Put(out, entry.path, Written(entry))
  BY <1>5 DEF Write, IInv, Phases
<1>7. Shaped(out')
  BY <1>0, <1>5, <1>6, PutShaped
<1>8. pc' = "write" => /\ place' \in 1 .. Len(entries) + 1
                       /\ Laid(delta, out', place' - 1, Len(entries))
  <2> SUFFICES ASSUME pc' = "write"
               PROVE  /\ place' \in 1 .. Len(entries) + 1
                      /\ Laid(delta, out', place' - 1, Len(entries))
    OBVIOUS
  <2>1. ~lost /\ place' = place + 1 /\ out' = Put(out, entry.path, Written(entry))
    BY <1>6
  <2>2. Laid(delta, out', place, Len(entries))
    BY <1>0, <2>1, EntryLaid
  <2>3. place' - 1 = place /\ place' \in 1 .. Len(entries) + 1
    BY <1>0, <2>1
  <2> QED
    BY <2>2, <2>3
<1>9. pc' = "write" => RebuiltTo(place - 1)'
  <2> SUFFICES ASSUME pc' = "write" PROVE RebuiltTo(place - 1)'
    OBVIOUS
  <2>1. ~lost /\ place' - 1 = place
    BY <1>0, <1>6
  <2>2. \A i \in 1 .. place : entries[i].node.kind = "file" => Rebuilt(entries[i])
    <3>1. \A i \in 1 .. place : i = place \/ i \in 1 .. place - 1
      BY <1>0
    <3> QED
      BY <1>0, <2>1, <3>1 DEF RebuiltTo
  <2> QED
    <3>1. entries' = entries /\ \A any : Rebuilt(any)' <=> Rebuilt(any)
      BY <1>6, SameRebuilt DEF entries
    <3> QED
      BY <2>1, <2>2, <3>1 DEF RebuiltTo
<1> HIDE DEF entry, lost
<1>1. Phases'
  BY <1>6, <1>7 DEF IInv, Phases
<1>2. Provenance'
  BY <1>6 DEF IInv, Provenance, entries
<1>3. Progress'
  BY <1>0, <1>6, <1>8, <1>9 DEF Progress, entries
<1>4. Succeeding'
  <2>1. Undisturbed' => Undisturbed
    BY <1>6 DEF Undisturbed, Serves
  <2>2. Undisturbed => ~lost
    BY <1>0, <1>6, UndisturbedRebuilds DEF IInv, lost, entry
  <2> QED
    BY <2>1, <2>2, <1>6 DEF Succeeding
<1> QED
  BY <1>1, <1>2, <1>3, <1>4 DEF IInv

(* All entries are written.                                                 *)
LEMMA WriteEndsStep == IInv /\ WriteEnds => IInv'
<1> SUFFICES ASSUME IInv, WriteEnds PROVE IInv'
  OBVIOUS
<1> USE DEF WriteEnds, builds
<1>1. Phases'
  BY DEF IInv, Phases
<1>2. Provenance'
  BY DEF IInv, Provenance, entries
<1>3. Progress'
  <2>1. Len(entries) \in Nat /\ place = Len(entries) + 1
    BY DEF IInv, Provenance, Progress, Listing
  <2>2. Laid(delta, out, place - 1, Len(entries)) /\ place - 1 = Len(entries)
    BY <2>1 DEF IInv, Progress
  <2>3. Laid(delta, out, Len(entries), Len(entries)) /\ RebuiltTo(place - 1)
    BY <2>2 DEF IInv, Progress
  <2>4. RebuiltTo(Len(entries))'
    <3>1. entries' = entries /\ \A any : Rebuilt(any)' <=> Rebuilt(any)
      BY SameRebuilt DEF entries
    <3> QED
      BY <2>2, <2>3, <3>1 DEF RebuiltTo
  <2> QED
    BY <2>1, <2>3, <2>4 DEF IInv, Progress, entries
<1>4. Succeeding'
  BY DEF IInv, Succeeding, Undisturbed, Serves
<1> QED
  BY <1>1, <1>2, <1>3, <1>4 DEF IInv

(* A directory gets its mode.                                               *)
LEMMA SetModeStep == IInv /\ SetMode => IInv'
<1> SUFFICES ASSUME IInv, SetMode PROVE IInv'
  OBVIOUS
<1> USE DEF builds
<1> DEFINE entry == entries[place]
<1>0. /\ Listing(entries) /\ delta.root \in {"dir", "file"} /\ Valid(delta) /\ Shaped(out)
      /\ Len(entries) \in Nat /\ place \in 1 .. Len(entries)
      /\ Laid(delta, out, Len(entries), place)
  BY DEF IInv, Phases, Provenance, Progress, Listing, SetMode
<1>5. /\ UNCHANGED << builds, delta, origin, verified, damaged, who, pc, before, escaped,
                      faulted, result >>
      /\ pc = "modes" /\ place' = place - 1
      /\ out' = IF entry.node.kind = "dir"
                  THEN Put(out, entry.path, Dir(ModeSet(entry.node.mode))) ELSE out
  BY DEF SetMode
<1>6. Laid(delta, out', Len(entries), place')
  BY <1>0, <1>5, ModeLaid
<1>7. Shaped(out')
  <2>1. entry.path \in DOMAIN out
    BY <1>0 DEF Laid, entries
  <2> QED
    BY <1>0, <1>5, <2>1, ModeShaped
<1>8. RebuiltTo(Len(entries))'
  <2>1. entries' = entries /\ \A any : Rebuilt(any)' <=> Rebuilt(any)
    BY <1>5, SameRebuilt DEF entries
  <2> QED
    BY <1>5, <2>1 DEF RebuiltTo, IInv, Progress
<1> HIDE DEF entry
<1>1. Phases'
  BY <1>5, <1>7 DEF IInv, Phases
<1>2. Provenance'
  BY <1>5 DEF IInv, Provenance, entries
<1>3. Progress'
  BY <1>0, <1>5, <1>6, <1>8 DEF Progress, entries
<1>4. Succeeding'
  BY <1>5 DEF IInv, Succeeding, Undisturbed, Serves
<1> QED
  BY <1>1, <1>2, <1>3, <1>4 DEF IInv

(* Everything is written and has its mode: it is what was expected.         *)
LEMMA FinishStep == IInv /\ Finish => IInv'
<1> SUFFICES ASSUME IInv, Finish PROVE IInv'
  OBVIOUS
<1> USE DEF Finish, builds
<1>1. Phases'
  BY DEF IInv, Phases
<1>2. Provenance'
  BY DEF IInv, Provenance, entries
<1>3. Progress'
  <2>1. /\ Listing(entries) /\ Shaped(out) /\ Valid(delta)
        /\ Laid(delta, out, Len(entries), 0) /\ RebuiltTo(Len(entries))
    BY DEF IInv, Phases, Provenance, Progress
  <2>2. origin = "release" => /\ Tree(new) /\ Traced(delta, old, new)
                              /\ damaged # "header" => Describes(delta, new)
    BY DEF IInv, Provenance
  <2>3. Lists(delta, out)
    BY <2>1, LaidIsListed
  <2>4. origin = "release" => Genuine(out) /\ (damaged # "header" => out = Expected(new))
    BY <2>1, <2>2, LaidIsExpected, LaidIsGenuine
  <2>5. Lists(delta, out)' /\ (Genuine(out)' <=> Genuine(out)) /\ Expected(new)' = Expected(new)
    BY <2>3 DEF Lists, Genuine, Expected
  <2> QED
    BY <2>1, <2>4, <2>5 DEF Progress, entries
<1>4. Succeeding'
  BY DEF IInv, Succeeding, Undisturbed, Serves
<1> QED
  BY <1>1, <1>2, <1>3, <1>4 DEF IInv

(* A failing call, maybe with a part of a file written.                     *)
LEMMA FaultStep == IInv /\ Fault => IInv'
<1> SUFFICES ASSUME IInv, Fault PROVE IInv'
  OBVIOUS
<1> USE DEF builds
<1>0. /\ UNCHANGED << builds, delta, origin, verified, damaged, who, before, escaped, result >>
      /\ pc \in {"write", "modes"} /\ who = "app" /\ pc' = "clean" /\ faulted' = "call"
  BY DEF Fault
<1>5. Shaped(out')
  <2>1. Shaped(out)
    BY <1>0 DEF IInv, Phases
  <2>2. CASE out' = out
    BY <2>1, <2>2
  <2>3. CASE /\ pc = "write" /\ place <= Len(entries)
             /\ out' = Put(out, entries[place].path, File("writable", Garbage))
    <3>1. /\ Listing(entries) /\ delta.root \in {"dir", "file"} /\ Valid(delta)
          /\ place \in 1 .. Len(entries) /\ Laid(delta, out, place - 1, Len(entries))
      BY <2>3 DEF IInv, Provenance, Progress, Listing
    <3>2. /\ entries[place].path \notin DOMAIN out
          /\ entries[place].path # Root => /\ Parent(entries[place].path) \in DOMAIN out
                                           /\ out[Parent(entries[place].path)].kind = "dir"
      BY <3>1, EntryFits
    <3> QED
      BY <2>1, <2>3, <3>2, PutShaped
  <2> QED
    BY <2>2, <2>3 DEF Fault
<1>1. Phases'
  BY <1>0, <1>5 DEF IInv, Phases
<1>2. Provenance'
  BY <1>0 DEF IInv, Provenance, entries
<1>3. Progress'
  BY <1>0 DEF Progress
<1>4. Succeeding'
  BY <1>0 DEF Succeeding, Undisturbed
<1> QED
  BY <1>1, <1>2, <1>3, <1>4 DEF IInv

(* What was written is removed.                                             *)
LEMMA CleanStep == IInv /\ Clean => IInv'
<1> SUFFICES ASSUME IInv, Clean PROVE IInv'
  OBVIOUS
<1> USE DEF Clean, builds
<1>1. Phases'
  <2>1. Shaped(out) /\ before = NoTree
    BY DEF IInv, Phases
  <2>2. Cleaned(out) = NoTree
    BY <2>1, CleanedLeavesNothing
  <2> QED
    BY <2>1, <2>2 DEF IInv, Phases
<1>2. Provenance'
  BY DEF IInv, Provenance, entries
<1>3. Progress'
  BY DEF Progress
<1>4. Succeeding'
  BY DEF IInv, Succeeding, Undisturbed, Serves
<1> QED
  BY <1>1, <1>2, <1>3, <1>4 DEF IInv

(* The release compares what came out with the new build.                   *)
LEMMA VerifyStep == IInv /\ Verify => IInv'
<1> SUFFICES ASSUME IInv, Verify PROVE IInv'
  OBVIOUS
<1> USE DEF Verify, builds
<1>0. origin = "release" /\ Tree(new) /\ SameKind(old, new) /\ Valid(delta) /\ out = Expected(new)
  BY DEF IInv, Phases, Provenance, Progress
<1>1. Phases'
  BY DEF IInv, Phases
<1>2. Provenance'
  BY <1>0 DEF IInv, Provenance, entries
<1>3. Progress'
  BY DEF Progress
<1>4. Succeeding'
  <2>1. pc' = "rejected" => \E p \in DOMAIN new : new[p].mode = "set-user-ID"
    BY <1>0, ExpectedIsSame
  <2> QED
    BY <2>1 DEF Succeeding
<1> QED
  BY <1>1, <1>2, <1>3, <1>4 DEF IInv

(* The app gets the delta as it was made or damaged.                        *)
LEMMA ShipStep == IInv /\ Ship => IInv'
<1> SUFFICES ASSUME IInv, Ship PROVE IInv'
  OBVIOUS
<1> USE DEF Ship, builds
<1>0. /\ origin = "release" /\ Tree(old) /\ Tree(new) /\ Tree(installed) /\ SameKind(old, new)
      /\ damaged = "nothing" /\ Describes(delta, new) /\ Sourced(delta, old, new)
      /\ Listing(delta.entries) /\ delta.root \in {"dir", "file"}
  BY DEF IInv, Phases, Provenance, entries
<1>1. Phases'
  BY DEF IInv, Phases
<1>2. Provenance'
  <2>1. CASE delta' = delta /\ damaged' = damaged
    BY <2>1 DEF IInv, Provenance, entries
  <2>2. CASE delta' \in BlobDamage(delta) /\ damaged' = "blob"
    <3>1. Describes(delta', new) /\ Listing(delta'.entries) /\ delta'.root = delta.root
      BY <1>0, <2>2, DamageKeepsPaths, DamageDescribes
    <3>2. Traced(delta', old, new)
      BY <1>0, <3>1, DescribesTraced
    <3> QED
      BY <1>0, <2>2, <3>1, <3>2 DEF IInv, Provenance, entries
  <2>3. CASE delta' \in HeaderDamage(delta) /\ damaged' = "header"
    <3>1. /\ delta'.root \in {"dir", "file"} /\ Listing(delta'.entries)
          /\ Traced(delta', old, new)
      BY <1>0, <2>3, HeaderDamageTraced
    <3> QED
      BY <1>0, <2>3, <3>1 DEF IInv, Provenance, entries
  <2> QED
    BY <2>1, <2>2, <2>3
<1>3. Progress'
  BY DEF Progress
<1>4. Succeeding'
  BY DEF Succeeding
<1> QED
  BY <1>1, <1>2, <1>3, <1>4 DEF IInv

(* IInv is inductive.                                                       *)
LEMMA NextHolds == IInv /\ [Next]_vars => IInv'
<1> SUFFICES ASSUME IInv, [Next]_vars PROVE IInv'
  OBVIOUS
<1>1. CASE UNCHANGED vars
  <2>1. Phases'
    BY <1>1 DEF IInv, Phases, vars, builds
  <2>2. Provenance'
    BY <1>1 DEF IInv, Provenance, entries, vars, builds
  <2>3. Progress'
    <3>1. entries' = entries /\ \A any : Rebuilt(any)' <=> Rebuilt(any)
      BY <1>1, SameRebuilt DEF entries, vars
    <3>2. /\ RebuiltTo(place - 1)' <=> RebuiltTo(place - 1)
          /\ RebuiltTo(Len(entries))' <=> RebuiltTo(Len(entries))
      BY <1>1, <3>1 DEF RebuiltTo, vars
    <3>3. /\ Lists(delta, out)' <=> Lists(delta, out)
          /\ Genuine(out)' <=> Genuine(out)
          /\ Expected(new)' = Expected(new)
      BY <1>1 DEF Lists, Genuine, Expected, vars, builds
    <3> QED
      BY <1>1, <3>1, <3>2, <3>3 DEF IInv, Progress, vars, builds
  <2>4. Succeeding'
    BY <1>1 DEF IInv, Succeeding, Undisturbed, Serves, vars, builds
  <2> QED
    BY <2>1, <2>2, <2>3, <2>4 DEF IInv
<1> QED
  BY <1>1, MakeStep, StartStep, WriteStep, WriteEndsStep, SetModeStep, FinishStep, FaultStep,
     CleanStep, VerifyStep, ShipStep DEF Next

(* The invariant of every delta and every way it is applied.                *)
THEOREM Invariance == Spec => []IInv
BY InitHolds, NextHolds, PTL DEF Spec

(* "Reject headers that could write outside `out`" and "on any error the    *)
(* partial output is removed", for every header, whoever made it.           *)
THEOREM OnlyOutputTouched == Spec => []TouchesOutputOnly
<1>1. IInv => TouchesOutputOnly
  BY DEF IInv, Phases, TouchesOutputOnly
<1> QED
  BY <1>1, Invariance, PTL

(* What the app gets out of a delta is what its header lists, with the      *)
(* recorded contents, whatever was installed.  Of a delta of the release    *)
(* tools it is the new build however the blobs were damaged, and holds only *)
(* contents of the new build if a field of the header was.                  *)
THEOREM NewBuildRebuilt == Spec => []Rebuilds
<1>1. IInv => Rebuilds
  BY DEF IInv, Progress, Rebuilds, Applied
<1> QED
  BY <1>1, Invariance, PTL

(* A delta of the release tools applies to every installation that has the  *)
(* files of the old build, if it was verified or has no absolute link; only *)
(* a set-user-ID bit makes the release turn one down.                       *)
THEOREM DeltasServe == Spec => []DeltasApply
<1>1. IInv => DeltasApply
  <2> SUFFICES ASSUME IInv PROVE DeltasApply
    OBVIOUS
  <2>1. /\ pc = "ended" /\ origin = "release" /\ SameKind(old, new)
        /\ verified \/ Portable(new)
        /\ who = "app" => Serves /\ before = NoTree /\ damaged = "nothing" /\ faulted = "nothing"
        => result = "ok"
    BY DEF IInv, Phases, Succeeding, Undisturbed
  <2>2. pc = "rejected" => \E p \in DOMAIN new : new[p].mode = "set-user-ID"
    BY DEF IInv, Succeeding
  <2> QED
    BY <2>1, <2>2 DEF DeltasApply
<1> QED
  BY <1>1, Invariance, PTL

==============================================================================
