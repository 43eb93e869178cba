----------------------------- MODULE EngineProofs -----------------------------
(***************************************************************************)
(* For any versions and chains of any length: what download_cancellable    *)
(* returns was checked, it leaves no scratch behind, no delta makes it     *)
(* fail, and a cancelled delta attempt does not fetch the artifact.  A     *)
(* self-update (EngineInstall) implements that download, asks who owns the *)
(* app and whether it could install before it fetches anything, and        *)
(* installs only what the payload checks passed.                           *)
(*                                                                         *)
(* The argument about the download follows a chain: the deltas still to    *)
(* apply lead from the files that are there to the target, and the only    *)
(* tree there is, is the one the next delta applies to.  The one about the *)
(* self-update (InstallInv) carries each answer from the step that asked   *)
(* to the installer that relies on it; that the answers are right is a     *)
(* fact about `ownership`, whose searches stop at the first that knows.    *)
(***************************************************************************)
EXTENDS EngineInstall, WellFoundedInduction, TLAPS

HopStage == {"hop", "fetch_hop", "verify_hop", "apply"}

(* What is left of the chain leads from `base` to the target.               *)
Leads(chain, from) ==
  /\ chain \in Seq(Hop)
  /\ chain # << >> =>
       /\ chain[1][1] = from
       /\ chain[Len(chain)][2] = Target
       /\ \A i \in 1 .. Len(chain) - 1 : chain[i][2] = chain[i + 1][1]

(* At most one delta and one tree exist, and only while they are needed;    *)
(* any other could not be removed, or was there before.                     *)
Scratch ==
  /\ delta # "none" => spilt \/ pc \in {"verify_hop", "apply"}
  /\ \A v \in Version : trees[v] # "none" =>
       \/ v \in stays
       \/ v = base /\ base # Running /\ (pc \in HopStage \/ pc = "rebuilt" \/ result = "rebuilt")
  /\ pc \in HopStage \cup {"rebuilt"} \/ result = "rebuilt" =>
       base = Running \/ base \notin stays
  /\ Running <= base

(* What was checked is genuine.                                             *)
Checked ==
  /\ pc = "apply" /\ held => delta = "genuine"
  /\ pc = "rebuilt" \/ result = "rebuilt" => (held => trees[Target] = "genuine")
  /\ result = "artifact" /\ vouched => artifact = "genuine"

IInv ==
  /\ TypeOK
  /\ Leads(hops, base)
  /\ Scratch
  /\ Checked
  /\ pc = "rebuilt" \/ result = "rebuilt" => base = Target /\ trees[Target] # "none"
  /\ pc = "done" <=> result # "none"

------------------------------------------------------------------------------
(* Chains.                                                                  *)

(* A chain the plan may return leads from the running version to the target *)
(* (`delta_plan`).                                                          *)
LEMMA ChainLeads ==
  ASSUME NEW c \in Chains
  PROVE  Leads(c, Running) /\ c # << >>
  <1>1. PICK n \in 1 .. MaxHops : c \in [1 .. n -> Hop]
    BY DEF Chains
  <1>2. c \in Seq(Hop) /\ Len(c) = n
    BY <1>1, HopsAssumption
  <1>3. c # << >>
    BY <1>2
  <1> QED
    BY <1>2, <1>3 DEF Chains, Leads

(* The loop over the hops ends exactly when none is left.                   *)
LEMMA EmptyChain ==
  ASSUME NEW c \in Seq(Hop)
  PROVE  c = << >> <=> Len(c) = 0
  OBVIOUS

(* After a hop is applied, the rest of the chain leads on from the version  *)
(* it produced.                                                             *)
LEMMA TailLeads ==
  ASSUME NEW c, NEW v \in Version, Leads(c, v), c # << >>
  PROVE  /\ Leads(Tail(c), Head(c)[2])
         /\ Head(c) \in Hop
         /\ Len(c) \in Nat \ {0}
         /\ Len(c) = 1 => Tail(c) = << >> /\ Head(c)[2] = Target
         /\ Len(c) # 1 => Tail(c) # << >>
  <1>1. c \in Seq(Hop) /\ Len(c) \in Nat \ {0} /\ Head(c) = c[1] /\ c[1] \in Hop
    BY DEF Leads
  <1>2. Tail(c) \in Seq(Hop) /\ Len(Tail(c)) = Len(c) - 1
    BY <1>1
  <1>3. \A i \in 1 .. Len(c) - 1 : Tail(c)[i] = c[i + 1]
    BY <1>1
  <1>4. /\ c[Len(c)][2] = Target
        /\ \A i \in 1 .. Len(c) - 1 : c[i][2] = c[i + 1][1]
    BY DEF Leads
  <1>5. CASE Len(c) = 1
    <2> DEFINE t == Tail(c)
    <2>0. t \in Seq(Hop) /\ Len(t) = 0
      BY <1>1, <1>2, <1>5
    <2> HIDE DEF t
    <2>1. t = << >>
      BY <2>0, EmptyChain
    <2> USE DEF t
    <2>2. Head(c)[2] = Target
      BY <1>1, <1>4, <1>5
    <2> QED
      BY <1>1, <1>2, <1>5, <2>1, <2>2 DEF Leads
  <1>6. CASE Len(c) # 1
    <2> DEFINE t == Tail(c)
    <2>1. 1 \in 1 .. Len(c) - 1 /\ Len(c) - 1 \in 1 .. Len(c) - 1 /\ Len(t) = Len(c) - 1
      BY <1>1, <1>2, <1>6
    <2>2. t[1] = c[2] /\ t[Len(t)] = c[Len(c)]
      BY <1>1, <1>3, <2>1
    <2>3. c[1][2] = c[2][1]
      BY <1>4, <2>1
    <2>4. ASSUME NEW i \in 1 .. Len(t) - 1
          PROVE  t[i][2] = t[i + 1][1]
      <3>1. i \in 1 .. Len(c) - 1 /\ i + 1 \in 1 .. Len(c) - 1
        BY <1>1, <2>1
      <3>2. t[i] = c[i + 1] /\ t[i + 1] = c[(i + 1) + 1]
        BY <1>3, <3>1
      <3> QED
        BY <1>4, <3>1, <3>2
    <2>5. t # << >>
      <3>1. t \in Seq(Hop) /\ Len(t) # 0
        BY <1>1, <1>2, <1>6
      <3> HIDE DEF t
      <3> QED
        BY <3>1, EmptyChain
    <2>6. t \in Seq(Hop) /\ t[1][1] = Head(c)[2] /\ t[Len(t)][2] = Target
      BY <1>1, <1>2, <1>4, <2>2, <2>3
    <2> HIDE DEF t
    <2>7. Leads(t, Head(c)[2])
      BY <2>4, <2>6 DEF Leads
    <2> QED
      BY <1>1, <1>6, <2>5, <2>7 DEF t
  <1> QED
    BY <1>5, <1>6

------------------------------------------------------------------------------
(* The invariant.                                                           *)

(* The download starts with nothing on disk that a delta attempt made.      *)
LEMMA InitInv == Init => IInv
  <1> SUFFICES ASSUME Init PROVE IInv
    OBVIOUS
  <1>1. artifact \in Content
    BY DEF Init, Content
  <1>2. hops = << >> /\ hops \in Seq(Hop) /\ base \in Version
    BY TargetAssumption DEF Init
  <1>3. /\ trees \in [Version -> Content] /\ stays \subseteq Version
        /\ \A v \in Version : trees[v] # "none" => v \in stays
    BY EarlierAssumption DEF Init, Content
  <1> QED
    <2>1. TypeOK
      BY <1>1, <1>2, <1>3 DEF Init, TypeOK, Content, Stage
    <2>2. Scratch
      BY <1>3, VersionAssumption, TargetAssumption DEF Init, Scratch, HopStage
    <2> QED
      BY <1>2, <2>1, <2>2 DEF Init, IInv, Leads, Checked

(* A hop that fails.                                                        *)
LEMMA HopFailsInv ==
  ASSUME IInv, pc \in HopStage, HopFails, UNCHANGED << setting, cancelled >>,
         DropDelta \/ (pc = "hop" /\ UNCHANGED << delta, spilt >>)
  PROVE  IInv'
  <1>1. PICK stuck \in SUBSET Spent :
          trees' = TreesLeft(Spent, stuck) /\ stays' = StaysLeft(Spent, stuck)
    BY DEF HopFails
  <1>2. hops # << >> /\ hops \in Seq(Hop) /\ base \in Version
    BY DEF IInv, TypeOK, HopStage
  <1>3. Head(hops) \in Hop
    BY <1>2
  <1>4. Spent \subseteq Version
    BY <1>2, <1>3 DEF Spent, Hop
  <1>5. trees' \in [Version -> Content] /\ stays' \subseteq Version
    BY <1>1, <1>4 DEF TreesLeft, StaysLeft, IInv, TypeOK, Content
  <1>6. ASSUME NEW v \in Version, trees'[v] # "none"
        PROVE  v \in stays'
    <2>1. trees[v] # "none" /\ v \notin Spent \ stuck
      BY <1>1, <1>6 DEF TreesLeft, IInv, TypeOK
    <2>2. v \in stays \/ v \in Spent
      BY <2>1 DEF IInv, Scratch, Spent
    <2> QED
      BY <1>1, <2>1, <2>2 DEF StaysLeft
  <1>7. pc' = "full" /\ result' = "none" /\ hops' = << >> /\ hops' \in Seq(Hop)
    BY DEF HopFails, AfterDeltas, Go, IInv, TypeOK, HopStage
  <1>8. /\ delta' \in Content /\ spilt' \in BOOLEAN /\ held' = FALSE
        /\ delta' # "none" => spilt'
    BY DEF DropDelta, HopFails, IInv, TypeOK, Scratch, Content
  <1> QED
    BY <1>5, <1>6, <1>7, <1>8
    DEF IInv, TypeOK, Leads, Scratch, Checked, HopFails, Content, Stage, HopStage, setting

(* Planning either goes to the full package or takes a chain of deltas from *)
(* the running version.                                                     *)
LEMMA PlanInv == IInv /\ Plan => IInv'
  <1> SUFFICES ASSUME IInv, Plan PROVE IInv'
    OBVIOUS
  <1>1. CASE Go("full") /\ UNCHANGED hops
    BY <1>1, VersionAssumption, TargetAssumption DEF Plan, IInv, TypeOK, Leads, Scratch, Checked, Go, Content,
       Stage, HopStage, setting, scratch
  <1>2. CASE \E chain \in Chains : Go("hop") /\ hops' = chain
    <2>1. PICK chain \in Chains : Go("hop") /\ hops' = chain
      BY <1>2
    <2>2. Leads(hops', base') /\ hops' # << >>
      BY <2>1, ChainLeads DEF Plan
    <2>3. hops' \in Seq(Hop) /\ Head(hops')[1] = base'
      BY <2>2 DEF Leads
    <2>4. \A v \in Version : trees[v] # "none" => v \in stays
      BY DEF Plan, IInv, Scratch, HopStage
    <2> QED
      BY <2>1, <2>2, <2>3, <2>4, VersionAssumption, TargetAssumption DEF Plan, IInv, TypeOK, Scratch, Checked,
         Go, Content, Stage, HopStage, setting, scratch
  <1> QED
    BY <1>1, <1>2 DEF Plan

(* The steps of a hop before it is applied: a failure drops the trees, a    *)
(* success only moves on.                                                   *)
LEMMA HopInv == IInv /\ (BeginHop \/ FetchHop \/ VerifyHop) => IInv'
  <1> SUFFICES ASSUME IInv, BeginHop \/ FetchHop \/ VerifyHop PROVE IInv'
    OBVIOUS
  <1>1. pc \in HopStage /\ UNCHANGED << setting, cancelled >>
    BY DEF BeginHop, FetchHop, VerifyHop, HopStage
  <1>2. CASE HopFails
    <2>1. DropDelta \/ (pc = "hop" /\ UNCHANGED << delta, spilt >>)
      BY <1>2 DEF BeginHop, FetchHop, VerifyHop, HopFails, AfterDeltas, Go
    <2> QED
      BY <1>1, <1>2, <2>1, HopFailsInv
  <1>3. CASE ~HopFails
    BY <1>1, <1>3 DEF BeginHop, FetchHop, VerifyHop, IInv, TypeOK, Leads, Scratch, Checked,
       Go, MayAccept, Content, Stage, HopStage, setting, scratch
  <1> QED
    BY <1>2, <1>3

(* Applying a delta: the next base is a tree built from the delta's own     *)
(* hashes, the last one is the rebuilt artifact.                            *)
LEMMA ApplyInv == IInv /\ Apply => IInv'
  <1> SUFFICES ASSUME IInv, Apply PROVE IInv'
    OBVIOUS
  <1>1. CASE HopFails
    BY <1>1, HopFailsInv DEF Apply, HopStage
  <1>2. CASE ~HopFails
    <2>1. /\ HashesMatch /\ base' = NextBase /\ hops' = Tail(hops)
          /\ DropDelta /\ Go(IF Len(hops) = 1 THEN "rebuilt" ELSE "hop")
          /\ UNCHANGED << artifact, held, setting, cancelled >> /\ pc = "apply"
      BY <1>2 DEF Apply
    <2>2. PICK stuck \in SUBSET ({base} \ {Running}) :
            /\ trees' = Applied(stuck)
            /\ stays' = StaysLeft({base} \ {Running}, stuck) \ {NextBase}
      BY <1>2 DEF Apply
    <2>3. hops # << >> /\ Leads(hops, base) /\ base \in Version
      BY <2>1 DEF IInv, TypeOK
    <2>4. /\ Leads(hops', base') /\ Head(hops) \in Hop
          /\ Len(hops) = 1 => hops' = << >> /\ base' = Target
          /\ Len(hops) # 1 => hops' # << >>
      BY <2>1, <2>3, TailLeads DEF NextBase
    <2>5. base' \in Version /\ base' = Head(hops)[2]
      BY <2>1, <2>4 DEF NextBase, Hop
    <2>6. Running < base'
      <3>1. Head(hops)[1] < Head(hops)[2] /\ Head(hops)[1] = base /\ Running <= base
        BY <2>3, <2>4 DEF IInv, TypeOK, Scratch, Hop
      <3> QED
        BY <2>3, <2>5, <3>1, VersionAssumption, TargetAssumption
    <2>7. hops' # << >> => base' = Head(hops')[1]
      BY <2>4 DEF Leads
    <2>8. Rebuilt \in {"genuine", "other"} /\ (held => Rebuilt = "genuine")
      BY <2>1 DEF Rebuilt, HashesMatch, IInv, Checked
    <2>9. /\ trees' = [TreesLeft({base} \ {Running}, stuck) EXCEPT ![base'] = Rebuilt]
          /\ stays' = StaysLeft({base} \ {Running}, stuck) \ {base'}
      BY <2>1, <2>2 DEF Applied
    <2>10. /\ trees' \in [Version -> Content] /\ stays' \subseteq Version
           /\ trees'[base'] = Rebuilt /\ base' \notin stays'
      BY <2>5, <2>8, <2>9 DEF TreesLeft, StaysLeft, IInv, TypeOK, Content
    <2>11. ASSUME NEW v \in Version, trees'[v] # "none", v # base'
           PROVE  v \in stays'
      <3>1. trees[v] # "none" /\ v \notin ({base} \ {Running}) \ stuck
        BY <2>5, <2>9, <2>11 DEF TreesLeft, IInv, TypeOK
      <3>2. v \in stays \/ (v = base /\ base # Running)
        BY <3>1 DEF IInv, Scratch
      <3> QED
        BY <2>9, <2>11, <3>1, <3>2 DEF StaysLeft
    <2>12. /\ delta' \in Content /\ spilt' \in BOOLEAN
           /\ delta' # "none" => spilt'
      BY <2>1 DEF DropDelta, IInv, TypeOK, Content
    <2>13. pc' = (IF Len(hops) = 1 THEN "rebuilt" ELSE "hop") /\ result' = "none"
      BY <2>1 DEF Go, IInv, TypeOK
    <2>14. TypeOK'
      BY <2>1, <2>4, <2>5, <2>7, <2>10, <2>12, <2>13
      DEF IInv, TypeOK, Leads, Content, Stage, setting
    <2>15. Scratch'
      BY <2>5, <2>6, <2>10, <2>11, <2>12, <2>13, VersionAssumption, TargetAssumption
      DEF Scratch, HopStage
    <2>16. Checked'
      BY <2>1, <2>4, <2>8, <2>10, <2>13 DEF Checked
    <2> QED
      BY <2>4, <2>8, <2>10, <2>13, <2>14, <2>15, <2>16 DEF IInv
  <1> QED
    BY <1>1, <1>2

(* The rest leave the chain alone.                                          *)
LEMMA OtherInv ==
  IInv /\ (Start \/ Reuse \/ CheckRebuilt \/ Full \/ Fetch \/ Fetched \/ Verify \/ Cancel)
    => IInv'
  <1> SUFFICES ASSUME IInv PROVE /\ Start => IInv'
                                 /\ Reuse => IInv'
                                 /\ CheckRebuilt => IInv'
                                 /\ Full => IInv'
                                 /\ Fetch => IInv'
                                 /\ Fetched => IInv'
                                 /\ Verify => IInv'
                                 /\ Cancel => IInv'
    OBVIOUS
  <1> USE DEF IInv, TypeOK, Leads, Scratch, Checked, Go, End, Content, Stage, HopStage, setting, scratch
  <1>1. Start => IInv'
    BY DEF Start
  <1>2. Reuse => IInv'
    BY DEF Reuse, MayAccept
  <1>3. CheckRebuilt => IInv'
    BY DEF CheckRebuilt, AfterDeltas, TreesLeft, StaysLeft
  <1>4. Full => IInv'
    BY DEF Full, BeginFull
  <1>5. Fetch => IInv'
    BY DEF Fetch
  <1>6. Fetched => IInv'
    BY DEF Fetched
  <1>7. Verify => IInv'
    BY DEF Verify, MayAccept
  <1>8. Cancel => IInv'
    BY DEF Cancel
  <1> QED
    BY <1>1, <1>2, <1>3, <1>4, <1>5, <1>6, <1>7, <1>8

(* Every step of the download keeps the invariant.                          *)
LEMMA StepInv == IInv /\ [Next]_vars => IInv'
  <1> SUFFICES ASSUME IInv, [Next]_vars PROVE IInv'
    OBVIOUS
  <1>1. CASE UNCHANGED vars
    BY <1>1 DEF vars, setting, scratch, IInv, TypeOK, Leads, Scratch, Checked
  <1>2. CASE Next
    BY <1>2, PlanInv, HopInv, ApplyInv, OtherInv DEF Next
  <1> QED
    BY <1>1, <1>2

(* The inductive invariant holds in every state of a download.              *)
THEOREM Invariance == Spec => []IInv
  BY InitInv, StepInv, PTL DEF Spec

------------------------------------------------------------------------------
(* What follows from it.                                                    *)

(* Whatever the deltas hold and however long the chain, what is returned    *)
(* of what can be checked, artifact or last delta, is what the publisher    *)
(* made.                                                                    *)
THEOREM ReturnedChecked == Spec => []ReturnedIsGenuine
  <1>1. IInv => ReturnedIsGenuine
    BY TargetAssumption DEF IInv, TypeOK, Checked, ReturnedIsGenuine
  <1> QED
    BY <1>1, Invariance, PTL

(* Any chain, broken off anywhere, leaves no delta and no tree behind that  *)
(* it could remove.                                                         *)
THEOREM ScratchRemoved == Spec => []NoScratchLeft
  <1>1. IInv => NoScratchLeft
    BY TargetAssumption DEF IInv, TypeOK, Scratch, NoScratchLeft, HopStage
  <1> QED
    BY <1>1, Invariance, PTL

(* No step of a delta attempt ends the download with an error.              *)
THEOREM DeltasHarmless == Spec => DeltasNeverFail
  <1>1. IInv /\ [Next]_vars => [(pc \in DeltaStage) => result' # "error"]_vars
    <2> SUFFICES ASSUME IInv, Next, pc \in DeltaStage
                 PROVE  result' # "error"
      BY DEF vars, setting, scratch
    <2>1. result # "error"
      BY DEF IInv, DeltaStage
    <2>2. BeginHop \/ FetchHop \/ VerifyHop \/ Apply \/ CheckRebuilt \/ Cancel
      BY DEF Next, DeltaStage, Start, Reuse, Plan, Full, BeginFull, Fetch, Fetched, Verify
    <2>3. result' = result \/ result' = "rebuilt"
      BY <2>2 DEF BeginHop, FetchHop, VerifyHop, Apply, CheckRebuilt, Cancel, HopFails,
         AfterDeltas, Go, End
    <2> QED
      BY <2>1, <2>3
  <1> QED
    BY <1>1, Invariance, PTL DEF Spec, DeltasNeverFail

(* Once a delta attempt is cancelled the full artifact is not fetched.      *)
THEOREM CancelHolds == Spec => CancelledDeltasDoNotFallBack
  <1> DEFINE Stopping == cancelled /\ pc \in DeltaStage \cup {"full", "done"}
  <1>1. Stopping /\ [Next]_vars => Stopping'
    <2> SUFFICES ASSUME Stopping, [Next]_vars PROVE Stopping'
      OBVIOUS
    <2>1. CASE UNCHANGED vars
      BY <2>1 DEF vars, DeltaStage
    <2>2. CASE Next
      BY <2>2 DEF Next, DeltaStage, Start, Reuse, Plan, BeginHop, FetchHop, VerifyHop, Apply,
         CheckRebuilt, Full, BeginFull, Fetch, Fetched, Verify, Cancel, HopFails, AfterDeltas,
         Go, End
    <2> QED
      BY <2>1, <2>2
  <1>2. cancelled /\ pc \in DeltaStage => Stopping
    OBVIOUS
  <1>3. Stopping => pc # "fetch"
    BY DEF DeltaStage
  <1> HIDE DEF Stopping
  <1>4. [][Next]_vars => []((cancelled /\ pc \in DeltaStage) => [](pc # "fetch"))
    BY <1>1, <1>2, <1>3, PTL
  <1> QED
    BY <1>4, PTL DEF Spec, CancelledDeltasDoNotFallBack

------------------------------------------------------------------------------
(* Who owns an app.                                                         *)

(* Every set of numbers that is not empty has a least member.               *)
LEMMA LeastNumber ==
  ASSUME NEW S \in SUBSET Nat, S # {}
  PROVE  \E m \in S : \A n \in S : m <= n
<1> DEFINE R == OpToRel(<, Nat)
<1>1. IsWellFoundedOn(R, Nat)
  BY NatLessThanWellFounded
<1>2. \A m, n \in Nat : << n, m >> \in R <=> n < m
  BY DEF OpToRel
<1> HIDE DEF R
<1>3. PICK m \in S : \A n \in S : ~(<< n, m >> \in R)
  BY <1>1, WFMin
<1>4. ASSUME NEW n \in S PROVE m <= n
  <2>1. m \in Nat /\ n \in Nat
    OBVIOUS
  <2>2. ~(n < m)
    BY <1>2, <1>3, <2>1
  <2> QED
    BY <2>1, <2>2
<1> QED
  BY <1>4

(* The lists that are asked in order have numbered members, and no manager  *)
(* has the name of another answer.                                          *)
LEMMA Asked ==
  /\ DOMAIN Locations = 1 .. 8 /\ DOMAIN Tools = 1 .. 3
  /\ {"self", "packager", "unknown"} \cap Managers = {}
  /\ \A i \in 1 .. 8 : Locations[i] \in Range(Locations)
  /\ \A i \in 1 .. 3 : Tools[i] \in Range(Tools)
  /\ Range(Locations) \subseteq Managers /\ Range(Tools) \subseteq Managers
  /\ Range(Names) = {"root", "canonical"}
<1>1. DOMAIN Locations = 1 .. 8 /\ DOMAIN Tools = 1 .. 3 /\ DOMAIN Names = 1 .. 2
  BY DEF Locations, Tools, Names
<1>2. \A i \in 1 .. 8 : Locations[i] \notin {"self", "packager", "unknown"}
  BY DEF Locations
<1>3. \A i \in 1 .. 3 : Tools[i] \notin {"self", "packager", "unknown"}
  BY DEF Tools
<1>4. Range(Names) = {"root", "canonical"}
  <2>1. Names[1] = "root" /\ Names[2] = "canonical"
    BY DEF Names
  <2> QED
    BY <1>1, <2>1 DEF Range
<1> QED
  BY <1>1, <1>2, <1>3, <1>4 DEF Managers, Range

(* A search in order finds an index that passes, if there is one.           *)
LEMMA FirstIndex ==
  ASSUME NEW n \in Nat, NEW I \in SUBSET (1 .. n), I # {}
  PROVE  \E i \in 1 .. n : i \in I /\ \A j \in 1 .. i - 1 : j \notin I
<1>1. I \subseteq Nat
  OBVIOUS
<1>2. PICK m \in I : \A k \in I : m <= k
  BY <1>1, LeastNumber
<1>3. \A j \in 1 .. m - 1 : j \notin I
  <2> SUFFICES ASSUME NEW j \in 1 .. m - 1, j \in I PROVE FALSE
    OBVIOUS
  <2>1. m <= j /\ m \in Nat /\ j \in Nat /\ j <= m - 1
    BY <1>1, <1>2
  <2> QED
    BY <2>1
<1> QED
  BY <1>2, <1>3

(* What a search finds is one of those it looks for, and it finds one if    *)
(* there is one.                                                            *)
LEMMA FirstFound ==
  ASSUME NEW list, NEW n \in Nat, DOMAIN list = 1 .. n, NEW some
  PROVE  IF \E i \in 1 .. n : list[i] \in some
           THEN FirstOf(list, some) \in some /\ FirstOf(list, some) \in Range(list)
           ELSE FirstOf(list, some) = "self"
<1> DEFINE I == {i \in 1 .. n : list[i] \in some}
           First(i) == list[i] \in some /\ \A j \in 1 .. i - 1 : list[j] \notin some
<1>1. CASE I = {}
  BY <1>1 DEF FirstOf
<1>2. CASE I # {}
  <2>1. PICK i \in 1 .. n : i \in I /\ \A j \in 1 .. i - 1 : j \notin I
    <3> HIDE DEF I
    <3>1. I \in SUBSET (1 .. n)
      BY DEF I
    <3> QED
      BY <1>2, <3>1, FirstIndex
  <2>2. \A j \in 1 .. i - 1 : j \in 1 .. n
    OBVIOUS
  <2>3. First(i)
    BY <2>1, <2>2
  <2> DEFINE k == CHOOSE k \in DOMAIN list : First(k)
  <2>4. k \in DOMAIN list /\ First(k)
    BY <2>3
  <2>5. FirstOf(list, some) = list[k]
    BY <2>4 DEF FirstOf
  <2> QED
    BY <2>4, <2>5 DEF Range
<1> QED
  BY <1>1, <1>2

(* by_path names a manager that knows the place, or nobody does.            *)
LEMMA PathKnown ==
  ASSUME NEW app, NEW name
  PROVE  IF by_path(app, name) = "self"
           THEN \A m \in Range(Locations) : m \notin app.location[name]
           ELSE by_path(app, name) \in Range(Locations) \cap app.location[name]
<1> DEFINE some == app.location[name]
<1>1. IF \E i \in 1 .. 8 : Locations[i] \in some
        THEN by_path(app, name) \in some /\ by_path(app, name) \in Range(Locations)
        ELSE by_path(app, name) = "self"
  <2> HIDE DEF some
  <2>1. by_path(app, name) = FirstOf(Locations, some)
    BY DEF by_path, some
  <2>2. DOMAIN Locations = 1 .. 8
    BY Asked
  <2> QED
    BY <2>1, <2>2, FirstFound
<1>2. \A m \in Range(Locations) : \E i \in 1 .. 8 : m = Locations[i]
  BY Asked DEF Range
<1>3. "self" \notin Range(Locations)
  BY Asked
<1> QED
  BY <1>1, <1>2, <1>3

(* A package tool that is asked names itself, or nobody does.               *)
LEMMA ToolAnswers ==
  ASSUME NEW app, NEW name
  PROVE  IF queried(app, name) = "self"
           THEN \A t \in Range(Tools) : ~NamesOwner(t, app.answers[name][t])
           ELSE /\ queried(app, name) \in Range(Tools)
                /\ NamesOwner(queried(app, name), app.answers[name][queried(app, name)])
<1> DEFINE some == {t \in Range(Tools) : NamesOwner(t, app.answers[name][t])}
<1>1. IF \E i \in 1 .. 3 : Tools[i] \in some
        THEN queried(app, name) \in some /\ queried(app, name) \in Range(Tools)
        ELSE queried(app, name) = "self"
  <2> HIDE DEF some
  <2>1. queried(app, name) = FirstOf(Tools, some)
    BY DEF queried, some
  <2>2. DOMAIN Tools = 1 .. 3
    BY Asked
  <2> QED
    BY <2>1, <2>2, FirstFound
<1>2. \A m \in Range(Tools) : \E i \in 1 .. 3 : m = Tools[i]
  BY Asked DEF Range
<1>3. "self" \notin Range(Tools)
  BY Asked
<1> QED
  BY <1>1, <1>2, <1>3

(* Whom queried can name answers, and who answers but cannot be named is    *)
(* several dpkg packages (`dpkg_owner`, `single_name`).                     *)
LEMMA AnswerersNamed ==
  ASSUME NEW answers
  PROVE  /\ \A t \in Range(Tools) :
              NamesOwner(t, answers[t]) => t \in Answerers(answers)
         /\ (\A t \in Range(Tools) : ~NamesOwner(t, answers[t]))
              => Answerers(answers) \subseteq {"sharers"}
         /\ Answerers(answers) \subseteq Range(Tools) \cup {"sharers"}
<1>1. \A x : x \in Answerers(answers)
        <=> \E t \in Range(Tools) :
              /\ answers[t] \in {"owner", "shared"}
              /\ x = IF t = "apt" /\ answers[t] = "shared" THEN "sharers" ELSE t
  BY DEF Answerers
<1> QED
  BY <1>1 DEF NamesOwner

(* An app is its own exactly when nobody who can be asked claims it, but    *)
(* for dpkg packages that share it, and the manager that is named is one of *)
(* those who do (`ownership`).                                              *)
LEMMA OwnershipFacts ==
  ASSUME NEW app \in Surroundings
  PROVE  /\ ownership(app) = "self" => Claimants(app) \subseteq {"sharers"}
         /\ ownership(app) \in {"self", "packager"} \cup Claimants(app)
         /\ Claimants(app) \subseteq Managers \cup {"sharers"}
         /\ ownership(app) \in {"self", "packager"} \cup Managers
<1> DEFINE located_in == UNION {app.location[n] : n \in Range(Names)}
           owning == UNION {Answerers(app.answers[n]) : n \in Range(Names)}
<1>1. app.location \in [Range(Names) -> SUBSET Range(Locations)]
  BY DEF Surroundings
<1>2. IF located(app) = "self" THEN located_in = {} ELSE located(app) \in located_in
  <2>1. located_in = app.location["root"] \cup app.location["canonical"]
    BY Asked
  <2>2. /\ app.location["root"] \subseteq Range(Locations)
        /\ app.location["canonical"] \subseteq Range(Locations)
    BY <1>1, Asked
  <2> QED
    BY <2>1, <2>2, PathKnown DEF located, Either
<1>3. IF Either(queried(app, "root"), queried(app, "canonical")) = "self"
        THEN owning \subseteq {"sharers"}
        ELSE Either(queried(app, "root"), queried(app, "canonical")) \in owning
  <2>1. owning = Answerers(app.answers["root"]) \cup Answerers(app.answers["canonical"])
    BY Asked
  <2>2. \A name \in Range(Names) :
          IF queried(app, name) = "self"
            THEN Answerers(app.answers[name]) \subseteq {"sharers"}
            ELSE queried(app, name) \in Answerers(app.answers[name])
    BY ToolAnswers, AnswerersNamed
  <2>3. "root" \in Range(Names) /\ "canonical" \in Range(Names)
    BY Asked
  <2> HIDE DEF owning
  <2> QED
    BY <2>1, <2>2, <2>3 DEF Either
<1>4. Claimants(app) = located_in \cup (IF app.receipt THEN {"appstore"} ELSE {})
                         \cup (IF app.cask THEN {"homebrew"} ELSE {})
                         \cup (IF app.query THEN owning ELSE {})
  BY DEF Claimants
<1>5. located_in \subseteq Managers /\ owning \subseteq Managers \cup {"sharers"}
  <2>1. owning \subseteq Range(Tools) \cup {"sharers"}
    BY AnswerersNamed
  <2> HIDE DEF owning
  <2> QED
    BY <1>1, <2>1, Asked
<1>6. "homebrew" \in Managers /\ "appstore" \in Managers
  <2>1. Locations[4] = "homebrew"
    BY DEF Locations
  <2> QED
    BY <2>1, Asked DEF Managers
<1> HIDE DEF located_in, owning
<1>7. /\ ownership(app) = "self"
           => located_in = {} /\ ~app.receipt /\ ~app.cask
                /\ (app.query => owning \subseteq {"sharers"})
      /\ ownership(app) \in {"self", "packager"} \cup Claimants(app)
  <2>1. package_database(app) = "self" => (app.query => owning \subseteq {"sharers"})
    BY <1>3 DEF package_database
  <2>2. package_database(app) # "self" => app.query /\ package_database(app) \in owning
    BY <1>3 DEF package_database
  <2> QED
    BY <1>2, <1>4, <2>1, <2>2, Asked DEF ownership
<1>8. Claimants(app) \subseteq Managers \cup {"sharers"}
  BY <1>4, <1>5, <1>6
<1>9. ownership(app) # "sharers"
  <2>1. /\ \A i \in 1 .. 8 : Locations[i] # "sharers"
        /\ \A i \in 1 .. 3 : Tools[i] # "sharers"
    BY DEF Locations, Tools
  <2>2. "sharers" \notin Range(Locations) /\ "sharers" \notin Range(Tools)
    BY <2>1, Asked DEF Range
  <2> QED
    BY <2>2, PathKnown, ToolAnswers DEF ownership, package_database, located, Either
<1> QED
  BY <1>4, <1>7, <1>8, <1>9

------------------------------------------------------------------------------
(* A self-update.                                                           *)

(* Every step of a self-update is a step of the download or leaves it       *)
(* alone: the checks only settle its free choices.                          *)
LEMMA DownloadStep == Download => Next
<1> SUFFICES ASSUME Download PROVE Next
  OBVIOUS
<1> QED
  BY DEF Download, Begin, TryReuse, TryDeltas, Offer, Accept, Proceed, Next

(* EngineInstall implements EngineDownload, so whatever is proved of a      *)
(* download holds in a self-update, wherever the app is and whatever the    *)
(* publisher ships.                                                         *)
THEOREM InstallRefinesDownload == InstallSpec => Spec
<1>1. InstallInit => Init
  BY DEF InstallInit
<1>2. [InstallNext]_allVars => [Next]_vars
  BY DownloadStep DEF InstallNext, AskOwner, InstallIt, allVars
<1> QED
  BY <1>1, <1>2, PTL DEF InstallSpec, Spec

(* ReturnedIsGenuine and NoScratchLeft in a self-update.                    *)
THEOREM InstallsChecked == InstallSpec => [](ReturnedIsGenuine /\ NoScratchLeft)
  BY InstallRefinesDownload, ReturnedChecked, ScratchRemoved, PTL

(* CancelledDeltasDoNotFallBack in a self-update.                           *)
THEOREM InstallCancelHolds == InstallSpec => CancelledDeltasDoNotFallBack
  BY InstallRefinesDownload, CancelHolds, PTL

------------------------------------------------------------------------------
(* What was asked before the download, or on the way, and has to hold until *)
(* the installer relies on it.                                              *)

(* The configuration, which nothing changes.                                *)
KnownSetting ==
  /\ place \in Place /\ shape \in Shape /\ policy \in Policy /\ payload \in App

(* Who was asked said so.                                                   *)
OwnerKnown ==
  /\ owner = "self" => claims \subseteq {"sharers"}
  /\ owner \in Managers => owner \in claims

(* Only an app that owns itself has begun.                                  *)
OwnerFirst == owner # "self" => pc = "start" /\ result = "none" /\ installed = "no"

(* A download goes on only where the installer could write, a rebuild only  *)
(* where the installer takes one, and an app that is returned was looked at.*)
Foreseen ==
  /\ pc \in Stage
  /\ pc \notin {"start", "done"} => Installable
  /\ pc \in DeltaStage \/ result = "rebuilt" => accepts_rebuilt
  /\ result \in {"artifact", "rebuilt"} => PayloadOk

InstalledIsReturned ==
  /\ installed # "no" => result \in {"artifact", "rebuilt"}
  /\ installed \in {"replaced", "staged"} => Takes
  /\ installed = "refused" => ~Takes
  /\ installed = "replaced" => ~(result = "artifact" /\ Elevates)

InstallInv ==
  /\ KnownSetting
  /\ pc = "done" <=> result # "none"
  /\ OwnerKnown
  /\ OwnerFirst
  /\ Foreseen
  /\ InstalledIsReturned

(* It holds before the app has asked who owns it.                           *)
LEMMA InstallStarts == InstallInit => InstallInv
<1> SUFFICES ASSUME InstallInit PROVE InstallInv
  OBVIOUS
<1>1. KnownSetting
  BY ConfigurationAssumption DEF InstallInit, KnownSetting
<1>2. owner = "unknown" /\ claims = {} /\ installed = "no" /\ pc = "start" /\ result = "none"
  BY DEF InstallInit, Init
<1>3. "unknown" \notin Managers
  BY Asked
<1> QED
  BY <1>1, <1>2, <1>3
  DEF InstallInv, OwnerKnown, OwnerFirst, Foreseen, InstalledIsReturned, Stage, DeltaStage

(* The answer of the surroundings is what claims says.                      *)
LEMMA AskOwnerInv == InstallInv /\ AskOwner => InstallInv'
<1> SUFFICES ASSUME InstallInv, AskOwner PROVE InstallInv'
  OBVIOUS
<1>1. PICK app \in Site : owner' = ownership(app) /\ claims' = Claimants(app)
  BY DEF AskOwner
<1>2. OwnerKnown'
  BY <1>1, OwnershipFacts, Asked, SiteAssumption DEF OwnerKnown
<1>3. UNCHANGED << vars, world, installed >>
  BY DEF AskOwner
<1>4. owner = "unknown"
  BY DEF AskOwner
<1>5. OwnerFirst'
  BY <1>3, <1>4 DEF InstallInv, OwnerFirst, vars
<1> QED
  BY <1>2, <1>3, <1>5
  DEF InstallInv, KnownSetting, Foreseen, InstalledIsReturned, vars, world, Installable, Elevates,
      accepts_rebuilt, PayloadOk, Takes

(* A step of the download: what was asked still holds, as nothing of the    *)
(* configuration changes.                                                   *)
LEMMA DownloadInv == InstallInv /\ Download => InstallInv'
<1> SUFFICES ASSUME InstallInv, Download PROVE InstallInv'
  OBVIOUS
<1>1. /\ UNCHANGED << place, shape, policy, payload, owner, claims, installed >>
      /\ owner = "self"
  BY DEF Download, world
<1>2. /\ Installable' = Installable /\ accepts_rebuilt' = accepts_rebuilt
      /\ PayloadOk' = PayloadOk /\ Elevates' = Elevates
  BY <1>1 DEF Installable, accepts_rebuilt, PayloadOk, Elevates
<1>3. pc # "done" /\ result = "none" /\ installed = "no"
  <2>1. pc # "done"
    BY DEF Download, Begin, TryReuse, TryDeltas, Offer, Accept, Proceed, Start, Reuse, Plan,
           BeginHop, FetchHop, VerifyHop, Apply, CheckRebuilt, Full, BeginFull, Fetch, Fetched,
           Verify, Cancel
  <2> QED
    BY <2>1 DEF InstallInv, InstalledIsReturned
<1>4. (pc' = "done" <=> result' # "none") /\ Foreseen'
  <2> USE <1>2, <1>3 DEF InstallInv, Foreseen, Stage, DeltaStage, End, Go
  <2>1. CASE Begin
    BY <2>1 DEF Begin, Start
  <2>2. CASE TryReuse
    BY <2>2 DEF TryReuse, Reuse
  <2>3. CASE TryDeltas
    BY <2>3 DEF TryDeltas, Plan
  <2>4. CASE Offer
    BY <2>4 DEF Offer, CheckRebuilt, AfterDeltas
  <2>5. CASE Accept
    BY <2>5 DEF Accept, Verify
  <2>6. CASE BeginHop \/ FetchHop \/ VerifyHop \/ Apply
    BY <2>6 DEF BeginHop, FetchHop, VerifyHop, Apply, HopFails, AfterDeltas
  <2>7. CASE Full \/ Fetch \/ Fetched \/ Cancel
    BY <2>7 DEF Full, BeginFull, Fetch, Fetched, Cancel
  <2> QED
    BY <2>1, <2>2, <2>3, <2>4, <2>5, <2>6, <2>7 DEF Download, Proceed
<1> QED
  BY <1>1, <1>3, <1>4 DEF InstallInv, KnownSetting, OwnerKnown, OwnerFirst, InstalledIsReturned

(* The installer goes by what was returned.                                 *)
LEMMA InstallItInv == InstallInv /\ InstallIt => InstallInv'
  BY DEF InstallInv, InstallIt, KnownSetting, OwnerKnown, OwnerFirst, Foreseen,
         InstalledIsReturned, vars, world, Installable, Elevates, accepts_rebuilt, PayloadOk,
         Takes, Effect

(* Every reachable state satisfies it.                                      *)
THEOREM InstallInvariance == InstallSpec => []InstallInv
<1>1. InstallInv /\ UNCHANGED allVars => InstallInv'
  BY DEF InstallInv, allVars, KnownSetting, OwnerKnown, OwnerFirst, Foreseen,
         InstalledIsReturned, vars, world, Installable, Elevates, accepts_rebuilt, PayloadOk, Takes
<1>2. InstallInv /\ [InstallNext]_allVars => InstallInv'
  BY <1>1, AskOwnerInv, DownloadInv, InstallItInv DEF InstallNext
<1> QED
  BY <1>2, InstallStarts, PTL DEF InstallSpec

(* OwnersAreAsked: whatever surrounds the app, it updates itself only when  *)
(* nobody who can be asked says it is theirs, and it names as its owner     *)
(* only one who does.                                                       *)
THEOREM OwnersRespected == InstallSpec => []OwnersAreAsked
<1>1. InstallInv => OwnersAreAsked
  BY DEF InstallInv, OwnerKnown, OwnerFirst, OwnersAreAsked
<1> QED
  BY <1>1, InstallInvariance, PTL

(* OnlyOurAppIsInstalled: for any configuration and any app in the artifact,*)
(* had in any way, what replaces the app is of the signer and the version   *)
(* that are asked for.                                                      *)
THEOREM SignerKept == InstallSpec => []OnlyOurAppIsInstalled
<1>1. InstallInv => OnlyOurAppIsInstalled
  <2> SUFFICES ASSUME InstallInv, installed \in {"replaced", "staged"}, ~policy.skips
               PROVE  /\ shape.os # "linux" /\ policy.signing # "off"
                           /\ (policy.signing = "named" \/ policy.installed = "signed")
                         => payload.signer = Us /\ payload.intact
                      /\ shape.os = "windows" /\ policy.signing = "match"
                         => policy.installed # "unreadable"
                      /\ shape.os = "macos" /\ policy.version = "must" => payload.declares
    BY DEF OnlyOurAppIsInstalled
  <2>1. PayloadOk
    BY DEF InstallInv, InstalledIsReturned, Foreseen
  <2> QED
    BY <2>1, SignerAssumption DEF PayloadOk, check_payload, Expected, SignedBy, Signer
<1> QED
  BY <1>1, InstallInvariance, PTL

(* InstallerIsForeseen: nothing is fetched for a place that cannot be       *)
(* written, nothing is rebuilt that the installer refuses, and only an      *)
(* executable goes over an executable.                                      *)
THEOREM InstallerForeseen == InstallSpec => []InstallerIsForeseen
<1>1. InstallInv => InstallerIsForeseen
  BY DEF InstallInv, KnownSetting, Place, Shape, Foreseen, InstalledIsReturned, Installable, Elevates,
         accepts_rebuilt, Takes, InstallerIsForeseen
<1> QED
  BY <1>1, InstallInvariance, PTL
==============================================================================
