----------------------------- MODULE InstallProofs -----------------------------
(***************************************************************************)
(* Proofs about Install for any number of attempts that do not overlap,    *)
(* each of which may fail at any step but the roll-back, also to remove    *)
(* what is in its way, and crashes at any moment.                          *)
(***************************************************************************)
EXTENDS Install, FiniteSetTheorems, TLAPS

(* One attempt at a time, and whatever was put aside can be put back.       *)
OneByOne == MaxOverlap <= 1 /\ "rollback" \notin Faults

(* The attempt has not opened the file it copies to.                        *)
Unopened(a) ==
  \/ at[a] \in {"idle", "clean", "copy"}
  \/ at[a] \in {"clear", "move_aside"} /\ strategy = "windows"

(* The old app is still at the install root, or it is aside.                *)
InPlace(a) ==
  \/ at[a] \in {"clean", "clear", "move_aside"}
  \/ strategy # "windows" /\ at[a] \in {"copy", "copying"}
  \/ strategy = "linux_file" /\ at[a] = "move_in"
PutOff(a) == at[a] \in {"copy", "copying", "move_in", "undo"} /\ ~InPlace(a)

(* Nothing was put aside yet.                                               *)
Early == {"idle", "clean", "copy", "copying", "clear", "move_aside"}

(* The new version is complete, beside the root.                            *)
Copied(a) ==
  at[a] = "move_in" \/ (at[a] \in {"clear", "move_aside"} /\ strategy # "windows")

Alone ==
  /\ \A a, b \in Attempt : Running(a) /\ Running(b) => a = b
  /\ \A a \in Attempt : Running(a) => up

Kinds ==
  /\ \A a \in Attempt : how[a] = strategy
  /\ \A o \in Object : obj[o].kind = Kind(strategy)

(* What is of an attempt appears only when it makes it.                     *)
Unused ==
  \A a \in Attempt :
    /\ Unopened(a) => dir[Stage(a)] = None /\ \A n \in Name : dir[n] # a
    /\ Unopened(a) \/ Running(a) => image # a
    /\ at[a] \in Early => dir[Aside(a)] = None

Route(a) ==
  /\ strategy = "linux_file" => at[a] \notin {"clear", "move_aside", "undo", "tidy"}
  /\ strategy = "linux_dir" => at[a] # "clear"
  /\ strategy = "windows" => at[a] \notin {"move_in", "tidy"}
  /\ at[a] = "clean" => strategy = "macos"

(* Only ditto merges, and an object has files of two versions only then.    *)
Unmerged == \A a \in Attempt : ~Merged(a)

Merges ==
  /\ \A a \in Attempt : Merged(a) => strategy = "macos"
  /\ Unmerged => \A o \in Object : \E v \in Version : obj[o].from = {v}

(* Whole, unless something was merged.                                      *)
Sound(o) == o # None /\ (Unmerged => Whole(o))

(* Where the old app and the new version are, step by step.                 *)
OldIs(a) ==
  /\ InPlace(a) => dir[Root] = before[a]
  /\ PutOff(a) => dir[AsideOf(a)] = before[a]
  /\ InPlace(a) \/ PutOff(a) => Sound(before[a])

(* An object has all of the attempt's version, and only that unless merged. *)
Filled(a, o) ==
  /\ o # None
  /\ target[a] \in obj[o].from
  /\ ~Merged(a) => obj[o].from = {target[a]}

Holds(a, o) == Filled(a, o) /\ obj[o].open = {}

NewIs(a) ==
  /\ at[a] = "copying" =>
       dir[StageOf(a)] = fd[a] /\ Filled(a, fd[a]) /\ obj[fd[a]].open = {a}
  /\ Copied(a) => Holds(a, dir[StageOf(a)])
  /\ at[a] = "tidy" => Holds(a, dir[Root])

Gap(a) ==
  /\ strategy \in {"macos", "linux_dir"} /\ at[a] \in {"move_in", "undo"} => dir[Root] = None
  /\ strategy = "windows" /\ at[a] = "copy" => dir[Root] = None
  /\ strategy = "windows" /\ at[a] \in {"copying", "undo"} => dir[Root] = a
  /\ strategy = "macos" /\ at[a] = "copy" /\ ~Merged(a) => dir[New] = None
  /\ at[a] = "tidy" => dir[StageOf(a)] = None

Progress(a) == Route(a) /\ OldIs(a) /\ NewIs(a) /\ Gap(a)

(* The app that runs can be started again, unless an attempt is under way.  *)
Startable == up /\ Quiet => Sound(dir[Root])

Expected(n) ==
  \/ strategy = "macos" /\ n \in {New, Old}
  \/ strategy = "linux_file" /\ n = New
  \/ strategy = "windows" /\ n = Old
  \/ strategy = "linux_dir" /\ \E a \in Attempt : Running(a) /\ n \in {Stage(a), Aside(a)}

NoStrays ==
  (\A a \in Attempt : at[a] # "dead" /\ stuck[a] = {}) =>
    \A n \in Name \ {Root} : Exists(n) => Expected(n)

IInv ==
  /\ TypeOK /\ Alone /\ Kinds /\ Unused /\ Merges
  /\ \A a \in Attempt : Progress(a)
  /\ Startable /\ NoStrays
  /\ SuccessInstalls /\ FailureKeepsApp /\ ACopySurvives /\ ExecutableIsWhole

------------------------------------------------------------------------------
(* Names, directories and whole objects.                                    *)

(* A directory in which no two names share an object.                       *)
DirOK(d) ==
  /\ d \in [Name -> Object \cup {None}]
  /\ \A m, n \in Name : m # n /\ d[m] # None => d[m] # d[n]

(* The bounds on attempts give numbers to them and to objects.              *)
LEMMA Numbers ==
  /\ Attempt \subseteq Object \ {0, None} /\ None \notin Object /\ 0 \in Object
  /\ IsFiniteSet(Attempt)
  BY AttemptsAssumption, FS_Interval DEF Attempt, Object, None

(* Each strategy keeps the root, the stage and what is aside apart.         *)
LEMMA Names ==
  ASSUME NEW a \in Attempt
  PROVE  /\ {Root, New, Old, Stage(a), Aside(a)} \subseteq Name
         /\ Root # New /\ Root # Old /\ New # Old
         /\ \A b \in Attempt :
              /\ Stage(a) \notin {Root, New, Old, Aside(b)}
              /\ Aside(a) \notin {Root, New, Old, Stage(b)}
              /\ a # b => Stage(a) # Stage(b) /\ Aside(a) # Aside(b)
  BY DEF Root, New, Old, Stage, Aside, Name

(* An attempt has its stage and its aside under names of its strategy.      *)
LEMMA Places ==
  ASSUME NEW a \in Attempt, how[a] = strategy,
         strategy \in {"macos", "linux_dir", "linux_file", "windows"}
  PROVE  /\ StageOf(a) \in Name /\ AsideOf(a) \in Name
         /\ AsideOf(a) # Root /\ AsideOf(a) # StageOf(a)
         /\ strategy = "windows" => StageOf(a) = Root /\ AsideOf(a) = Old
         /\ strategy # "windows" => StageOf(a) # Root
         /\ strategy = "linux_dir" => StageOf(a) = Stage(a) /\ AsideOf(a) = Aside(a)
         /\ strategy \in {"macos", "linux_file"} => StageOf(a) = New /\ AsideOf(a) = Old
  BY Names DEF StageOf, AsideOf

(* Removing a name leaves every other one with its object.                  *)
LEMMA RemovedFacts ==
  ASSUME NEW d, DirOK(d), NEW n \in Name
  PROVE  /\ DirOK(Removed(d, n)) /\ Removed(d, n)[n] = None
         /\ \A m \in Name \ {n} : Removed(d, n)[m] = d[m]
  BY Numbers DEF Removed, DirOK

(* Moving an object frees its name and takes the other.                     *)
LEMMA MovedFacts ==
  ASSUME NEW d, DirOK(d), NEW m \in Name, NEW n \in Name, m # n
  PROVE  /\ DirOK(Moved(d, m, n)) /\ Moved(d, m, n)[n] = d[m] /\ Moved(d, m, n)[m] = None
         /\ \A k \in Name \ {m, n} : Moved(d, m, n)[k] = d[k]
  BY Numbers DEF Moved, DirOK

(* What has all of the new version is whole unless it was merged.           *)
LEMMA HeldIsSound ==
  ASSUME NEW a \in Attempt, NEW o, Holds(a, o)
  PROVE  Sound(o)
  BY FS_Singleton DEF Holds, Filled, Sound, Whole, Unmerged

(* With one attempt at a time, no other runs.                               *)
LEMMA OthersRest ==
  ASSUME IInv, NEW a \in Attempt, Running(a)
  PROVE  \A b \in Attempt \ {a} : ~Running(b) /\ at[b] \in {"idle", "done", "dead"}
  BY DEF IInv, Alone, Running

------------------------------------------------------------------------------
(* What the attempts have in common.                                        *)

(* A step inside an attempt claims nothing about quiet moments.             *)
LEMMA Midway ==
  ASSUME IInv, NEW a \in Attempt, Running(a), NEW st \in Step \ {"idle", "done", "dead"},
         Go(a, st), UNCHANGED << strategy, how, process >>
  PROVE  /\ Alone' /\ Startable' /\ SuccessInstalls' /\ FailureKeepsApp'
         /\ \A b \in Attempt \ {a} : Progress(b)'
         /\ at' \in [Attempt -> Step] /\ result' = result /\ last' = last
         /\ at'[a] = st /\ \A b \in Attempt \ {a} : at'[b] = at[b]
  <1>1. /\ at' = [at EXCEPT ![a] = st] /\ at \in [Attempt -> Step]
        /\ result' = result /\ last' = last /\ strategy' = strategy /\ up' = up
    BY DEF IInv, TypeOK, Go, process
  <1>2. /\ at' \in [Attempt -> Step] /\ at'[a] = st
        /\ \A b \in Attempt \ {a} : at'[b] = at[b] /\ at[b] \in {"idle", "done", "dead"}
    BY <1>1, OthersRest
  <1>3. Alone'
    BY <1>1, <1>2 DEF IInv, Alone, Running
  <1>4. ~Quiet'
    BY <1>2 DEF Quiet, Running
  <1>5. \A b \in Attempt \ {a} : Progress(b)'
    BY <1>2 DEF Progress, Route, OldIs, NewIs, Gap, InPlace, PutOff, Copied
  <1> QED
    BY <1>1, <1>2, <1>3, <1>4, <1>5 DEF Startable, SuccessInstalls, FailureKeepsApp

(* What a step of an attempt may do to the objects and to its history.      *)
Touched ==
  /\ obj' \in [Object -> [kind : {"dir", "file"}, from : SUBSET Version, open : SUBSET Attempt]]
  /\ \A o \in Object : obj'[o].kind = obj[o].kind /\ obj'[o].from = obj[o].from
  /\ stuck' \in [Attempt -> SUBSET Step]
  /\ \A b \in Attempt :
       /\ Merged(b) => Merged(b)'
       /\ Merged(b)' => strategy = "macos"
       /\ stuck'[b] = {} => stuck[b] = {}

(* Most steps do nothing to either.                                         *)
LEMMA Untouched == IInv /\ UNCHANGED << obj, stuck >> => Touched
  BY DEF IInv, TypeOK, Merges, Merged, Touched

(* A removal leaves every name but one, and every object but its own.       *)
LEMMA DiscardFacts ==
  ASSUME IInv, NEW a \in Attempt, NEW d, DirOK(d), NEW n \in Name, Discard(a, d, n)
  PROVE  /\ Touched /\ DirOK(dir')
         /\ \A m \in Name \ {n} : dir'[m] = d[m]
         /\ dir'[n] \in {None, d[n]}
         /\ \A o \in Object : o # d[n] => obj'[o] = obj[o]
         /\ \A b \in Attempt : Merged(b)' <=> Merged(b) \/ (b = a /\ at[a] = "clean" /\ dir'[n] # None)
         /\ stuck'[a] = {} => dir'[n] = None
  <1>1. CASE dir' = Removed(d, n) /\ UNCHANGED << obj, stuck >>
    <2>1. /\ DirOK(dir') /\ dir'[n] = None /\ \A m \in Name \ {n} : dir'[m] = d[m]
      BY <1>1, RemovedFacts
    <2> QED
      BY <1>1, <2>1, Untouched DEF Merged
  <1>2. CASE /\ d[n] # None /\ dir' = d
             /\ obj' = Torn(a, d[n])
             /\ stuck' = [stuck EXCEPT ![a] = @ \cup {at[a]}]
    <2>1. d[n] \in Object
      BY <1>2 DEF DirOK
    <2>2. /\ stuck \in [Attempt -> SUBSET Step] /\ at[a] \in Step
          /\ obj \in [Object -> [kind : {"dir", "file"}, from : SUBSET Version,
                                 open : SUBSET Attempt]]
      BY DEF IInv, TypeOK
    <2>3. /\ stuck' \in [Attempt -> SUBSET Step] /\ stuck'[a] = stuck[a] \cup {at[a]}
          /\ \A b \in Attempt \ {a} : stuck'[b] = stuck[b]
      BY <1>2, <2>2
    <2>4. at[a] = "clean" => strategy = "macos"
      BY DEF IInv, Progress, Route
    <2>5. /\ \A b \in Attempt : Merged(b)' <=> Merged(b) \/ (b = a /\ at[a] = "clean")
          /\ \A b \in Attempt : Merged(b) => strategy = "macos"
      BY <2>3 DEF Merged, IInv, Merges
    <2>6. /\ obj' \in [Object -> [kind : {"dir", "file"}, from : SUBSET Version,
                                  open : SUBSET Attempt]]
          /\ \A o \in Object : obj'[o].kind = obj[o].kind /\ obj'[o].from = obj[o].from
          /\ \A o \in Object : o # d[n] => obj'[o] = obj[o]
      BY <1>2, <2>1, <2>2 DEF Torn
    <2>7. Touched
      BY <2>3, <2>4, <2>5, <2>6 DEF Touched
    <2> QED
      BY <1>2, <2>3, <2>5, <2>6, <2>7
  <1> QED
    BY <1>1, <1>2 DEF Discard

(* A return claims what the app is told: the new version, or the old one.   *)
LEMMA Returned ==
  ASSUME IInv, NEW a \in Attempt, Running(a), NEW outcome \in {"ok", "error"},
         Return(a, outcome), UNCHANGED << strategy, how, target, before, process >>,
         Sound(dir[Root])',
         outcome = "ok" => Holds(a, dir[Root])',
         outcome = "error" => dir'[Root] = before[a],
         NoStrays',
         outcome = "ok" /\ strategy \in {"macos", "linux_file"} /\ stuck'[a] = {} =>
           dir'[New] = None /\ (strategy = "macos" => dir'[Old] = None)
  PROVE  /\ Alone' /\ Startable' /\ SuccessInstalls' /\ FailureKeepsApp'
         /\ \A b \in Attempt : Progress(b)'
         /\ at' \in [Attempt -> Step] /\ last' \in Attempt \cup {0}
         /\ result' \in [Attempt -> {"none", "ok", "error"}]
         /\ at'[a] = "done" /\ \A b \in Attempt \ {a} : at'[b] = at[b]
  <1>1. /\ at' = [at EXCEPT ![a] = "done"] /\ at \in [Attempt -> Step]
        /\ result' = [result EXCEPT ![a] = outcome] /\ last' = a
        /\ result \in [Attempt -> {"none", "ok", "error"}]
        /\ strategy' = strategy /\ up' = up /\ target' = target /\ before' = before
    BY DEF IInv, TypeOK, Return, process
  <1>2. /\ at' \in [Attempt -> Step] /\ at'[a] = "done"
        /\ \A b \in Attempt \ {a} : at'[b] = at[b] /\ at[b] \in {"idle", "done", "dead"}
    BY <1>1, OthersRest DEF Step
  <1>3. result' \in [Attempt -> {"none", "ok", "error"}] /\ result'[a] = outcome
    BY <1>1
  <1>4. Alone' /\ \A b \in Attempt : ~Running(b)'
    BY <1>1, <1>2 DEF Alone, Running
  <1>5. \A b \in Attempt : Progress(b)'
    BY <1>2 DEF Progress, Route, OldIs, NewIs, Gap, InPlace, PutOff, Copied
  <1>6. SuccessInstalls'
    <2> SUFFICES ASSUME outcome = "ok", (\A b \in Attempt : at[b] # "dead" /\ stuck[b] = {})',
                        NEW n \in Name \ {Root}, Exists(n)'
                 PROVE  strategy' = "windows" /\ n = Old
      BY <1>1, <1>3 DEF SuccessInstalls, Holds, Filled, Exists
    <2>1. Expected(n)'
      BY DEF NoStrays
    <2> QED
      BY <1>1, <1>4, <2>1 DEF Expected, Exists
  <1>7. FailureKeepsApp'
    BY <1>1, <1>3 DEF FailureKeepsApp
  <1> QED
    BY <1>1, <1>2, <1>3, <1>4, <1>5, <1>6, <1>7 DEF Startable

------------------------------------------------------------------------------
(* The invariant holds at first, and when the process stops and starts.     *)

(* At first the old app is at the root and nothing beside it.               *)
LEMMA InitInv == Init => IInv
  <1> SUFFICES ASSUME Init PROVE IInv
    OBVIOUS
  <1>1. /\ strategy \in {"macos", "linux_dir", "linux_file", "windows"}
        /\ dir[Root] = 0 /\ Root \in Name /\ \A n \in Name \ {Root} : dir[n] = None
        /\ dir \in [Name -> Object \cup {None}]
    BY Numbers, StrategyAssumption DEF Init, Root, Name
  <1>2. \A a \in Attempt : at[a] = "idle" /\ Stage(a) # Root /\ Aside(a) # Root
                           /\ Stage(a) \in Name /\ Aside(a) \in Name
    BY Names DEF Init
  <1>3. TypeOK
    BY <1>1, Numbers DEF Init, TypeOK, Kind, Step, Version, Exists
  <1>4. Alone /\ Kinds /\ Unused /\ Merges
    BY <1>1, <1>2, Numbers
    DEF Init, Alone, Kinds, Unused, Unopened, Running, Merges, Merged, Version
  <1>5. \A a \in Attempt : Progress(a)
    BY <1>2 DEF Progress, Route, OldIs, NewIs, Gap, InPlace, PutOff, Copied
  <1>6. Whole(dir[Root])
    BY <1>1, Numbers, FS_Singleton DEF Init, Whole
  <1>7. last = 0 /\ 0 \notin Attempt /\ dir[Root] # None
    BY <1>1, Numbers DEF Init
  <1>8. Startable /\ NoStrays
    BY <1>1, <1>6, <1>7 DEF Startable, Sound, NoStrays, Exists
  <1>9. SuccessInstalls /\ FailureKeepsApp /\ ACopySurvives /\ ExecutableIsWhole
    BY <1>1, <1>6, <1>7 DEF SuccessInstalls, FailureKeepsApp, ACopySurvives, ExecutableIsWhole
  <1> QED
    BY <1>3, <1>4, <1>5, <1>8, <1>9 DEF IInv

(* An attempt begins only while none runs, with a whole app at the root.    *)
LEMMA BeginInv == OneByOne /\ IInv /\ (\E a \in Attempt : Begin(a)) => IInv'
  <1> SUFFICES ASSUME OneByOne, IInv, NEW a \in Attempt, Begin(a) PROVE IInv'
    OBVIOUS
  <1>1. \A b \in Attempt : ~Running(b)
    <2> DEFINE R == {b \in Attempt : Running(b)}
    <2>1. IsFiniteSet(R)
      BY Numbers, FS_Subset
    <2>2. Cardinality(R) < MaxOverlap /\ MaxOverlap \in Nat /\ MaxOverlap <= 1
      BY AttemptsAssumption DEF Begin, OneByOne
    <2>3. Cardinality(R) \in Nat
      BY <2>1, FS_CardinalityType
    <2>4. Cardinality(R) = 0
      BY <2>2, <2>3
    <2>5. R = {}
      BY <2>1, <2>4, FS_EmptySet
    <2> QED
      BY <2>5
  <1>2. Sound(dir[Root]) /\ dir[Root] \in Object /\ Root \in Name /\ up
    BY <1>1, Names DEF IInv, TypeOK, Startable, Quiet, Begin, Sound
  <1>3. how'[a] = strategy /\ how' = how
    <2>1. obj[dir[Root]].kind = Kind(strategy) /\ how \in [Attempt -> Strategy \cup {"linux_file"}]
          /\ how[a] = strategy /\ Exists(Root)
      BY <1>2 DEF IInv, TypeOK, Kinds, Exists, Sound
    <2>2. ~(strategy = "linux_dir" /\ (Exists(Root) => obj[dir[Root]].kind = "file"))
      BY <2>1 DEF Kind
    <2>3. how' = [how EXCEPT ![a] = strategy]
      BY <2>2 DEF Begin
    <2> QED
      BY <2>1, <2>3
  <1>4. PICK v \in Version \ {0} : target' = [target EXCEPT ![a] = v]
    BY DEF Begin
  <1> DEFINE st == FirstStep(strategy)
  <1>5. /\ at' = [at EXCEPT ![a] = st] /\ result' = result /\ last' = last
        /\ before' = [before EXCEPT ![a] = dir[Root]]
        /\ at[a] = "idle"
        /\ UNCHANGED << strategy, files, fd, stuck, process >>
        /\ st \in {"clean", "clear", "copy"}
        /\ st = "clean" <=> strategy = "macos"
        /\ st = "clear" <=> strategy = "windows"
    BY <1>3 DEF Begin, Go, FirstStep
  <1> HIDE DEF st
  <1>6. /\ at' \in [Attempt -> Step] /\ at'[a] = st /\ before'[a] = dir[Root]
        /\ \A b \in Attempt \ {a} : at'[b] = at[b] /\ at[b] \in {"idle", "done", "dead"}
    BY <1>1, <1>5 DEF IInv, TypeOK, Step, Running
  <1>7. TypeOK'
    BY <1>2, <1>3, <1>4, <1>5, <1>6 DEF IInv, TypeOK, files, process, Exists
  <1>8. Alone' /\ Kinds'
    BY <1>2, <1>3, <1>5, <1>6 DEF IInv, Alone, Kinds, Running, files, process
  <1>9. Unused' /\ Merges' /\ (Unmerged' <=> Unmerged)
    BY <1>5, <1>6
    DEF IInv, Unused, Unopened, Early, Running, Merges, Unmerged, Merged, files, process
  <1>10. \A b \in Attempt \ {a} : Progress(b)'
    BY <1>6 DEF Progress, Route, OldIs, NewIs, Gap, InPlace, PutOff, Copied
  <1>11. Progress(a)'
    BY <1>2, <1>5, <1>6, <1>9
    DEF Progress, Route, OldIs, NewIs, Gap, InPlace, PutOff, Copied, files, Sound, Whole
  <1>12. ~Quiet'
    BY <1>5, <1>6 DEF Quiet, Running
  <1>13. NoStrays'
    BY <1>1, <1>5, <1>6 DEF IInv, NoStrays, Expected, Exists, files
  <1>14. ACopySurvives' /\ ExecutableIsWhole'
    BY <1>5 DEF IInv, ACopySurvives, ExecutableIsWhole, Merged, Whole, files
  <1> QED
    BY <1>5, <1>7, <1>8, <1>9, <1>10, <1>11, <1>12, <1>13, <1>14
    DEF IInv, Startable, SuccessInstalls, FailureKeepsApp

(* A crash leaves the files to the next start.                              *)
LEMMA StopInv == IInv /\ Stop => IInv'
  <1> SUFFICES ASSUME IInv, Stop PROVE IInv'
    OBVIOUS
  <1>1. /\ up' = FALSE /\ last' = 0
        /\ UNCHANGED << strategy, files, how, target, fd, before, result, stuck, image >>
        /\ \A b \in Attempt : at'[b] = IF Running(b) THEN "dead" ELSE at[b]
        /\ at' \in [Attempt -> Step]
    BY DEF IInv, TypeOK, Stop, Step
  <1>2. TypeOK'
    BY <1>1 DEF IInv, TypeOK, files, Exists
  <1>3. \A b \in Attempt : ~Running(b)' /\ at'[b] \in {"idle", "done", "dead"}
                           /\ (at'[b] = "idle" => at[b] = "idle")
    BY <1>1 DEF IInv, TypeOK, Running
  <1>4. Alone' /\ Kinds'
    BY <1>1, <1>3 DEF IInv, Alone, Kinds, files
  <1>5. Unused' /\ Merges'
    BY <1>1, <1>3 DEF IInv, Unused, Unopened, Early, Merges, Unmerged, Merged, files
  <1>6. \A b \in Attempt : Progress(b)'
    BY <1>3 DEF Progress, Route, OldIs, NewIs, Gap, InPlace, PutOff, Copied
  <1>7. NoStrays'
    <2> SUFFICES ASSUME \A b \in Attempt : at'[b] # "dead" /\ stuck'[b] = {}
                 PROVE  NoStrays'
      BY DEF NoStrays
    <2>1. \A b \in Attempt : ~Running(b) /\ at'[b] = at[b]
      BY <1>1
    <2> QED
      BY <1>1, <2>1 DEF IInv, NoStrays, Expected, Exists, files
  <1>8. ~up' /\ last' = 0 /\ 0 \notin Attempt
    BY <1>1, Numbers
  <1>9. ACopySurvives' /\ ExecutableIsWhole'
    BY <1>1 DEF IInv, ACopySurvives, ExecutableIsWhole, Merged, Whole, files
  <1> QED
    BY <1>1, <1>2, <1>4, <1>5, <1>6, <1>7, <1>8, <1>9
    DEF IInv, Startable, SuccessInstalls, FailureKeepsApp

(* What is started is complete; on Windows the executable put aside goes.      *)
LEMMA StartInv == IInv /\ Start => IInv'
  <1> SUFFICES ASSUME IInv, Start PROVE IInv'
    OBVIOUS
  <1>1. /\ ~up /\ up' /\ up' \in BOOLEAN /\ Exists(Root) /\ obj[dir[Root]].open = {}
        /\ image' = dir[Root]
        /\ dir[Root] \in Object /\ Root \in Name /\ Old \in Name /\ Root # Old
        /\ UNCHANGED << strategy, obj, attempt >>
        /\ dir' = dir \/ (strategy = "windows" /\ dir' = Removed(dir, Old))
    BY DEF IInv, TypeOK, Start, Root, Old, Name, Exists
  <1>2. /\ DirOK(dir) /\ DirOK(dir') /\ dir'[Root] = dir[Root]
        /\ \A n \in Name : dir'[n] = dir[n] \/ (strategy = "windows" /\ dir'[n] = None)
    <2>1. DirOK(dir)
      BY DEF IInv, TypeOK, DirOK, Exists
    <2>2. /\ DirOK(Removed(dir, Old)) /\ Removed(dir, Old)[Old] = None
          /\ \A m \in Name \ {Old} : Removed(dir, Old)[m] = dir[m]
      BY <1>1, <2>1, RemovedFacts
    <2> QED
      BY <1>1, <2>1, <2>2
  <1>3. TypeOK'
    BY <1>1, <1>2 DEF IInv, TypeOK, DirOK, Exists, attempt
  <1>4. \A b \in Attempt : ~Running(b) /\ at'[b] = at[b] /\ at[b] \in {"idle", "done", "dead"}
    BY <1>1 DEF IInv, Alone, attempt, Running
  <1>5. Alone' /\ Kinds'
    BY <1>1, <1>4 DEF IInv, Alone, Kinds, attempt, Running
  <1>6. Unused'
    <2> SUFFICES ASSUME NEW b \in Attempt
                 PROVE  /\ Unopened(b)' => dir'[Stage(b)] = None /\ \A n \in Name : dir'[n] # b
                        /\ Unopened(b)' \/ Running(b)' => image' # b
                        /\ at'[b] \in Early => dir'[Aside(b)] = None
      BY DEF Unused
    <2>1. Stage(b) \in Name /\ Aside(b) \in Name /\ b # None
      BY Names, Numbers
    <2>2. Unopened(b)' => Unopened(b)
      BY <1>1, <1>4 DEF Unopened
    <2> QED
      BY <1>1, <1>2, <1>4, <2>1, <2>2 DEF IInv, Unused, Running
  <1>7. \A b \in Attempt : Progress(b)'
    BY <1>4 DEF Progress, Route, OldIs, NewIs, Gap, InPlace, PutOff, Copied
  <1>8. NoStrays'
    BY <1>1, <1>2, <1>4 DEF IInv, NoStrays, Expected, Exists, attempt
  <1>9. Sound(dir[Root])' /\ Merges'
    <2>1. (Unmerged' <=> Unmerged) /\ Merges'
      BY <1>1 DEF IInv, Merges, Unmerged, Merged, attempt
    <2>2. Unmerged => Whole(dir[Root])
      BY <1>1, FS_Singleton DEF IInv, Merges, Whole, Exists
    <2> QED
      BY <1>1, <1>2, <2>1, <2>2 DEF Sound, Whole, Exists
  <1>10. SuccessInstalls' /\ FailureKeepsApp'
    <2>1. /\ last' = last /\ result' = result /\ at' = at /\ target' = target /\ before' = before
          /\ stuck' = stuck /\ Quiet
      BY <1>1, <1>4 DEF attempt, Quiet
    <2>2. SuccessInstalls'
      <3> SUFFICES ASSUME last # 0, result[last] = "ok"
                   PROVE  /\ Exists(Root)' /\ obj'[dir'[Root]].open = {}
                          /\ target[last] \in obj'[dir'[Root]].from
                          /\ ~Merged(last) => obj'[dir'[Root]].from = {target[last]}
                          /\ (\A b \in Attempt : at[b] # "dead" /\ stuck[b] = {}) =>
                               \A n \in Name \ {Root} :
                                 Exists(n)' => strategy' = "windows" /\ n = Old
        BY <2>1 DEF SuccessInstalls, Merged
      <3> QED
        BY <1>1, <1>2, <2>1 DEF IInv, SuccessInstalls, Exists
    <2>3. FailureKeepsApp'
      BY <1>2, <2>1 DEF IInv, FailureKeepsApp
    <2> QED
      BY <2>2, <2>3
  <1>11. ACopySurvives' /\ ExecutableIsWhole'
    <2>1. Unmerged' => Whole(dir[Root])'
      BY <1>9 DEF Sound
    <2>2. strategy = "linux_file" => Unmerged'
      BY <1>1, <1>9 DEF Merges, Unmerged
    <2> QED
      BY <1>1, <2>1, <2>2 DEF ACopySurvives, ExecutableIsWhole, Unmerged
  <1> QED
    BY <1>1, <1>3, <1>5, <1>6, <1>7, <1>8, <1>9, <1>10, <1>11
    DEF IInv, Startable

------------------------------------------------------------------------------
(* The steps of an attempt.                                                 *)

(* Something sound on the disk is a whole copy, unless something is merged. *)
LEMMA Survival ==
  ASSUME strategy' = strategy, Merges',
         \E n \in Name : Sound(dir[n])', strategy = "linux_file" => Sound(dir[Root])'
  PROVE  ACopySurvives' /\ ExecutableIsWhole'
  <1>1. ACopySurvives'
    BY DEF ACopySurvives, Sound, Unmerged
  <1>2. strategy = "linux_file" => Unmerged'
    BY DEF Merges, Unmerged
  <1> QED
    BY <1>1, <1>2 DEF ExecutableIsWhole, Sound

(* What every step of an attempt starts from.                               *)
LEMMA AttemptFacts ==
  ASSUME IInv, NEW a \in Attempt
  PROVE  /\ strategy \in {"macos", "linux_dir", "linux_file", "windows"}
         /\ DirOK(dir) /\ how[a] = strategy /\ a \in Object /\ a # None
         /\ \A n \in Name : dir[n] \in Object \cup {None}
         /\ obj \in [Object -> [kind : {"dir", "file"}, from : SUBSET Version,
                                open : SUBSET Attempt]]
         /\ target[a] \in Version /\ fd[a] \in Object /\ image \in Object
         /\ Root \in Name /\ Progress(a)
  BY Numbers, Names, StrategyAssumption DEF IInv, TypeOK, Kinds, DirOK, Exists

(* A step that gives no name a new object and touches no other attempt's.   *)
LEMMA UnusedKept ==
  ASSUME IInv, NEW a \in Attempt, Running(a),
         strategy' = strategy, image' = image,
         \A b \in Attempt \ {a} : at'[b] = at[b],
         \A n \in Name : dir'[n] \in {None, a} \/ \E m \in Name : dir'[n] = dir[m],
         \A b \in Attempt \ {a} :
           /\ dir'[Stage(b)] \in {None, dir[Stage(b)]}
           /\ dir'[Aside(b)] \in {None, dir[Aside(b)]},
         Unopened(a)' => dir'[Stage(a)] = None /\ \A n \in Name : dir'[n] # a,
         at'[a] # "idle",
         at'[a] \in Early => dir'[Aside(a)] = None
  PROVE  Unused'
  <1> SUFFICES ASSUME NEW b \in Attempt
               PROVE  /\ Unopened(b)' => dir'[Stage(b)] = None /\ \A n \in Name : dir'[n] # b
                      /\ Unopened(b)' \/ Running(b)' => image' # b
                      /\ at'[b] \in Early => dir'[Aside(b)] = None
    BY DEF Unused
  <1>1. CASE b = a
    BY <1>1 DEF IInv, Unused, Running, Unopened
  <1>2. CASE b # a
    <2>1. at'[b] = at[b] /\ b # None /\ a # b
      BY <1>2, Numbers
    <2>2. (Unopened(b)' <=> Unopened(b)) /\ (Running(b)' <=> Running(b))
      BY <2>1 DEF Unopened, Running
    <2>3. \A n \in Name : Unopened(b) => dir'[n] # b
      BY <2>1 DEF IInv, Unused
    <2> QED
      BY <1>2, <2>1, <2>2, <2>3 DEF IInv, Unused
  <1> QED
    BY <1>1, <1>2

(* The copy is begun in an object that is not the old app, and not there    *)
(* before, but for what a single executable's attempt left and what macOS   *)
(* could not remove.                                                        *)
LEMMA OpenCopyInv ==
  ASSUME IInv, NEW a \in Attempt, OpenCopy(a)
  PROVE  IInv'
  <1> DEFINE o == Opened(a)
             s == StageOf(a)
             kept == Stays(a, o)
             new == [kind |-> Kind(strategy), from |-> {target[a]} \cup kept, open |-> {a}]
  <1>1. at[a] = "copy" /\ Running(a) /\ Unopened(a) /\ Go(a, "copying")
    BY DEF OpenCopy, Running, Unopened
  <1>2. UNCHANGED << strategy, how, target, before, stuck, process >>
    BY DEF OpenCopy
  <1>3. /\ strategy \in {"macos", "linux_dir", "linux_file", "windows"}
        /\ DirOK(dir) /\ how[a] = strategy /\ a \in Object /\ a # None
        /\ \A n \in Name : dir[n] \in Object \cup {None}
        /\ target[a] \in Version /\ fd[a] \in Object /\ Root \in Name /\ Progress(a)
    BY AttemptFacts
  <1>4. \A n \in Name : dir[n] # a
    BY <1>1 DEF IInv, Unused
  <1>5. /\ s \in Name /\ AsideOf(a) \in Name
        /\ AsideOf(a) # Root /\ AsideOf(a) # s
        /\ strategy = "windows" => s = Root /\ AsideOf(a) = Old
        /\ strategy # "windows" => s # Root
        /\ strategy = "linux_dir" => s = Stage(a) /\ AsideOf(a) = Aside(a)
        /\ strategy \in {"macos", "linux_file"} => s = New /\ AsideOf(a) = Old
    BY <1>3, Places
  <1>6. /\ \/ o = a
           \/ strategy = "linux_file" /\ o = dir[s]
           \/ strategy = "macos" /\ Merged(a) /\ o = dir[s]
        /\ o \in Object
    <2>1. strategy = "windows" => dir[s] = None
      BY <1>1, <1>3, <1>5 DEF Progress, Gap
    <2>2. strategy = "linux_dir" => dir[s] = None
      BY <1>1, <1>5 DEF IInv, Unused
    <2>3. strategy = "macos" /\ ~Merged(a) => dir[s] = None
      BY <1>1, <1>3, <1>5 DEF Progress, Gap
    <2> QED
      BY <1>3, <1>5, <2>1, <2>2, <2>3 DEF Opened, Exists
  <1>7. dir' = [dir EXCEPT ![s] = o] /\ fd' = [fd EXCEPT ![a] = o]
    BY DEF OpenCopy
  <1>8. obj' = [obj EXCEPT ![o] = new]
    <2> DEFINE writers == {b \in obj[o].open : o # a /\ Running(b)}
    <2>1. writers \subseteq {a}
      <3>1. obj[o].open \subseteq Attempt
        BY <1>6 DEF IInv, TypeOK
      <3> QED
        BY <1>1, <3>1, OthersRest
    <2>2. {a} \cup writers = {a}
      BY <2>1
    <2>3. {target[b] : b \in {a}} = {target[a]}
      OBVIOUS
    <2>4. obj' = [obj EXCEPT ![o] = [kind |-> Kind(how[a]),
                                      from |-> {target[b] : b \in {a} \cup writers} \cup kept,
                                      open |-> {a} \cup writers]]
      BY DEF OpenCopy
    <2> HIDE DEF writers, o, kept
    <2> QED
      BY <1>3, <2>2, <2>3, <2>4
  <1>9. kept \subseteq Version /\ (~Merged(a) => kept = {})
    BY <1>3, <1>6 DEF Stays, Kind, IInv, TypeOK
  <1>10. /\ Alone' /\ Startable' /\ SuccessInstalls' /\ FailureKeepsApp'
         /\ \A b \in Attempt \ {a} : Progress(b)'
         /\ at' \in [Attempt -> Step] /\ result' = result /\ last' = last
         /\ at'[a] = "copying" /\ \A b \in Attempt \ {a} : at'[b] = at[b]
    BY <1>1, <1>2, Midway DEF Step
  <1> HIDE DEF o, s, kept
  <1>11. /\ dir'[s] = o /\ \A n \in Name \ {s} : dir'[n] = dir[n]
         /\ DirOK(dir') /\ fd'[a] = o /\ fd' \in [Attempt -> Object]
    BY <1>3, <1>4, <1>5, <1>6, <1>7 DEF DirOK, IInv, TypeOK
  <1>12. /\ obj'[o] = new /\ \A p \in Object \ {o} : obj'[p] = obj[p]
         /\ obj' \in [Object -> [kind : {"dir", "file"}, from : SUBSET Version,
                                 open : SUBSET Attempt]]
    BY <1>3, <1>6, <1>8, <1>9 DEF IInv, TypeOK, Kind
  <1>13. Merges' /\ (Unmerged' <=> Unmerged) /\ (Merged(a)' <=> Merged(a))
    <2>1. \A b \in Attempt : Merged(b)' <=> Merged(b)
      BY <1>2 DEF Merged
    <2>2. Unmerged => obj'[o].from = {target[a]}
      BY <1>12, <1>9 DEF Unmerged
    <2> QED
      BY <1>2, <1>3, <1>12, <2>1, <2>2 DEF IInv, Merges, Unmerged
  <1>14. TypeOK'
    BY <1>2, <1>10, <1>11, <1>12 DEF IInv, TypeOK, DirOK, Exists, process
  <1>15. Kinds'
    BY <1>2, <1>12 DEF IInv, Kinds
  <1>16. /\ InPlace(a) => dir'[Root] = before[a]
         /\ PutOff(a) => dir'[AsideOf(a)] = before[a]
         /\ Sound(before[a])' /\ (InPlace(a) \/ PutOff(a))
         /\ strategy # "windows" => InPlace(a)
         /\ strategy = "windows" => ~InPlace(a) /\ PutOff(a)
    <2>1. /\ strategy # "windows" => InPlace(a)
          /\ strategy = "windows" => ~InPlace(a) /\ PutOff(a)
      BY <1>1, <1>3 DEF InPlace, PutOff
    <2>2. /\ InPlace(a) => dir[Root] = before[a]
          /\ PutOff(a) => dir[AsideOf(a)] = before[a]
          /\ Sound(before[a])
      BY <1>3, <2>1 DEF Progress, OldIs
    <2>3. before[a] # o /\ before[a] \in Object
      BY <1>3, <1>4, <1>5, <1>6, <2>1, <2>2 DEF DirOK, Sound
    <2>4. Sound(before[a])'
      BY <1>2, <1>12, <1>13, <2>2, <2>3 DEF Sound, Whole
    <2>5. /\ InPlace(a) => s # Root
          /\ AsideOf(a) # s
      BY <1>5, <2>1
    <2> QED
      BY <1>3, <1>5, <1>11, <2>1, <2>2, <2>4, <2>5
  <1>17. Progress(a)'
    <2>1. AsideOf(a)' = AsideOf(a) /\ StageOf(a)' = s
      BY <1>2 DEF AsideOf, StageOf, s
    <2>2. (InPlace(a)' <=> InPlace(a)) /\ (PutOff(a)' <=> PutOff(a)) /\ ~Copied(a)'
      BY <1>1, <1>2, <1>10 DEF InPlace, PutOff, Copied
    <2>3. OldIs(a)'
      BY <1>2, <1>16, <2>1, <2>2 DEF OldIs
    <2>6. Filled(a, fd[a])'
      BY <1>2, <1>6, <1>11, <1>12, <1>9, <1>13, Numbers DEF Filled
    <2>4. NewIs(a)'
      BY <1>2, <1>10, <1>11, <1>12, <2>1, <2>2, <2>6 DEF NewIs
    <2>5. Route(a)' /\ Gap(a)'
      BY <1>2, <1>5, <1>6, <1>10, <1>11 DEF Route, Gap
    <2> QED
      BY <2>3, <2>4, <2>5 DEF Progress
  <1>18. Unused'
    <2>1. \A b \in Attempt \ {a} : /\ dir'[Stage(b)] = dir[Stage(b)]
                                   /\ dir'[Aside(b)] = dir[Aside(b)]
      BY <1>3, <1>5, <1>11, Names
    <2>2. dir'[Aside(a)] = None
      BY <1>1, <1>3, <1>5, <1>11, Names DEF IInv, Unused, Early
    <2>3. \A n \in Name : dir'[n] \in {None, a} \/ \E m \in Name : dir'[n] = dir[m]
      BY <1>5, <1>6, <1>11
    <2>4. ~Unopened(a)' /\ at'[a] # "idle"
      BY <1>10 DEF Unopened
    <2> QED
      BY <1>1, <1>2, <1>10, <2>1, <2>2, <2>3, <2>4, UnusedKept DEF process
  <1>19. NoStrays'
    <2> SUFFICES ASSUME \A b \in Attempt : at'[b] # "dead" /\ stuck'[b] = {},
                        NEW n \in Name \ {Root}, Exists(n)'
                 PROVE  Expected(n)'
      BY DEF NoStrays
    <2>1. \A b \in Attempt : at[b] # "dead" /\ stuck[b] = {} /\ (Running(b)' <=> Running(b))
      BY <1>1, <1>2, <1>10 DEF Running
    <2>2. CASE n = s
      BY <1>1, <1>2, <1>3, <1>5, <2>1, <2>2 DEF Expected
    <2>3. CASE n # s
      <3>1. Exists(n)
        BY <1>11, <2>3 DEF Exists
      <3> QED
        BY <1>2, <2>1, <3>1 DEF IInv, NoStrays, Expected
    <2> QED
      BY <2>2, <2>3
  <1>20. ACopySurvives' /\ ExecutableIsWhole'
    <2>1. \E n \in Name : Sound(dir[n])'
      BY <1>2, <1>3, <1>5, <1>16
    <2>2. strategy = "linux_file" => Sound(dir[Root])'
      BY <1>2, <1>16
    <2> QED
      BY <1>2, <1>13, <2>1, <2>2, Survival
  <1> QED
    BY <1>10, <1>14, <1>15, <1>17, <1>18, <1>19, <1>20, <1>13 DEF IInv

(* A finished copy is whole, and nothing else changed.                      *)
LEMMA FinishCopyInv ==
  ASSUME IInv, NEW a \in Attempt, FinishCopy(a)
  PROVE  IInv'
  <1> PICK o : o = fd[a]
    OBVIOUS
  <1> DEFINE step == IF strategy = "linux_file" THEN "move_in"
                     ELSE IF strategy = "macos" THEN "clear" ELSE "move_aside"
  <1>1. at[a] = "copying" /\ Running(a)
    BY DEF FinishCopy, Running
  <1>2. UNCHANGED << strategy, dir, how, target, fd, before, stuck, process >>
    BY DEF FinishCopy
  <1>3. /\ strategy \in {"macos", "linux_dir", "linux_file", "windows"}
        /\ DirOK(dir) /\ how[a] = strategy /\ a \in Object /\ a # None
        /\ \A n \in Name : dir[n] \in Object \cup {None}
        /\ target[a] \in Version /\ o \in Object /\ Root \in Name /\ Progress(a)
    BY AttemptFacts
  <1>4. /\ StageOf(a) \in Name /\ AsideOf(a) \in Name /\ AsideOf(a) # StageOf(a)
        /\ strategy = "windows" => StageOf(a) = Root
        /\ strategy # "windows" => StageOf(a) # Root
    BY <1>3, Places
  <1>5. dir[StageOf(a)] = o /\ Filled(a, o) /\ obj[o].open = {a} /\ o # None
    BY <1>1, <1>3, Numbers DEF Progress, NewIs
  <1>6. /\ obj'[o].from = obj[o].from /\ obj'[o].open = {}
        /\ \A p \in Object \ {o} : obj'[p] = obj[p]
        /\ obj'[o].kind = obj[o].kind
        /\ obj' \in [Object -> [kind : {"dir", "file"}, from : SUBSET Version,
                                open : SUBSET Attempt]]
    <2>1. obj \in [Object -> [kind : {"dir", "file"}, from : SUBSET Version,
                              open : SUBSET Attempt]]
      BY DEF IInv, TypeOK
    <2>2. obj' = [obj EXCEPT ![o] = [obj[o] EXCEPT !.open = obj[o].open \ {a}]]
      BY DEF FinishCopy
    <2>3. PICK r : r = obj[o]
      OBVIOUS
    <2>4. PICK q : q = [r EXCEPT !.open = r.open \ {a}]
      OBVIOUS
    <2>5. r \in [kind : {"dir", "file"}, from : SUBSET Version, open : SUBSET Attempt]
      BY <1>3, <2>1, <2>3
    <2>6. /\ q.from = r.from /\ q.kind = r.kind /\ q.open = r.open \ {a}
          /\ q \in [kind : {"dir", "file"}, from : SUBSET Version, open : SUBSET Attempt]
      <3>1. q = [kind |-> r.kind, from |-> r.from, open |-> r.open \ {a}]
        BY <2>4, <2>5
      <3> QED
        BY <2>5, <3>1
    <2>7. obj' = [obj EXCEPT ![o] = q]
      BY <2>2, <2>3, <2>4, Zenon
    <2> QED
      BY <1>3, <1>5, <2>1, <2>3, <2>6, <2>7
  <1>7. Holds(a, o)' /\ Sound(o)'
    <2>1. Cardinality({target[a]}) = 1
      BY FS_Singleton
    <2>2. Holds(a, o)'
      BY <1>2, <1>5, <1>6 DEF Holds, Filled, Merged
    <2> QED
      BY <1>2, <2>1, <2>2 DEF Holds, Filled, Sound, Whole, Unmerged
  <1>8. Merges' /\ (Unmerged' <=> Unmerged)
    <2>1. \A b \in Attempt : Merged(b)' <=> Merged(b)
      BY <1>2 DEF Merged
    <2>2. \A p \in Object : obj'[p].from = obj[p].from
      BY <1>6
    <2> QED
      BY <1>2, <2>1, <2>2 DEF IInv, Merges, Unmerged
  <1>9. Kinds'
    BY <1>2, <1>3, <1>6 DEF IInv, Kinds
  <1>10. CASE strategy = "windows"
    <2>1. Return(a, "ok")
      BY <1>3, <1>10 DEF FinishCopy
    <2>2. at' = [at EXCEPT ![a] = "done"] /\ at \in [Attempt -> Step]
      BY <2>1 DEF Return, IInv, TypeOK
    <2>3. NoStrays'
      <3>1. \A b \in Attempt : at'[b] # "dead" => at[b] # "dead"
        BY <1>1, <2>2
      <3> QED
        BY <1>2, <1>10, <3>1 DEF IInv, NoStrays, Expected, Exists
    <2>4. /\ Alone' /\ Startable' /\ SuccessInstalls' /\ FailureKeepsApp'
          /\ \A b \in Attempt : Progress(b)'
          /\ at' \in [Attempt -> Step] /\ last' \in Attempt \cup {0}
          /\ result' \in [Attempt -> {"none", "ok", "error"}]
          /\ at'[a] = "done" /\ \A b \in Attempt \ {a} : at'[b] = at[b]
      <3>1. Sound(dir[Root])' /\ Holds(a, dir[Root])'
        BY <1>2, <1>4, <1>5, <1>7, <1>10
      <3> QED
        BY <1>1, <1>2, <1>10, <2>1, <2>3, <3>1, Returned
    <2>5. TypeOK'
      BY <1>2, <1>6, <2>4 DEF IInv, TypeOK, process, Exists
    <2>6. Unused'
      BY <1>1, <1>2, <2>4 DEF IInv, Unused, Unopened, Early, Running, process
    <2>7. ACopySurvives' /\ ExecutableIsWhole'
      <3>1. Sound(dir[Root])'
        BY <1>2, <1>4, <1>5, <1>7, <1>10
      <3> QED
        BY <1>2, <1>3, <1>8, <3>1, Survival
    <2> QED
      BY <1>9, <1>8, <2>3, <2>4, <2>5, <2>6, <2>7 DEF IInv
  <1>11. CASE strategy # "windows"
    <2>1. Go(a, step) /\ step \in Step \ {"idle", "done", "dead"}
      BY <1>3, <1>11 DEF FinishCopy, Step
    <2>2. /\ Alone' /\ Startable' /\ SuccessInstalls' /\ FailureKeepsApp'
          /\ \A b \in Attempt \ {a} : Progress(b)'
          /\ at' \in [Attempt -> Step] /\ result' = result /\ last' = last
          /\ at'[a] = step /\ \A b \in Attempt \ {a} : at'[b] = at[b]
      BY <1>1, <1>2, <2>1, Midway
    <2>3. TypeOK'
      BY <1>2, <1>6, <2>2 DEF IInv, TypeOK, process, Exists
    <2>4. Unused'
      BY <1>1, <1>2, <1>11, <2>2 DEF IInv, Unused, Unopened, Early, Running, process
    <2>5. dir[Root] = before[a] /\ Sound(before[a])
      BY <1>1, <1>3, <1>11 DEF Progress, OldIs, InPlace
    <2>6. before[a] # o /\ before[a] \in Object
      BY <1>3, <1>4, <1>5, <1>11, <2>5 DEF DirOK, Sound
    <2>7. Sound(before[a])'
      BY <1>2, <1>6, <1>8, <2>5, <2>6 DEF Sound, Whole
    <2>8. Progress(a)'
      <3>1. AsideOf(a)' = AsideOf(a) /\ StageOf(a)' = StageOf(a)
        BY <1>2 DEF AsideOf, StageOf
      <3>2. InPlace(a)' /\ ~PutOff(a)'
        BY <1>2, <1>11, <2>2 DEF InPlace, PutOff
      <3>3. OldIs(a)'
        BY <1>2, <2>5, <2>7, <3>2 DEF OldIs
      <3>4. NewIs(a)'
        BY <1>2, <1>5, <1>7, <2>2, <3>1 DEF NewIs
      <3>5. Route(a)' /\ Gap(a)'
        BY <1>2, <1>11, <2>2 DEF Route, Gap
      <3> QED
        BY <3>3, <3>4, <3>5 DEF Progress
    <2>9. NoStrays'
      <3>1. \A b \in Attempt : (at'[b] # "dead" => at[b] # "dead") /\ (Running(b) => Running(b)')
        BY <1>1, <2>2 DEF Running
      <3> QED
        BY <1>2, <3>1 DEF IInv, NoStrays, Expected, Exists
    <2>10. ACopySurvives' /\ ExecutableIsWhole'
      BY <1>2, <1>3, <1>8, <2>5, <2>7, Survival
    <2> QED
      BY <1>9, <1>8, <2>2, <2>3, <2>4, <2>8, <2>9, <2>10 DEF IInv
  <1> QED
    BY <1>10, <1>11

(* A removal elsewhere keeps what is sound at the root.                     *)
LEMMA DiscardSound ==
  ASSUME Touched, DirOK(dir), NEW n \in Name \ {Root}, Root \in Name,
         dir'[Root] = dir[Root], Sound(dir[Root]),
         \A o \in Object : o # dir[n] => obj'[o] = obj[o]
  PROVE  Sound(dir[Root])'
  <1>1. dir[Root] \in Object /\ dir[Root] # dir[n]
    BY DEF DirOK, Sound
  <1>2. Unmerged' => Unmerged
    BY DEF Touched, Unmerged
  <1> QED
    BY <1>1, <1>2 DEF Sound, Whole

(* A step that only moves and removes files keeps what is not about the     *)
(* attempt's own progress.                                                  *)
LEMMA FilesMoved ==
  ASSUME IInv, NEW a \in Attempt, Running(a), NEW st \in Step \ {"idle", "dead"},
         at' = [at EXCEPT ![a] = st],
         result' \in [Attempt -> {"none", "ok", "error"}], last' \in Attempt \cup {0},
         UNCHANGED << strategy, how, target, fd, before, process >>, Touched,
         DirOK(dir'),
         \A n \in Name \ {Root, AsideOf(a)} : dir'[n] \in {None, dir[n]},
         \A n \in {Root, AsideOf(a)} : dir'[n] = None \/ \E m \in Name : dir'[n] = dir[m],
         Unopened(a)' => Unopened(a),
         st \in Early => dir'[Aside(a)] = None,
         strategy = "linux_dir" /\ st = "done" /\ stuck'[a] = {} =>
           dir'[Stage(a)] = None /\ dir'[Aside(a)] = None,
         strategy = "linux_file" => dir'[AsideOf(a)] = dir[AsideOf(a)]
  PROVE  TypeOK' /\ Kinds' /\ Unused' /\ NoStrays' /\ Merges' /\ (Unmerged' => Unmerged)
  <1>1. /\ strategy \in {"macos", "linux_dir", "linux_file", "windows"}
        /\ how[a] = strategy /\ a \in Object /\ a # None /\ Root \in Name
    BY AttemptFacts
  <1>2. /\ AsideOf(a) \in Name /\ AsideOf(a) # Root
        /\ strategy = "windows" => AsideOf(a) = Old
        /\ strategy = "linux_dir" => AsideOf(a) = Aside(a)
        /\ strategy \in {"macos", "linux_file"} => AsideOf(a) = Old
    BY <1>1, Places
  <1>3. /\ at' \in [Attempt -> Step] /\ at'[a] = st
        /\ \A b \in Attempt \ {a} : at'[b] = at[b]
    BY DEF IInv, TypeOK
  <1>4. TypeOK' /\ Kinds'
    BY <1>3 DEF IInv, TypeOK, Kinds, DirOK, Exists, Touched, process
  <1>5. Merges' /\ (Unmerged' => Unmerged)
    BY DEF IInv, Merges, Unmerged, Touched
  <1>6. Unused'
    <2>1. \A b \in Attempt \ {a} : /\ dir'[Stage(b)] \in {None, dir[Stage(b)]}
                                   /\ dir'[Aside(b)] \in {None, dir[Aside(b)]}
      BY <1>1, <1>2, Names
    <2>2. \A n \in Name : dir'[n] \in {None, a} \/ \E m \in Name : dir'[n] = dir[m]
      BY <1>2
    <2>3. Unopened(a)' => dir'[Stage(a)] = None /\ \A n \in Name : dir'[n] # a
      <3> SUFFICES ASSUME Unopened(a)'
                   PROVE  dir'[Stage(a)] = None /\ \A n \in Name : dir'[n] # a
        OBVIOUS
      <3>1. dir[Stage(a)] = None /\ \A n \in Name : dir[n] # a
        BY DEF IInv, Unused
      <3>2. Stage(a) \in Name \ {Root, AsideOf(a)}
        BY <1>1, <1>2, Names
      <3> QED
        BY <1>1, <1>2, <3>1, <3>2
    <2> QED
      BY <1>3, <2>1, <2>2, <2>3, UnusedKept DEF process
  <1>7. NoStrays'
    <2> SUFFICES ASSUME \A b \in Attempt : at'[b] # "dead" /\ stuck'[b] = {},
                        NEW n \in Name \ {Root}, Exists(n)'
                 PROVE  Expected(n)'
      BY DEF NoStrays
    <2>1. /\ \A b \in Attempt : at[b] # "dead" /\ stuck[b] = {}
          /\ \A b \in Attempt \ {a} : Running(b)' <=> Running(b)
          /\ Running(a)' <=> st # "done"
      BY <1>3 DEF Running, Touched
    <2>2. n = AsideOf(a) \/ Exists(n)
      BY DEF Exists
    <2>3. CASE Exists(n)
      BY <1>3, <2>1, <2>3 DEF IInv, NoStrays, Expected, Exists
    <2>4. CASE ~Exists(n)
      BY <1>1, <1>2, <2>1, <2>2, <2>4 DEF Expected, Exists
    <2> QED
      BY <2>3, <2>4
  <1> QED
    BY <1>4, <1>6, <1>7, <1>5

(* What a step inside an attempt has to show of the attempt itself.         *)
LEMMA MovesOn ==
  ASSUME IInv, NEW a \in Attempt, Running(a),
         NEW st \in {"copy", "move_aside", "move_in", "undo", "tidy"},
         Go(a, st), Unopened(a)' => Unopened(a), st \in Early => dir'[Aside(a)] = None,
         UNCHANGED << strategy, how, target, fd, before, process >>, Touched,
         DirOK(dir'),
         \A n \in Name \ {Root, AsideOf(a)} : dir'[n] \in {None, dir[n]},
         \A n \in {Root, AsideOf(a)} : dir'[n] = None \/ \E m \in Name : dir'[n] = dir[m],
         strategy = "linux_file" => dir'[AsideOf(a)] = dir[AsideOf(a)],
         Progress(a)',
         \E n \in Name : Sound(dir[n])', strategy = "linux_file" => Sound(dir[Root])'
  PROVE  IInv'
  <1>1. st \in Step \ {"idle", "done", "dead"}
    BY DEF Step
  <1>2. /\ Alone' /\ Startable' /\ SuccessInstalls' /\ FailureKeepsApp'
        /\ \A b \in Attempt \ {a} : Progress(b)'
    BY <1>1, Midway
  <1>3. /\ at' = [at EXCEPT ![a] = st]
        /\ result' \in [Attempt -> {"none", "ok", "error"}] /\ last' \in Attempt \cup {0}
    BY DEF Go, IInv, TypeOK
  <1>4. TypeOK' /\ Kinds' /\ Unused' /\ NoStrays' /\ Merges'
    BY <1>1, <1>3, FilesMoved
  <1>5. ACopySurvives' /\ ExecutableIsWhole'
    BY <1>4, Survival
  <1> QED
    BY <1>2, <1>4, <1>5 DEF IInv

(* What a step that ends an attempt has to show.                            *)
LEMMA MovesOut ==
  ASSUME IInv, NEW a \in Attempt, Running(a), NEW outcome \in {"ok", "error"},
         Return(a, outcome),
         UNCHANGED << strategy, how, target, fd, before, process >>, Touched,
         DirOK(dir'),
         \A n \in Name \ {Root, AsideOf(a)} : dir'[n] \in {None, dir[n]},
         \A n \in {Root, AsideOf(a)} : dir'[n] = None \/ \E m \in Name : dir'[n] = dir[m],
         strategy = "linux_file" => dir'[AsideOf(a)] = dir[AsideOf(a)],
         strategy = "linux_dir" /\ stuck'[a] = {} =>
           dir'[Stage(a)] = None /\ dir'[Aside(a)] = None,
         Sound(dir[Root])',
         outcome = "ok" => Holds(a, dir[Root])',
         outcome = "error" => dir'[Root] = before[a],
         outcome = "ok" /\ strategy \in {"macos", "linux_file"} /\ stuck'[a] = {} =>
           dir'[New] = None /\ (strategy = "macos" => dir'[Old] = None)
  PROVE  IInv'
  <1>1. /\ at' = [at EXCEPT ![a] = "done"] /\ "done" \in Step \ {"idle", "dead"}
        /\ result' \in [Attempt -> {"none", "ok", "error"}] /\ last' \in Attempt \cup {0}
    BY DEF Return, IInv, TypeOK, Step
  <1>2. TypeOK' /\ Kinds' /\ Unused' /\ NoStrays' /\ Merges'
    <2>1. at'[a] = "done" /\ ~Unopened(a)' /\ "done" \notin Early
      BY <1>1 DEF IInv, TypeOK, Unopened, Early
    <2> QED
      BY <1>1, <2>1, FilesMoved
  <1>3. /\ Alone' /\ Startable' /\ SuccessInstalls' /\ FailureKeepsApp'
        /\ \A b \in Attempt : Progress(b)'
    BY <1>2, Returned
  <1>4. Root \in Name
    BY Names
  <1>5. ACopySurvives' /\ ExecutableIsWhole'
    BY <1>2, <1>4, Survival
  <1> QED
    BY <1>2, <1>3, <1>5 DEF IInv

(* The stage is free for the copy, or what is there cannot be removed.      *)
LEMMA CleanInv ==
  ASSUME IInv, NEW a \in Attempt, Clean(a)
  PROVE  IInv'
  <1>1. at[a] = "clean" /\ Running(a) /\ Go(a, "copy") /\ Discard(a, dir, StageOf(a))
    BY DEF Clean, Running
  <1>2. UNCHANGED << strategy, how, target, fd, before, process >>
    BY DEF Clean
  <1>3. /\ strategy = "macos"
        /\ DirOK(dir) /\ how[a] = strategy /\ Root \in Name /\ Progress(a)
    BY <1>1, AttemptFacts DEF Progress, Route
  <1>4. /\ StageOf(a) = New /\ New \in Name /\ AsideOf(a) = Old /\ Old \in Name
        /\ New # Root /\ New # Old /\ Root # Old
    BY <1>3, Places, Names
  <1>5. dir[Root] = before[a] /\ Sound(before[a])
    BY <1>1, <1>3 DEF Progress, OldIs, InPlace
  <1>6. /\ Touched /\ DirOK(dir')
        /\ \A m \in Name \ {New} : dir'[m] = dir[m]
        /\ dir'[New] \in {None, dir[New]}
        /\ \A o \in Object : o # dir[New] => obj'[o] = obj[o]
        /\ ~Merged(a)' => dir'[New] = None
    BY <1>1, <1>3, <1>4, DiscardFacts
  <1>7. at'[a] = "copy"
    BY <1>1 DEF Go, IInv, TypeOK
  <1>8. Sound(before[a])' /\ Sound(dir[Root])' /\ dir'[Root] = before[a]
    BY <1>2, <1>3, <1>4, <1>5, <1>6, DiscardSound
  <1>9. Progress(a)'
    BY <1>2, <1>3, <1>6, <1>7, <1>8
    DEF Progress, Route, OldIs, NewIs, Gap, InPlace, PutOff, Copied
  <1>10. dir'[Aside(a)] = None
    <2>1. dir[Aside(a)] = None /\ Aside(a) \in Name \ {New}
      BY <1>1, Names DEF IInv, Unused, Early
    <2> QED
      BY <1>6, <2>1
  <1>11. \E n \in Name : Sound(dir[n])'
    BY <1>3, <1>8
  <1>12. Unopened(a)
    BY <1>1 DEF Unopened
  <1> QED
    BY <1>1, <1>2, <1>3, <1>4, <1>6, <1>8, <1>9, <1>10, <1>11, <1>12, MovesOn

(* What an earlier attempt put aside is gone, or in the way.                *)
LEMMA ClearInv ==
  ASSUME IInv, NEW a \in Attempt, Clear(a)
  PROVE  IInv'
  <1>1. at[a] = "clear" /\ Running(a) /\ Go(a, "move_aside") /\ Discard(a, dir, AsideOf(a))
    BY DEF Clear, Running
  <1>2. UNCHANGED << strategy, how, target, fd, before, process >>
    BY DEF Clear
  <1>3. /\ strategy \in {"macos", "windows"}
        /\ DirOK(dir) /\ how[a] = strategy /\ Root \in Name /\ Progress(a)
    BY <1>1, AttemptFacts DEF Progress, Route
  <1>4. /\ StageOf(a) \in Name /\ AsideOf(a) = Old /\ Old \in Name /\ Old # Root
        /\ StageOf(a) # Old
    BY <1>3, Places, Names
  <1>5. dir[Root] = before[a] /\ Sound(before[a])
    BY <1>1, <1>3 DEF Progress, OldIs, InPlace
  <1>6. /\ Touched /\ DirOK(dir')
        /\ \A m \in Name \ {Old} : dir'[m] = dir[m]
        /\ dir'[Old] \in {None, dir[Old]}
        /\ \A o \in Object : o # dir[Old] => obj'[o] = obj[o]
        /\ Merged(a)' <=> Merged(a)
    BY <1>1, <1>3, <1>4, DiscardFacts
  <1>7. at'[a] = "move_aside"
    BY <1>1 DEF Go, IInv, TypeOK
  <1>8. Sound(before[a])' /\ Sound(dir[Root])' /\ dir'[Root] = before[a]
    BY <1>2, <1>3, <1>4, <1>5, <1>6, DiscardSound
  <1>9. strategy = "macos" => Holds(a, dir[StageOf(a)])'
    <2> SUFFICES ASSUME strategy = "macos" PROVE Holds(a, dir[StageOf(a)])'
      OBVIOUS
    <2>1. Holds(a, dir[StageOf(a)])
      BY <1>1, <1>3 DEF Progress, NewIs, Copied
    <2>2. dir[StageOf(a)] \in Object /\ dir[StageOf(a)] # dir[Old]
      BY <1>3, <1>4, <2>1 DEF Holds, Filled, DirOK
    <2>3. dir'[StageOf(a)] = dir[StageOf(a)] /\ StageOf(a)' = StageOf(a)
      BY <1>2, <1>4, <1>6 DEF StageOf
    <2> QED
      BY <1>2, <1>6, <2>1, <2>2, <2>3 DEF Holds, Filled
  <1>10. Progress(a)'
    BY <1>2, <1>3, <1>7, <1>8, <1>9
    DEF Progress, Route, OldIs, NewIs, Gap, InPlace, PutOff, Copied
  <1>11. dir'[Aside(a)] = None
    <2>1. dir[Aside(a)] = None /\ Aside(a) \in Name \ {Old}
      BY <1>1, Names DEF IInv, Unused, Early
    <2> QED
      BY <1>6, <2>1
  <1>12. \E n \in Name : Sound(dir[n])'
    BY <1>3, <1>8
  <1>13. Unopened(a)' => Unopened(a)
    BY <1>1, <1>2, <1>7 DEF Unopened
  <1> QED
    BY <1>1, <1>2, <1>3, <1>4, <1>6, <1>8, <1>10, <1>11, <1>12, <1>13, MovesOn

(* A copy that fails leaves the old app where it is.                        *)
LEMMA FailCopyInv ==
  ASSUME IInv, NEW a \in Attempt, FailCopy(a)
  PROVE  IInv'
  <1>1. at[a] = "copying" /\ Running(a)
    BY DEF FailCopy, Running
  <1>2. UNCHANGED << strategy, how, target, fd, before, process >>
    BY DEF FailCopy
  <1>3. /\ strategy \in {"macos", "linux_dir", "linux_file", "windows"}
        /\ DirOK(dir) /\ how[a] = strategy /\ Root \in Name /\ Progress(a)
    BY AttemptFacts
  <1>4. /\ StageOf(a) \in Name /\ AsideOf(a) \in Name /\ AsideOf(a) # StageOf(a)
        /\ AsideOf(a) # Root
        /\ strategy = "windows" => StageOf(a) = Root
        /\ strategy # "windows" => StageOf(a) # Root
        /\ strategy = "linux_dir" => StageOf(a) = Stage(a) /\ AsideOf(a) = Aside(a)
    BY <1>3, Places
  <1>5. CASE strategy = "windows"
    <2>1. Go(a, "undo") /\ UNCHANGED << dir, obj, stuck >>
      BY <1>3, <1>5 DEF FailCopy, files
    <2>2. at'[a] = "undo"
      BY <2>1 DEF Go, IInv, TypeOK
    <2>3. dir[AsideOf(a)] = before[a] /\ Sound(before[a])
      BY <1>1, <1>3, <1>5 DEF Progress, OldIs, PutOff, InPlace
    <2>4. Sound(before[a])' /\ Sound(dir[AsideOf(a)])'
      BY <1>2, <2>1, <2>3 DEF Sound, Unmerged, Merged, Whole, AsideOf
    <2>5. Progress(a)'
      <3>1. AsideOf(a)' = AsideOf(a)
        BY <1>2 DEF AsideOf
      <3>2. OldIs(a)'
        BY <1>2, <1>5, <2>1, <2>2, <2>3, <2>4, <3>1 DEF OldIs, InPlace
      <3> QED
        BY <1>1, <1>2, <1>3, <1>5, <2>1, <2>2, <3>2
        DEF Progress, Route, NewIs, Gap, Copied
    <2>6. \E n \in Name : Sound(dir[n])'
      BY <1>2, <1>4, <2>1, <2>3 DEF Sound, Unmerged, Merged, Whole
    <2>7. ~Unopened(a)' /\ "undo" \notin Early /\ Touched
      BY <2>1, <2>2, Untouched DEF Unopened, Early
    <2> QED
      BY <1>1, <1>2, <1>3, <1>4, <1>5, <2>1, <2>5, <2>6, <2>7, MovesOn
  <1>6. CASE strategy # "windows"
    <2>1. Return(a, "error")
      BY <1>3, <1>6 DEF FailCopy
    <2>2. dir[Root] = before[a] /\ Sound(before[a])
      BY <1>1, <1>3, <1>6 DEF Progress, OldIs, InPlace
    <2>3. /\ Touched /\ DirOK(dir')
          /\ \A m \in Name \ {StageOf(a)} : dir'[m] = dir[m]
          /\ dir'[StageOf(a)] \in {None, dir[StageOf(a)]}
          /\ \A o \in Object : o # dir[StageOf(a)] => obj'[o] = obj[o]
          /\ strategy = "linux_dir" /\ stuck'[a] = {} => dir'[StageOf(a)] = None
      <3>1. CASE strategy = "macos"
        <4>1. UNCHANGED << dir, obj, stuck >>
          BY <1>3, <3>1 DEF FailCopy, files
        <4> QED
          BY <1>3, <3>1, <4>1, Untouched
      <3>2. CASE strategy # "macos"
        <4>1. Discard(a, dir, StageOf(a))
          BY <1>3, <1>6, <3>2 DEF FailCopy
        <4> QED
          BY <1>3, <1>4, <4>1, DiscardFacts
      <3> QED
        BY <3>1, <3>2
    <2>4. Sound(dir[Root])' /\ dir'[Root] = before[a]
      BY <1>3, <1>4, <1>6, <2>2, <2>3, DiscardSound
    <2>5. dir[Aside(a)] = None
      BY <1>1 DEF IInv, Unused, Early
    <2> QED
      BY <1>1, <1>2, <1>3, <1>4, <1>6, <2>1, <2>3, <2>4, <2>5, MovesOut
  <1> QED
    BY <1>5, <1>6

(* The old app goes aside as it is, or stays.                               *)
LEMMA MoveAsideInv ==
  ASSUME IInv, NEW a \in Attempt, MoveAside(a)
  PROVE  IInv'
  <1>1. at[a] = "move_aside" /\ Running(a)
    BY DEF MoveAside, Running
  <1>2. UNCHANGED << strategy, how, target, fd, before, process >>
    BY DEF MoveAside
  <1>3. /\ strategy \in {"macos", "linux_dir", "linux_file", "windows"}
        /\ DirOK(dir) /\ how[a] = strategy /\ Root \in Name /\ Progress(a)
        /\ strategy # "linux_file"
    BY <1>1, AttemptFacts DEF Progress, Route
  <1>4. /\ StageOf(a) \in Name /\ AsideOf(a) \in Name /\ AsideOf(a) # StageOf(a)
        /\ AsideOf(a) # Root
        /\ strategy # "windows" => StageOf(a) # Root
        /\ strategy = "linux_dir" => StageOf(a) = Stage(a) /\ AsideOf(a) = Aside(a)
    BY <1>3, Places
  <1>5. dir[Root] = before[a] /\ Sound(before[a]) /\ Exists(Root)
    BY <1>1, <1>3 DEF Progress, OldIs, InPlace, Exists, Sound
  <1>6. CASE /\ Return(a, "error")
             /\ IF how[a] = "linux_dir"
                  THEN Discard(a, dir, StageOf(a)) ELSE UNCHANGED << files, stuck >>
    <2>1. /\ Touched /\ DirOK(dir')
          /\ \A n \in Name : dir'[n] \in {None, dir[n]}
          /\ \A m \in Name \ {StageOf(a)} : dir'[m] = dir[m]
          /\ \A o \in Object : o # dir[StageOf(a)] => obj'[o] = obj[o]
          /\ strategy = "linux_dir" /\ stuck'[a] = {} => dir'[StageOf(a)] = None
          /\ strategy = "windows" => dir' = dir /\ UNCHANGED << obj, stuck >>
      <3>1. CASE strategy # "linux_dir"
        BY <1>3, <1>6, <3>1, Untouched DEF files
      <3>2. CASE strategy = "linux_dir"
        BY <1>3, <1>4, <1>6, <3>2, DiscardFacts
      <3> QED
        BY <3>1, <3>2
    <2>2. Sound(dir[Root])' /\ dir'[Root] = before[a]
      <3>1. CASE strategy = "windows"
        BY <1>5, <2>1, <3>1 DEF Sound, Unmerged, Merged, Whole
      <3>2. CASE strategy # "windows"
        BY <1>3, <1>4, <1>5, <2>1, <3>2, DiscardSound
      <3> QED
        BY <3>1, <3>2
    <2>3. dir[Aside(a)] = None /\ Aside(a) \in Name
      BY <1>1, Names DEF IInv, Unused, Early
    <2> QED
      BY <1>1, <1>2, <1>3, <1>4, <1>6, <2>1, <2>2, <2>3, MovesOut
  <1>7. CASE /\ dir' = PutAside(a) /\ UNCHANGED << obj, stuck >>
             /\ Go(a, IF how[a] = "windows" THEN "copy" ELSE "move_in")
    <2> DEFINE st == IF strategy = "windows" THEN "copy" ELSE "move_in"
    <2>1. dir' = Moved(dir, Root, AsideOf(a))
      BY <1>7 DEF PutAside
    <2>2. /\ DirOK(dir') /\ dir'[AsideOf(a)] = before[a] /\ dir'[Root] = None
          /\ \A n \in Name \ {Root, AsideOf(a)} : dir'[n] = dir[n]
      <3>1. /\ DirOK(Moved(dir, Root, AsideOf(a)))
            /\ Moved(dir, Root, AsideOf(a))[AsideOf(a)] = dir[Root]
            /\ Moved(dir, Root, AsideOf(a))[Root] = None
            /\ \A k \in Name \ {Root, AsideOf(a)} : Moved(dir, Root, AsideOf(a))[k] = dir[k]
        BY <1>3, <1>4, MovedFacts
      <3> QED
        BY <1>5, <2>1, <3>1
    <2>3. Go(a, st) /\ at'[a] = st /\ st \in {"copy", "move_aside", "move_in", "undo", "tidy"}
      BY <1>3, <1>7 DEF Go, IInv, TypeOK
    <2>4. Sound(before[a])' /\ Sound(dir'[AsideOf(a)])
      BY <1>2, <1>5, <1>7, <2>2 DEF Sound, Unmerged, Merged, Whole
    <2>5. Progress(a)'
      <3>1. AsideOf(a)' = AsideOf(a) /\ StageOf(a)' = StageOf(a)
        BY <1>2 DEF AsideOf, StageOf
      <3>2. OldIs(a)'
        BY <1>2, <1>3, <2>2, <2>3, <2>4, <3>1 DEF OldIs, InPlace
      <3>3. strategy # "windows" => Holds(a, dir'[StageOf(a)])
        BY <1>1, <1>3, <1>4, <2>2 DEF Progress, NewIs, Copied
      <3>4. NewIs(a)'
        BY <1>2, <1>7, <2>3, <3>1, <3>3 DEF NewIs, Copied, Holds, Filled, Merged
      <3>5. Route(a)' /\ Gap(a)'
        BY <1>2, <1>3, <2>2, <2>3 DEF Route, Gap
      <3> QED
        BY <3>2, <3>4, <3>5 DEF Progress
    <2>6. \E n \in Name : Sound(dir[n])'
      BY <1>2, <1>4, <1>7, <2>4 DEF Sound, Unmerged, Merged, Whole
    <2>7. Unopened(a)' => Unopened(a)
      BY <1>1, <1>2, <2>3 DEF Unopened
    <2>8. st \in Early => dir'[Aside(a)] = None
      <3> SUFFICES ASSUME strategy = "windows" PROVE dir'[Aside(a)] = None
        BY DEF Early
      <3>1. dir[Aside(a)] = None /\ Aside(a) \in Name \ {Root, AsideOf(a)}
        BY <1>1, <1>3, Names, Places DEF IInv, Unused, Early
      <3> QED
        BY <2>2, <3>1
    <2>9. Touched
      BY <1>7, Untouched
    <2> QED
      BY <1>1, <1>2, <1>3, <1>4, <1>5, <2>2, <2>3, <2>5, <2>6, <2>7, <2>8, <2>9, MovesOn
  <1> QED
    BY <1>5, <1>6, <1>7 DEF MoveAside

(* The new version comes to the root as it was copied, or what was there    *)
(* stays.                                                                   *)
LEMMA MoveInInv ==
  ASSUME IInv, NEW a \in Attempt, MoveIn(a)
  PROVE  IInv'
  <1>1. at[a] = "move_in" /\ Running(a)
    BY DEF MoveIn, Running
  <1>2. UNCHANGED << strategy, how, target, fd, before, process >>
    BY DEF MoveIn
  <1>3. /\ strategy \in {"macos", "linux_dir", "linux_file"}
        /\ DirOK(dir) /\ how[a] = strategy /\ Root \in Name /\ Progress(a)
    BY <1>1, AttemptFacts DEF Progress, Route
  <1>4. /\ StageOf(a) \in Name /\ AsideOf(a) \in Name /\ AsideOf(a) # StageOf(a)
        /\ AsideOf(a) # Root /\ StageOf(a) # Root
        /\ strategy = "linux_dir" => StageOf(a) = Stage(a) /\ AsideOf(a) = Aside(a)
        /\ strategy \in {"macos", "linux_file"} => StageOf(a) = New /\ AsideOf(a) = Old
    BY <1>3, Places
  <1>5. Holds(a, dir[StageOf(a)])
    BY <1>1, <1>3 DEF Progress, NewIs, Copied
  <1>6. /\ strategy = "linux_file" => dir[Root] = before[a]
        /\ strategy # "linux_file" => dir[AsideOf(a)] = before[a] /\ dir[Root] = None
        /\ Sound(before[a])
    BY <1>1, <1>3 DEF Progress, OldIs, InPlace, PutOff, Gap
  <1>7. /\ DirOK(Moved(dir, StageOf(a), Root))
        /\ Moved(dir, StageOf(a), Root)[Root] = dir[StageOf(a)]
        /\ Moved(dir, StageOf(a), Root)[StageOf(a)] = None
        /\ \A k \in Name \ {StageOf(a), Root} : Moved(dir, StageOf(a), Root)[k] = dir[k]
    BY <1>3, <1>4, MovedFacts
  <1>8. StageOf(a)' = StageOf(a) /\ AsideOf(a)' = AsideOf(a)
    BY <1>2 DEF StageOf, AsideOf
  <1>9. CASE /\ dir' = Moved(dir, StageOf(a), Root) /\ UNCHANGED << obj, stuck >>
             /\ IF strategy = "linux_file" THEN Return(a, "ok") ELSE Go(a, "tidy")
    <2>1. Holds(a, dir[Root])' /\ Touched
      BY <1>2, <1>5, <1>7, <1>9, Untouched DEF Holds, Filled, Merged
    <2>2. Sound(dir[Root])'
      BY <2>1, FS_Singleton DEF Holds, Filled, Sound, Whole, Unmerged
    <2>3. CASE strategy = "linux_file" /\ Return(a, "ok")
      BY <1>1, <1>2, <1>3, <1>4, <1>7, <1>9, <2>1, <2>2, <2>3, MovesOut
    <2>4. CASE strategy # "linux_file" /\ Go(a, "tidy")
      <3>1. at'[a] = "tidy"
        BY <2>4 DEF Go, IInv, TypeOK
      <3>2. Progress(a)'
        BY <1>2, <1>3, <1>7, <1>8, <1>9, <2>1, <2>4, <3>1
        DEF Progress, Route, OldIs, NewIs, Gap, InPlace, PutOff, Copied
      <3>3. ~Unopened(a)' /\ "tidy" \notin Early
        BY <3>1 DEF Unopened, Early
      <3>4. \E n \in Name : Sound(dir[n])'
        BY <1>3, <2>2
      <3> QED
        BY <1>1, <1>2, <1>3, <1>4, <1>7, <1>9, <2>1, <2>2, <2>4, <3>2, <3>3, <3>4, MovesOn
    <2> QED
      BY <1>3, <1>9, <2>3, <2>4
  <1>10. CASE strategy = "linux_file" /\ Return(a, "error") /\ Discard(a, dir, StageOf(a))
    <2>1. /\ Touched /\ DirOK(dir')
          /\ \A m \in Name \ {StageOf(a)} : dir'[m] = dir[m]
          /\ dir'[StageOf(a)] \in {None, dir[StageOf(a)]}
          /\ \A o \in Object : o # dir[StageOf(a)] => obj'[o] = obj[o]
      BY <1>3, <1>4, <1>10, DiscardFacts
    <2>2. Sound(dir[Root])' /\ dir'[Root] = before[a]
      BY <1>3, <1>4, <1>6, <1>10, <2>1, DiscardSound
    <2> QED
      BY <1>1, <1>2, <1>3, <1>4, <1>10, <2>1, <2>2, MovesOut
  <1>11. CASE strategy # "linux_file" /\ Go(a, "undo") /\ UNCHANGED << files, stuck >>
    <2>1. at'[a] = "undo" /\ UNCHANGED << dir, obj, stuck >>
      BY <1>11 DEF Go, IInv, TypeOK, files
    <2>2. Sound(before[a])' /\ Sound(dir[AsideOf(a)])'
      BY <1>2, <1>6, <1>8, <1>11, <2>1 DEF Sound, Unmerged, Merged, Whole
    <2>3. OldIs(a)'
      BY <1>2, <1>6, <1>8, <1>11, <2>1, <2>2 DEF OldIs, InPlace
    <2>4. Progress(a)'
      BY <1>2, <1>3, <1>6, <1>11, <2>1, <2>3 DEF Progress, Route, NewIs, Gap, Copied
    <2>5. \E n \in Name : Sound(dir[n])'
      BY <1>4, <1>8, <2>2
    <2>6. ~Unopened(a)' /\ "undo" \notin Early /\ Touched
      BY <2>1, Untouched DEF Unopened, Early
    <2> QED
      BY <1>1, <1>2, <1>3, <1>4, <1>11, <2>1, <2>4, <2>5, <2>6, MovesOn
  <1> QED
    BY <1>3, <1>9, <1>10, <1>11 DEF MoveIn

(* Unless the roll-back fails, the old app is back.                         *)
LEMMA UndoInv ==
  ASSUME OneByOne, IInv, NEW a \in Attempt, Undo(a)
  PROVE  IInv'
  <1>1. at[a] = "undo" /\ Running(a) /\ Return(a, "error")
    BY DEF Undo, Running
  <1>2. UNCHANGED << strategy, how, target, fd, before, process >>
    BY DEF Undo
  <1>3. /\ strategy \in {"macos", "linux_dir", "windows"}
        /\ DirOK(dir) /\ how[a] = strategy /\ a \in Object /\ a # None
        /\ Root \in Name /\ Progress(a)
    BY <1>1, AttemptFacts DEF Progress, Route
  <1>4. /\ StageOf(a) \in Name /\ AsideOf(a) \in Name /\ AsideOf(a) # StageOf(a)
        /\ AsideOf(a) # Root
        /\ strategy # "windows" => StageOf(a) # Root
        /\ strategy = "linux_dir" => StageOf(a) = Stage(a) /\ AsideOf(a) = Aside(a)
    BY <1>3, Places
  <1>5. /\ dir[AsideOf(a)] = before[a] /\ Sound(before[a])
        /\ strategy # "windows" => dir[Root] = None
        /\ strategy = "windows" => dir[Root] = a
    BY <1>1, <1>3 DEF Progress, OldIs, InPlace, PutOff, Gap
  <1> DEFINE back == Moved(dir, AsideOf(a), Root)
  <1>6. Renames(dir, AsideOf(a), Root)
    <2>1. dir[AsideOf(a)] # None /\ dir[AsideOf(a)] \in Object
      BY <1>3, <1>4, <1>5 DEF Sound, DirOK
    <2>2. CASE strategy # "windows"
      BY <1>5, <2>1, <2>2 DEF Renames
    <2>3. CASE strategy = "windows"
      <3>1. obj[dir[AsideOf(a)]].kind = "file" /\ obj[dir[Root]].kind = "file"
        BY <1>3, <1>5, <2>1, <2>3 DEF IInv, Kinds, Kind
      <3>2. ~Locked(Root)
        BY <1>1, <1>5, <2>3 DEF IInv, Unused, Locked
      <3> QED
        BY <2>1, <3>1, <3>2 DEF Renames
    <2> QED
      BY <2>2, <2>3
  <1>7. IF strategy = "windows"
          THEN dir' = back /\ UNCHANGED << obj, stuck >>
          ELSE Discard(a, back, StageOf(a))
    BY <1>3, <1>6 DEF Undo, MovedBack, OneByOne
  <1>8. /\ DirOK(back) /\ back[Root] = dir[AsideOf(a)] /\ back[AsideOf(a)] = None
        /\ \A k \in Name \ {AsideOf(a), Root} : back[k] = dir[k]
    BY <1>3, <1>4, MovedFacts
  <1> HIDE DEF back
  <1>9. CASE strategy = "windows"
    <2>1. /\ Touched /\ DirOK(dir') /\ dir'[Root] = before[a] /\ Sound(dir[Root])'
          /\ \A k \in Name \ {Root, AsideOf(a)} : dir'[k] \in {None, dir[k]}
          /\ dir'[AsideOf(a)] = None
      BY <1>5, <1>7, <1>8, <1>9, Untouched DEF Sound, Unmerged, Merged, Whole
    <2> QED
      BY <1>1, <1>2, <1>3, <1>4, <1>5, <1>9, <2>1, MovesOut
  <1>10. CASE strategy # "windows"
    <2>1. Discard(a, back, StageOf(a))
      BY <1>7, <1>10
    <2>2. /\ Touched /\ DirOK(dir')
          /\ \A m \in Name \ {StageOf(a)} : dir'[m] = back[m]
          /\ dir'[StageOf(a)] \in {None, back[StageOf(a)]}
          /\ \A o \in Object : o # back[StageOf(a)] => obj'[o] = obj[o]
          /\ stuck'[a] = {} => dir'[StageOf(a)] = None
      BY <1>4, <1>8, <2>1, DiscardFacts
    <2>3. /\ dir'[Root] = before[a] /\ dir'[AsideOf(a)] = None
          /\ \A k \in Name \ {Root, AsideOf(a)} : dir'[k] \in {None, dir[k]}
          /\ dir'[Root] = dir[AsideOf(a)]
      BY <1>3, <1>4, <1>5, <1>8, <1>10, <2>2
    <2>4. Sound(dir[Root])'
      <3>1. back[Root] = before[a] /\ Sound(back[Root])
        BY <1>5, <1>8
      <3>2. dir'[Root] = back[Root] /\ back[Root] # back[StageOf(a)] /\ back[Root] \in Object
        BY <1>3, <1>4, <1>8, <1>10, <2>2, <3>1 DEF DirOK, Sound
      <3> QED
        BY <2>2, <3>1, <3>2 DEF Sound, Whole, Unmerged, Touched
    <2> QED
      BY <1>1, <1>2, <1>3, <1>4, <1>10, <2>2, <2>3, <2>4, MovesOut
  <1> QED
    BY <1>9, <1>10

(* Tidying up removes the old app after the new one is at the root.         *)
LEMMA TidyInv ==
  ASSUME IInv, NEW a \in Attempt, Tidy(a)
  PROVE  IInv'
  <1>1. at[a] = "tidy" /\ Running(a) /\ Return(a, "ok") /\ Discard(a, dir, AsideOf(a))
    BY DEF Tidy, Running
  <1>2. UNCHANGED << strategy, how, target, fd, before, process >>
    BY DEF Tidy
  <1>3. /\ strategy \in {"macos", "linux_dir"}
        /\ DirOK(dir) /\ how[a] = strategy /\ Root \in Name /\ Progress(a)
    BY <1>1, AttemptFacts DEF Progress, Route
  <1>4. /\ StageOf(a) \in Name /\ AsideOf(a) \in Name /\ AsideOf(a) # StageOf(a)
        /\ AsideOf(a) # Root /\ StageOf(a) # Root
        /\ strategy = "linux_dir" => StageOf(a) = Stage(a) /\ AsideOf(a) = Aside(a)
        /\ strategy = "macos" => StageOf(a) = New /\ AsideOf(a) = Old
    BY <1>3, Places
  <1>5. Holds(a, dir[Root]) /\ dir[StageOf(a)] = None
    BY <1>1, <1>3 DEF Progress, NewIs, Gap
  <1>6. /\ Touched /\ DirOK(dir')
        /\ \A m \in Name \ {AsideOf(a)} : dir'[m] = dir[m]
        /\ dir'[AsideOf(a)] \in {None, dir[AsideOf(a)]}
        /\ \A o \in Object : o # dir[AsideOf(a)] => obj'[o] = obj[o]
        /\ Merged(a)' <=> Merged(a)
        /\ stuck'[a] = {} => dir'[AsideOf(a)] = None
    BY <1>1, <1>3, <1>4, DiscardFacts
  <1>7. Holds(a, dir[Root])'
    <2>1. dir[Root] \in Object /\ dir[Root] # dir[AsideOf(a)] /\ dir'[Root] = dir[Root]
      BY <1>3, <1>4, <1>5, <1>6 DEF Holds, Filled, DirOK
    <2> QED
      BY <1>2, <1>5, <1>6, <2>1 DEF Holds, Filled
  <1>8. Sound(dir[Root])'
    BY <1>7, FS_Singleton DEF Holds, Filled, Sound, Whole, Unmerged
  <1> QED
    BY <1>1, <1>2, <1>3, <1>4, <1>5, <1>6, <1>7, <1>8, MovesOut

------------------------------------------------------------------------------
(* The theorems.                                                            *)

(* Every step keeps the invariant.                                          *)
LEMMA StepInv == OneByOne /\ IInv /\ [Next]_vars => IInv'
  <1> SUFFICES ASSUME OneByOne, IInv, [Next]_vars PROVE IInv'
    OBVIOUS
  <1>1. CASE UNCHANGED vars
    <2>1. UNCHANGED << strategy, dir, obj, at, how, target, fd, before, result, stuck, last, up, image >>
      BY <1>1 DEF vars, files, attempt, process
    <2>2. TypeOK' /\ Alone' /\ Kinds' /\ Unused' /\ Merges'
      BY <2>1
      DEF IInv, TypeOK, Exists, Alone, Running, Kinds, Unused, Unopened, Merges, Unmerged, Merged
    <2>3. \A a \in Attempt : Route(a)' /\ OldIs(a)' /\ Gap(a)'
      BY <2>1
      DEF IInv, Progress, Route, OldIs, Gap, InPlace, PutOff, Sound, Unmerged, Merged, Whole,
          AsideOf, StageOf
    <2>4. \A a \in Attempt : NewIs(a)'
      BY <2>1 DEF IInv, Progress, NewIs, Copied, Holds, Filled, Merged, StageOf
    <2>5. Startable' /\ NoStrays'
      BY <2>1
      DEF IInv, Startable, Quiet, Running, Sound, Unmerged, Merged, Whole, NoStrays, Expected,
          Exists
    <2>6. SuccessInstalls' /\ FailureKeepsApp'
      BY <2>1 DEF IInv, SuccessInstalls, FailureKeepsApp, Merged, Quiet, Running, Exists
    <2>7. ACopySurvives' /\ ExecutableIsWhole'
      BY <2>1 DEF IInv, ACopySurvives, ExecutableIsWhole, Merged, Whole
    <2> QED
      BY <2>2, <2>3, <2>4, <2>5, <2>6, <2>7 DEF IInv, Progress
  <1>2. CASE Next
    BY <1>2, BeginInv, CleanInv, OpenCopyInv, FinishCopyInv, FailCopyInv, ClearInv,
       MoveAsideInv, MoveInInv, UndoInv, TidyInv, StopInv, StartInv
    DEF Next
  <1> QED
    BY <1>1, <1>2

(* The inductive invariant holds when attempts do not overlap and what is   *)
(* put aside can be put back.                                               *)
THEOREM Invariance == OneByOne /\ Spec => []IInv
  <1> SUFFICES ASSUME OneByOne PROVE Spec => []IInv
    OBVIOUS
  <1>1. IInv /\ [Next]_vars => IInv'
    BY StepInv
  <1> QED
    BY <1>1, InitInv, PTL DEF Spec

(* Every variable keeps its type, and two names never share an object.      *)
THEOREM TypeCorrect == OneByOne /\ Spec => []TypeOK
  <1>1. IInv => TypeOK
    BY DEF IInv
  <1> QED
    BY <1>1, Invariance, PTL

(* However many attempts failed or crashed before, an install that reports  *)
(* success left the new version whole at the root, with nothing in it or    *)
(* beside it but what could not be removed.                                 *)
THEOREM SuccessIsInstalled == OneByOne /\ Spec => []SuccessInstalls
  <1>1. IInv => SuccessInstalls
    BY DEF IInv
  <1> QED
    BY <1>1, Invariance, PTL

(* An install that reports an error left the app that was there.            *)
THEOREM FailureIsHarmless == OneByOne /\ Spec => []FailureKeepsApp
  <1>1. IInv => FailureKeepsApp
    BY DEF IInv
  <1> QED
    BY <1>1, Invariance, PTL

(* At no moment, also after a crash, is there no whole app on the disk.     *)
THEOREM AppNeverLost == OneByOne /\ Spec => []ACopySurvives
  <1>1. IInv => ACopySurvives
    BY DEF IInv
  <1> QED
    BY <1>1, Invariance, PTL

(* Without overlap a single executable on Linux is whole at any moment.     *)
THEOREM ReplacedAtomically == OneByOne /\ Spec => []ExecutableIsWhole
  <1>1. IInv => ExecutableIsWhole
    BY DEF IInv
  <1> QED
    BY <1>1, Invariance, PTL

==============================================================================
