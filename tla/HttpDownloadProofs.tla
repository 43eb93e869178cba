-------------------------- MODULE HttpDownloadProofs --------------------------
(***************************************************************************)
(* For any bodies, sizes, limits and number of retries: what a download    *)
(* continues is what is on disk, and what it leaves is one whole body or,  *)
(* when it was cancelled, nothing.                                         *)
(*                                                                         *)
(* The argument is that the file and `partial` are in step whenever no     *)
(* response is being read, and that while one is, all bytes are of its     *)
(* body: a validator names one body, and a request is continued only for   *)
(* the one it names.                                                       *)
(***************************************************************************)
EXTENDS HttpDownload, TLAPS

(* No attempt is under way, but one may follow.                             *)
Between == {"start", "await", "pause"}

(* A download that goes on may have the bytes that were published.          *)
Goes == pc \in {"await", "read", "pause"} => Permitted

(* While a response is read, the file has its bytes alone, as many as       *)
(* `partial` says.                                                          *)
Reading ==
  pc = "read" =>
    /\ response \in [body : Body, sized : BOOLEAN]
    /\ file.exists = TRUE /\ file.len = partial.len
    /\ file.from \subseteq {response.body}
    /\ partial.tag = Tag[response.body]

(* A result ends the download, and cancelling it removes the file.          *)
Ended ==
  /\ result # "none" => pc = "done"
  /\ result = "cancelled" => file.exists = FALSE

IInv == TypeOK /\ Goes /\ PartialIsOnDisk /\ Reading /\ Ended /\ WholeFile

(* The limit on the length is a number, published or MaxLen.                *)
LEMMA LimitType == TypeOK => Limit \in Nat
  BY PublishedAssumption, LimitAssumption DEF TypeOK, Limit

(* A download starts with no partial and no file.                           *)
LEMMA InitInv == Init => IInv
  <1> SUFFICES ASSUME Init PROVE IInv
    OBVIOUS
  <1>1. TypeOK
    <2>1. partial \in [len : Nat, tag : Tags, total : OptNat]
      BY DEF Init, Blank, Tags, OptNat
    <2>2. file \in [exists : BOOLEAN, len : Nat, from : SUBSET Body]
      BY DEF Init, NoFile
    <2>3. shown \in [got : Nat, total : OptNat] /\ tries \in 0 .. MaxRetries
      BY LimitAssumption DEF Init, OptNat
    <2> QED
      BY <2>1, <2>2, <2>3 DEF Init, TypeOK
  <1> QED
    BY <1>1, LimitType
    DEF Init, IInv, Goes, PartialIsOnDisk, Reading, Ended, WholeFile, Blank, NoFile, Resumable

------------------------------------------------------------------------------
(* How attempts end.                                                        *)

(* What a failed attempt leaves is in step: then the next attempt's request *)
(* is, too.                                                                 *)
InStep(p, f) ==
  Resumable(p) =>
    /\ f.exists = TRUE /\ f.len = p.len
    /\ \A b \in f.from : Tag[b] = p.tag

(* A failed try, retried or final, keeps the invariant when the partial it  *)
(* leaves agrees with the file.                                             *)
LEMMA FailInv ==
  ASSUME IInv, pc # "done", Permitted,
         NEW p \in [len : Nat, tag : Tags, total : OptNat],
         NEW transient \in BOOLEAN,
         Fail(p, transient),
         transient => InStep(p, file'),
         file' \in [exists : BOOLEAN, len : Nat, from : SUBSET Body],
         file'.len <= Limit,
         UNCHANGED << expected, before, response, cancelled >>
  PROVE  IInv'
  <1>1. partial' \in [len : Nat, tag : Tags, total : OptNat] /\ Limit' = Limit
    BY DEF Fail, Blank, Tags, OptNat, Limit
  <1>2. CASE transient /\ MayRetry
    <2>1. /\ pc' = "pause" /\ result' = result
          /\ partial' = IF Resumable(p) THEN p ELSE Blank
          /\ shown' = [got |-> partial'.len, total |-> partial'.total]
          /\ tries' = Used(p) + 1
      BY <1>2 DEF Fail
    <2>2. tries' \in 0 .. MaxRetries
      BY <1>2, <2>1, LimitAssumption DEF IInv, TypeOK, Used, MayRetry
    <2>3. result = "none"
      BY DEF IInv, TypeOK, Ended
    <2>4. TypeOK'
      BY <1>1, <2>1, <2>2 DEF IInv, TypeOK
    <2>5. PartialIsOnDisk'
      BY <1>2, <2>1 DEF PartialIsOnDisk, InStep, Resumable, Blank
    <2> QED
      BY <1>1, <2>1, <2>3, <2>4, <2>5
      DEF IInv, Goes, Permitted, Reading, Ended, WholeFile
  <1>3. CASE ~(transient /\ MayRetry)
    <2>1. pc' = "done" /\ result' = "failed" /\ UNCHANGED << tries, shown >>
      BY <1>3 DEF Fail, End
    <2>2. TypeOK'
      BY <1>1, <2>1 DEF IInv, TypeOK
    <2> QED
      BY <1>1, <2>1, <2>2 DEF IInv, Goes, PartialIsOnDisk, Reading, Ended, WholeFile
  <1> QED
    BY <1>2, <1>3

(* Stopping on a cancel removes the file.                                   *)
LEMMA StopInv == IInv /\ Stop => IInv'
  <1> SUFFICES ASSUME IInv, Stop PROVE IInv'
    OBVIOUS
  <1>1. pc' = "done" /\ result' = "cancelled" /\ file' = NoFile
    BY DEF Stop, End, RemoveFile
  <1>2. UNCHANGED << expected, tries, before, partial, response, shown, cancelled >>
    BY DEF Stop
  <1>3. TypeOK'
    BY <1>1, <1>2 DEF IInv, TypeOK, NoFile
  <1> QED
    BY <1>1, <1>2, <1>3, LimitType
    DEF IInv, Goes, PartialIsOnDisk, Reading, Ended, WholeFile, NoFile, Limit

------------------------------------------------------------------------------
(* Answers and their bytes.                                                 *)

(* Opening the file for a body, at its start or where the partial ended,    *)
(* keeps the file in one body.                                              *)
LEMMA OpenInv ==
  ASSUME IInv, pc = "await",
         NEW b \in Body, NEW start \in Nat, NEW sized \in BOOLEAN,
         start <= Limit, start <= Size[b],
         start # 0 => file.from \subseteq {b},
         Open(b, start, sized),
         UNCHANGED << expected, before, cancelled >>
  PROVE  IInv'
  <1> DEFINE p == [len |-> start, tag |-> Tag[b],
                   total |-> IF sized THEN Announced(b, start) ELSE expected]
  <1>1. p \in [len : Nat, tag : Tags, total : OptNat]
    BY SizeAssumption, PublishedAssumption DEF Announced, Tags, OptNat, IInv, TypeOK
  <1>2. Permitted
    BY DEF IInv, Goes
  <1>3. CASE /\ pc' = "read"
             /\ response' = [body |-> b, sized |-> sized]
             /\ partial' = p
             /\ file' = Opened(start)
             /\ UNCHANGED << tries, shown, result >>
    <2>1. file' \in [exists : BOOLEAN, len : Nat, from : SUBSET Body]
      BY <1>3 DEF Opened, IInv, TypeOK
    <2>2. TypeOK'
      BY <1>1, <1>3, <2>1 DEF IInv, TypeOK
    <2>3. Reading'
      BY <1>3 DEF Reading, Opened
    <2>4. result = "none"
      BY DEF IInv, TypeOK, Ended
    <2> QED
      BY <1>2, <1>3, <2>2, <2>3, <2>4
      DEF IInv, Goes, Permitted, PartialIsOnDisk, Ended, WholeFile, Opened, Limit
  <1>4. CASE /\ \/ Fail(p, FALSE)
                \/ Fail(partial, FALSE)
             /\ UNCHANGED << response, file >>
    BY <1>1, <1>2, <1>4, FailInv DEF IInv, TypeOK, WholeFile
  <1> HIDE DEF p
  <1> QED
    BY <1>3, <1>4 DEF Open, p

(* A 200 answer starts the file over.                                       *)
LEMMA WholeInv == IInv /\ Whole => IInv'
  <1> SUFFICES ASSUME IInv, pc = "await",
                      UNCHANGED << expected, before, cancelled >>,
                      NEW b \in Body, NEW sized \in BOOLEAN, Open(b, 0, sized)
               PROVE  IInv'
    BY DEF Whole
  <1>1. 0 <= Limit /\ 0 <= Size[b]
    BY LimitType, SizeAssumption DEF IInv
  <1> QED
    BY <1>1, OpenInv

(* A 206 answer continues the file only with the body it was begun with.    *)
LEMMA RestInv == IInv /\ Rest => IInv'
  <1> SUFFICES ASSUME IInv, pc = "await", Resumable(partial),
                      UNCHANGED << expected, before, cancelled >>,
                      NEW b \in Body, NEW sized \in BOOLEAN, Continues(b),
                      \/ Open(b, partial.len, sized)
                      \/ Fail(Blank, TRUE) /\ UNCHANGED << response, file >>
               PROVE  IInv'
    BY DEF Rest
  <1>1. CASE Open(b, partial.len, sized)
    <2>1. partial.len \in Nat /\ partial.len <= Limit /\ partial.len <= Size[b]
      BY SizeAssumption DEF IInv, TypeOK, PartialIsOnDisk, WholeFile, Continues
    <2>2. \A a \in file.from : a = b
      BY TagAssumption DEF IInv, TypeOK, PartialIsOnDisk, Continues, Resumable
    <2> QED
      BY <1>1, <2>1, <2>2, OpenInv
  <1>2. CASE Fail(Blank, TRUE) /\ UNCHANGED << response, file >>
    <2>1. Blank \in [len : Nat, tag : Tags, total : OptNat] /\ InStep(Blank, file')
      BY DEF Blank, Tags, OptNat, InStep, Resumable
    <2> QED
      BY <1>2, <2>1, FailInv DEF IInv, TypeOK, WholeFile, Goes
  <1> QED
    BY <1>1, <1>2

(* While a response is read, what it left so far is in step.                *)
LEMMA ReadingInStep == IInv /\ pc = "read" => InStep(partial, file)
  BY DEF IInv, Reading, InStep

(* A chunk grows the file and the partial by the same length, within the    *)
(* limit.                                                                   *)
LEMMA ChunkInv == IInv /\ Chunk => IInv'
  <1> SUFFICES ASSUME IInv, pc = "read", ~MustStop,
                      UNCHANGED << expected, before, cancelled >>,
                      NEW n \in 1 .. Size[response.body],
                      \/ Fail(partial, FALSE) /\ UNCHANGED << file, response >>
                      \/ /\ ~Overruns(partial.len + n)
                         /\ partial' = [len |-> partial.len + n, tag |-> partial.tag,
                                        total |-> partial.total]
                         /\ shown' = [got |-> partial.len + n, total |-> partial.total]
                         /\ file' = Grown(n)
                         /\ UNCHANGED << pc, tries, response, result >>
               PROVE  IInv'
    BY DEF Chunk
  <1>1. CASE Fail(partial, FALSE) /\ UNCHANGED << file, response >>
    BY <1>1, FailInv DEF IInv, TypeOK, WholeFile, Goes
  <1>2. CASE /\ ~Overruns(partial.len + n)
             /\ partial' = [len |-> partial.len + n, tag |-> partial.tag,
                            total |-> partial.total]
             /\ shown' = [got |-> partial.len + n, total |-> partial.total]
             /\ file' = Grown(n)
             /\ UNCHANGED << pc, tries, response, result >>
    <2>1. response \in [body : Body, sized : BOOLEAN] /\ n \in Nat
      BY SizeAssumption DEF IInv, Reading
    <2>2. file' \in [exists : BOOLEAN, len : Nat, from : SUBSET Body]
      BY <1>2, <2>1 DEF Grown, IInv, TypeOK
    <2>3. TypeOK'
      BY <1>2, <2>1, <2>2 DEF IInv, TypeOK
    <2>4. Reading'
      BY <1>2, <2>1 DEF IInv, TypeOK, Reading, Grown
    <2>5. file'.len <= Limit' /\ result = "none"
      BY <1>2, <2>1, LimitType DEF IInv, TypeOK, Reading, Ended, Grown, Overruns, Limit
    <2> QED
      BY <1>2, <2>3, <2>4, <2>5 DEF IInv, Goes, Permitted, PartialIsOnDisk, Ended, WholeFile
  <1> QED
    BY <1>1, <1>2

(* A failed write ends the download, whatever it left in the file.          *)
LEMMA WriteFailsInv == IInv /\ WriteFails => IInv'
  <1> SUFFICES ASSUME IInv, pc = "read",
                      Fail(partial, FALSE), UNCHANGED << expected, before, response, cancelled >>,
                      NEW n \in 1 .. Size[response.body],
                      ~Overruns(partial.len + n), file' = Grown(n - 1)
               PROVE  IInv'
    BY DEF WriteFails
  <1>1. response \in [body : Body, sized : BOOLEAN] /\ n \in Nat /\ n - 1 \in Nat
    BY SizeAssumption DEF IInv, Reading
  <1>2. file' \in [exists : BOOLEAN, len : Nat, from : SUBSET Body]
    BY <1>1 DEF Grown, IInv, TypeOK
  <1>3. file'.len <= Limit
    BY <1>1, LimitType DEF IInv, TypeOK, Reading, Grown, Overruns
  <1>4. partial \in [len : Nat, tag : Tags, total : OptNat] /\ Permitted
    BY DEF IInv, TypeOK, Goes
  <1> QED
    BY <1>2, <1>3, <1>4, FailInv

(* A broken connection keeps what was written for the next try.             *)
LEMMA ReadFailsInv == IInv /\ ReadFails => IInv'
  <1> SUFFICES ASSUME IInv, ReadFails PROVE IInv'
    OBVIOUS
  <1>1. InStep(partial, file')
    BY ReadingInStep DEF ReadFails
  <1>2. /\ partial \in [len : Nat, tag : Tags, total : OptNat] /\ Permitted /\ file' = file
        /\ file \in [exists : BOOLEAN, len : Nat, from : SUBSET Body] /\ file.len <= Limit
    BY DEF IInv, TypeOK, Goes, WholeFile, ReadFails
  <1> QED
    BY <1>1, <1>2, FailInv DEF ReadFails

(* At the end of the body a short file is retried and a whole one is the    *)
(* result.                                                                  *)
LEMMA BodyEndsInv == IInv /\ BodyEnds => IInv'
  <1> SUFFICES ASSUME IInv, BodyEnds PROVE IInv'
    OBVIOUS
  <1>1. /\ pc = "read" /\ Permitted
        /\ partial \in [len : Nat, tag : Tags, total : OptNat]
        /\ file \in [exists : BOOLEAN, len : Nat, from : SUBSET Body] /\ file.len <= Limit
    BY DEF IInv, TypeOK, Goes, WholeFile, BodyEnds
  <1>2. CASE Short /\ Fail(partial, TRUE)
    <2>1. InStep(partial, file') /\ file' = file
      BY ReadingInStep DEF BodyEnds
    <2> QED
      BY <1>1, <1>2, <2>1, FailInv DEF BodyEnds
  <1>3. CASE ~Short /\ End("ok") /\ UNCHANGED << tries, partial, shown >>
    <2>1. pc' = "done" /\ result' = "ok" /\ UNCHANGED << expected, before, response, file, cancelled >>
      BY <1>3 DEF End, BodyEnds
    <2>2. TypeOK'
      BY <1>3, <2>1 DEF IInv, TypeOK
    <2>3. file.exists /\ \A a, b \in file.from : a = b
      BY <1>1 DEF IInv, Reading
    <2>4. expected # None => file.len = expected
      BY <1>1, <1>3, LimitType, PublishedAssumption DEF IInv, TypeOK, Reading, Short, Limit
    <2> QED
      BY <1>1, <2>1, <2>2, <2>3, <2>4
      DEF IInv, Goes, PartialIsOnDisk, Reading, Ended, WholeFile, Limit
  <1> QED
    BY <1>2, <1>3 DEF BodyEnds

------------------------------------------------------------------------------
(* The loop around the attempts.                                            *)

(* The steps of the retry loop before an answer arrives leave the file      *)
(* alone.                                                                   *)
LEMMA LoopInv == IInv /\ (Refuse \/ Begin \/ Resume \/ Cancel) => IInv'
  <1> SUFFICES ASSUME IInv, Refuse \/ Begin \/ Resume \/ Cancel PROVE IInv'
    OBVIOUS
  <1>1. UNCHANGED << expected, tries, partial, response, file, shown >>
    BY DEF Refuse, Begin, Resume, Cancel
  <1>2. TypeOK'
    BY <1>1 DEF IInv, TypeOK, Refuse, Begin, Resume, Cancel, End
  <1>3. /\ result' # "none" => pc' = "done"
        /\ result' \in {result, "failed"}
    BY DEF IInv, Ended, Refuse, Begin, Resume, Cancel, End
  <1>4. Goes' /\ PartialIsOnDisk' /\ Reading'
    BY <1>1 DEF IInv, Goes, Permitted, PartialIsOnDisk, Resumable, Reading, Refuse, Begin, Resume,
       Cancel, End
  <1> QED
    BY <1>1, <1>2, <1>3, <1>4 DEF IInv, Ended, WholeFile, Limit

(* No answer, or one that makes the next try start over.                    *)
LEMMA AnswerInv == IInv /\ (NoResponse \/ StartOver) => IInv'
  <1> SUFFICES ASSUME IInv, NoResponse \/ StartOver PROVE IInv'
    OBVIOUS
  <1>1. /\ pc = "await" /\ Permitted
        /\ partial \in [len : Nat, tag : Tags, total : OptNat]
        /\ file \in [exists : BOOLEAN, len : Nat, from : SUBSET Body] /\ file.len <= Limit
    BY DEF IInv, TypeOK, Goes, WholeFile, NoResponse, StartOver
  <1>2. Blank \in [len : Nat, tag : Tags, total : OptNat] /\ InStep(Blank, file)
    BY DEF Blank, Tags, OptNat, InStep, Resumable
  <1>3. InStep(partial, file)
    BY <1>1 DEF IInv, PartialIsOnDisk, InStep
  <1>4. CASE NoResponse
    BY <1>1, <1>3, <1>4, FailInv DEF NoResponse
  <1>5. CASE StartOver
    BY <1>1, <1>2, <1>5, FailInv DEF StartOver
  <1> QED
    BY <1>4, <1>5

(* Every step of the download keeps the invariant.                          *)
LEMMA StepInv == IInv /\ [Next]_vars => IInv'
  <1> SUFFICES ASSUME IInv, [Next]_vars PROVE IInv'
    OBVIOUS
  <1>1. CASE Download
    <2>1. CASE Cancelled
      BY <2>1, StopInv DEF Cancelled
    <2> QED
      BY <1>1, <2>1, LoopInv, AnswerInv, WholeInv, RestInv, ChunkInv, WriteFailsInv,
         ReadFailsInv, BodyEndsInv DEF Download
  <1>2. CASE Cancel
    BY <1>2, LoopInv
  <1>3. CASE UNCHANGED vars
    BY <1>3 DEF vars, IInv, TypeOK, Goes, Permitted, PartialIsOnDisk, Resumable, Reading, Ended,
       WholeFile, Limit
  <1> QED
    BY <1>1, <1>2, <1>3 DEF Next

(* The inductive invariant holds in every state of a download.              *)
LEMMA Invariance == Spec => []IInv
  BY InitInv, StepInv, PTL DEF Spec

------------------------------------------------------------------------------
(* TypeOK: every variable keeps its type; retries stay within MAX_RETRIES.  *)
THEOREM TypeCorrect == Spec => []TypeOK
  <1>1. IInv => TypeOK
    BY DEF IInv
  <1> QED
    BY <1>1, Invariance, PTL

(* PartialIsOnDisk: a request that is resumed continues what is on disk.    *)
THEOREM ResumesWhatIsThere == Spec => []PartialIsOnDisk
  <1>1. IInv => PartialIsOnDisk
    BY DEF IInv
  <1> QED
    BY <1>1, Invariance, PTL

(* WholeFile: a success is one whole body within the limits, however often  *)
(* the file on the server was replaced.                                     *)
THEOREM NeverMixesBodies == Spec => []WholeFile
  <1>1. IInv => WholeFile
    BY DEF IInv
  <1> QED
    BY <1>1, Invariance, PTL

(* A download that ends as cancelled leaves no file (http.rs:385).          *)
THEOREM CancelRemovesFile == Spec => [](result = "cancelled" => ~file.exists)
  <1>1. IInv => (result = "cancelled" => ~file.exists)
    BY DEF IInv, Ended
  <1> QED
    BY <1>1, Invariance, PTL

==============================================================================
