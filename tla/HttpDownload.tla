----------------------------- MODULE HttpDownload -----------------------------
(***************************************************************************)
(* One file downloaded over HTTP: `download` of                            *)
(* crates/gpui-updater-core/src/http.rs, with its retry loop, the resumed  *)
(* requests and the cancel token.                                          *)
(*                                                                         *)
(* The publisher may replace the file between two requests, so each        *)
(* response carries any one of the bodies.  A server that honours          *)
(* `If-Range` continues a body only when the validator it is asked with is *)
(* the body's own; every other answer a server can give is allowed.        *)
(*                                                                         *)
(* The file on disk is abstracted to its length and the bodies its bytes   *)
(* came from.                                                              *)
(*                                                                         *)
(* An operator whose name has an underscore is its namesake with a mistake *)
(* in it; no action uses it.  The properties are checked to notice it.     *)
(***************************************************************************)
EXTENDS Naturals, FiniteSets

CONSTANTS
  Body,         (* What the URL may serve.                               *)
  Size,         (* The length of each body.                              *)
  Tag,          (* The strong ETag, or Last-Modified date, it is served  *)
                (* with; None if the server sends neither.               *)
  None,
  Published,    (* What Fetch::expected_len may be: sizes, and None.     *)
  MaxLen,       (* Fetch::max_len.                                       *)
  MaxRetries    (* MAX_RETRIES.                                          *)

ASSUME SizeAssumption == Size \in [Body -> Nat]
ASSUME PublishedAssumption == None \notin Nat /\ Published \subseteq Nat \cup {None}
(* A validator names one body (`validator_of`).  A Last-Modified date does   *)
(* so only for bodies published in different seconds.                       *)
ASSUME TagAssumption == \A a, b \in Body : Tag[a] = Tag[b] /\ Tag[a] # None => a = b
ASSUME LimitAssumption == MaxLen \in Nat /\ MaxRetries \in Nat

VARIABLES
  expected,     (* Fetch::expected_len.                                  *)
  pc,           (* Where the download is.                                *)
  tries,        (* Retries used up.                                      *)
  before,       (* partial.len when this attempt began.                  *)
  partial,      (* Partial: what the attempts have left in the file.     *)
  response,     (* The body being read, and whether its size was sent.   *)
  file,         (* The file at `dest`.                                   *)
  shown,        (* What `progress` was last called with.                 *)
  cancelled,    (* The cancel token's flag.                              *)
  result        (* How the download ended.                               *)

vars == << expected, pc, tries, before, partial, response, file, shown, cancelled,
           result >>

Tags == {Tag[b] : b \in Body} \cup {None}
OptNat == Nat \cup {None}

Blank == [len |-> 0, tag |-> None, total |-> None]
NoFile == [exists |-> FALSE, len |-> 0, from |-> {}]

TypeOK ==
  /\ expected \in Published
  /\ pc \in {"start", "await", "read", "pause", "done"}
  /\ tries \in 0 .. MaxRetries
  /\ before \in Nat
  /\ partial \in [len : Nat, tag : Tags, total : OptNat]
  /\ response \in [body : Body, sized : BOOLEAN] \cup {None}
  /\ file \in [exists : BOOLEAN, len : Nat, from : SUBSET Body]
  /\ shown \in [got : Nat, total : OptNat]
  /\ cancelled \in BOOLEAN
  /\ result \in {"none", "ok", "cancelled", "failed"}

(* Whatever an earlier download left at `dest` is truncated before use.     *)
Init ==
  /\ expected \in Published
  /\ pc = "start"
  /\ tries = 0
  /\ before = 0
  /\ partial = Blank
  /\ response = None
  /\ file = NoFile
  /\ shown = [got |-> 0, total |-> None]
  /\ cancelled = FALSE
  /\ result = "none"

(* The most bytes the body may have.                                        *)
Limit == IF expected # None THEN expected ELSE MaxLen

(* Partial::resume_point.                                                   *)
Resumable_Untagged(p) == p.len > 0
Resumable(p) == p.tag # None /\ p.len > 0

(* An attempt that moved the download forward does not use up a retry.      *)
Used_Never(p) == 0
Used(p) == IF Resumable(p) /\ p.len > before THEN 0 ELSE tries

(* CancelToken::check.                                                      *)
MustStop_Ignored == FALSE
MustStop == cancelled

------------------------------------------------------------------------------
(* How an attempt ends.                                                     *)

End(outcome) == pc' = "done" /\ result' = outcome

(* download_with: nothing resumes a cancelled download.                     *)
RemoveFile == file' = NoFile

Stop ==
  /\ MustStop
  /\ End("cancelled")
  /\ RemoveFile
  /\ UNCHANGED << expected, tries, before, partial, response, shown, cancelled >>

MayRetry == tries < MaxRetries

(* The attempt failed and left p.                                           *)
Fail(p, transient) ==
  \/ /\ transient /\ MayRetry
     /\ pc' = "pause"
     /\ partial' = IF Resumable(p) THEN p ELSE Blank
     /\ shown' = [got |-> partial'.len, total |-> partial'.total]
     /\ tries' = Used(p) + 1
     /\ UNCHANGED result
  \/ /\ ~(transient /\ MayRetry)
     /\ End("failed")
     /\ partial' = p
     /\ UNCHANGED << tries, shown >>

------------------------------------------------------------------------------
(* retry_download.                                                          *)

(* No more bytes are published than may be downloaded.                      *)
Permitted == expected # None => expected <= MaxLen

Refuse ==
  /\ pc = "start"
  /\ ~Permitted
  /\ End("failed")
  /\ UNCHANGED << expected, tries, before, partial, response, file, shown, cancelled >>

Begin ==
  /\ pc = "start"
  /\ Permitted
  /\ ~MustStop
  /\ pc' = "await"
  /\ before' = partial.len
  /\ UNCHANGED << expected, tries, partial, response, file, shown, cancelled, result >>

(* CancelToken::sleep between two attempts.                                 *)
Resume ==
  /\ pc = "pause"
  /\ ~MustStop
  /\ pc' = "start"
  /\ UNCHANGED << expected, tries, before, partial, response, file, shown, cancelled, result >>

(* The token is checked before each attempt, before each read, and while    *)
(* waiting for a response or for the next attempt.                          *)
Cancelled == pc # "done" /\ Permitted /\ Stop

------------------------------------------------------------------------------
(* call_with_deadline and body_start.                                       *)

(* No usable response: a transport failure or missed deadline, an error     *)
(* status, a redirect off HTTPS, a 206 that was not asked for.              *)
NoResponse ==
  /\ pc = "await"
  /\ \E transient \in BOOLEAN : Fail(partial, transient)
  /\ UNCHANGED << expected, before, response, file, cancelled >>

(* 416, or a 206 that does not continue the file.                           *)
StartOver ==
  /\ pc = "await"
  /\ Resumable(partial)
  /\ Fail(Blank, TRUE)
  /\ UNCHANGED << expected, before, response, file, cancelled >>

(* The size of the whole body: what the file has plus what is announced.    *)
Announced(b, start) == start + (Size[b] - start)

Acceptable(b, start, sized) ==
  sized => /\ expected # None => Announced(b, start) = expected
           /\ Announced(b, start) <= MaxLen

(* open_at truncates the file at `start`.                                   *)
Opened(start) ==
  [exists |-> TRUE, len |-> start, from |-> IF start = 0 THEN {} ELSE file.from]

(* download_once up to its read loop, for a body that begins at `start`.    *)
(* Opening the file may fail.                                               *)
Open(b, start, sized) ==
  LET p == [len |-> start, tag |-> Tag[b],
            total |-> IF sized THEN Announced(b, start) ELSE expected] IN
  \/ /\ Acceptable(b, start, sized)
     /\ pc' = "read"
     /\ response' = [body |-> b, sized |-> sized]
     /\ partial' = p
     /\ file' = Opened(start)
     /\ UNCHANGED << tries, shown, result >>
  \/ /\ Acceptable(b, start, sized)
     /\ Fail(p, FALSE)
     /\ UNCHANGED << response, file >>
  \/ /\ ~Acceptable(b, start, sized)
     /\ Fail(partial, FALSE)
     /\ UNCHANGED << response, file >>

(* 200: the whole body, whether or not a range was asked for.               *)
Whole ==
  /\ pc = "await"
  /\ \E b \in Body, sized \in BOOLEAN : Open(b, 0, sized)
  /\ UNCHANGED << expected, before, cancelled >>

(* A body that is not the one begun; a request without a validator goes out *)
(* without `If-Range` and is answered for any body.                         *)
Continues(b) == partial.tag \in {None, Tag[b]} /\ partial.len < Size[b]

SameSize(b) == partial.total # None => partial.total = Size[b]

(* 206: the rest of the body.  `stated` is whether Content-Range has the    *)
(* size.                                                                    *)
Rest ==
  /\ pc = "await"
  /\ Resumable(partial)
  /\ \E b \in Body, sized, stated \in BOOLEAN :
       /\ Continues(b)
       /\ IF stated => SameSize(b)
          THEN Open(b, partial.len, sized)
          ELSE Fail(Blank, TRUE) /\ UNCHANGED << response, file >>
  /\ UNCHANGED << expected, before, cancelled >>

------------------------------------------------------------------------------
(* The read loop of download_once.                                          *)

Grown(n) ==
  [exists |-> TRUE, len |-> file.len + n, from |-> file.from \cup {response.body}]

Overruns(len) == len > Limit

Chunk ==
  /\ pc = "read"
  /\ ~MustStop
  /\ \E n \in 1 .. Size[response.body] :
       LET len == partial.len + n IN
       /\ len <= Size[response.body]
       /\ \/ /\ Overruns(len)
             /\ Fail(partial, FALSE)
             /\ UNCHANGED << file, response >>
          \/ /\ ~Overruns(len)
             /\ partial' = [len |-> len, tag |-> partial.tag, total |-> partial.total]
             /\ shown' = [got |-> len, total |-> partial.total]
             /\ file' = Grown(n)
             /\ UNCHANGED << pc, tries, response, result >>
  /\ UNCHANGED << expected, before, cancelled >>

(* Writing a chunk fails, with some of it written.                          *)
WriteFails ==
  /\ pc = "read"
  /\ ~MustStop
  /\ \E n \in 1 .. Size[response.body] :
       /\ partial.len + n <= Size[response.body]
       /\ ~Overruns(partial.len + n)
       /\ file' = Grown(n - 1)
  /\ Fail(partial, FALSE)
  /\ UNCHANGED << expected, before, response, cancelled >>

(* The connection breaks or stalls.                                         *)
ReadFails ==
  /\ pc = "read"
  /\ ~MustStop
  /\ Fail(partial, TRUE)
  /\ UNCHANGED << expected, before, response, file, cancelled >>

Short_Never == FALSE
Short == expected # None /\ partial.len < Limit

(* The body ends; one of unknown size may end early unnoticed.              *)
BodyEnds ==
  /\ pc = "read"
  /\ ~MustStop
  /\ response.sized => partial.len = Size[response.body]
  /\ \/ Short /\ Fail(partial, TRUE)
     \/ ~Short /\ End("ok") /\ UNCHANGED << tries, partial, shown >>
  /\ UNCHANGED << expected, before, response, file, cancelled >>

------------------------------------------------------------------------------
(* Another thread cancels the token.                                        *)
Cancel ==
  /\ result = "none"
  /\ ~cancelled
  /\ cancelled' = TRUE
  /\ UNCHANGED << expected, pc, tries, before, partial, response, file, shown, result >>

Download ==
  \/ Refuse
  \/ Begin
  \/ Resume
  \/ Cancelled
  \/ NoResponse
  \/ StartOver
  \/ Whole
  \/ Rest
  \/ Chunk
  \/ WriteFails
  \/ ReadFails
  \/ BodyEnds

Next == Download \/ Cancel

Spec == Init /\ [][Next]_vars

(* DNS, connecting, the response headers and every read have a deadline.    *)
FairSpec == Spec /\ WF_vars(Download)

------------------------------------------------------------------------------
(* Properties.                                                              *)

(* While a request can be resumed, the file has exactly the bytes it will   *)
(* be continued after, and they are of bodies with the validator the        *)
(* request names.                                                           *)
PartialIsOnDisk ==
  pc \in {"start", "await", "pause"} /\ Resumable(partial) =>
    /\ file.exists /\ file.len = partial.len
    /\ \A b \in file.from : Tag[b] = partial.tag

(* A download that succeeds left one whole body: bytes of no other body,    *)
(* none missing when the size was published, whatever was replaced on the   *)
(* server, resumed or started over on the way.  At no moment does the disk  *)
(* hold more than was published or the limit allows.                        *)
WholeFile ==
  /\ file.len <= Limit
  /\ result = "ok" =>
       /\ file.exists
       /\ \A a, b \in file.from : a = b
       /\ expected # None => file.len = expected

(* A download that is cancelled ends, wherever it is, and when it ends as   *)
(* cancelled no file is left.                                               *)
CancelEnds == cancelled ~> (pc = "done" /\ (result = "cancelled" => ~file.exists))

(* When no attempt delivers a byte any more, the download ends: retries are *)
(* bounded for a client that is offline.                                    *)
OfflineEnds == <>[][~Chunk]_vars => <>(pc = "done")

==============================================================================
