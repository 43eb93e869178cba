---------------------------- MODULE MCHttpDownload ----------------------------
(***************************************************************************)
(* Instances of HttpDownload for TLC.  The publisher replaces a file of    *)
(* three bytes with another of the same size, or with a shorter one that   *)
(* is served without a validator; a body of two chunks can be broken off   *)
(* before, between and after them.                                         *)
(***************************************************************************)
EXTENDS HttpDownload

Bodies == {"first", "second", "third"}
Sizes == [first |-> 3, second |-> 3, third |-> 2]

(* The size of one body, of another, one over the limit, or none.           *)
SizesPublished == {2, 3, 5, None}

Etags == [first |-> "e1", second |-> "e2", third |-> None]
==============================================================================
