------------------------------- MODULE XidRep -------------------------------
(***************************************************************************)
(* rpcc::update_xid_rep (rpc.cc): the client's window of finished xids.    *)
(* xid_rep_window_ is a sorted list whose front is the xid up to which     *)
(* every call has finished; the rest are finished calls after a gap.  The  *)
(* front travels in every request as xid_rep and tells the server which    *)
(* replies it may forget.                                                  *)
(*                                                                         *)
(* UpdateList follows the code on the list, UpdateSet says what it does to *)
(* the set of the list's elements.                                         *)
(***************************************************************************)
EXTENDS Integers, Sequences, SequencesExt

-----------------------------------------------------------------------------
(* The list.                                                               *)

(* Before the first element greater than xid, or at the end.               *)
InsertXid(w, xid) ==
    LET i == SelectInSeq(w, LAMBDA e : e > xid)
    IN  IF i = 0 THEN Append(w, xid) ELSE InsertAt(w, i, xid)

(* The inner while of compress, with the front at index k and the iterator *)
(* at index i: the front once it is no longer one less than element i.     *)
PopWhile(w, k, i) ==
    CHOOSE j \in k .. i : /\ w[j] + 1 # w[i]
                          /\ \A p \in k .. (j - 1) : w[p] + 1 = w[i]

(* front[i]: the index of the front when the iterator has passed element i *)
Compress(w) ==
    LET front[i \in 1 .. Len(w)] == IF i = 1 THEN 1 ELSE PopWhile(w, front[i - 1], i)
    IN  SubSeq(w, front[Len(w)], Len(w))

(* Mutant: an xid that leaves a gap is forgotten.                          *)
UpdateListNoGaps(w, xid) == IF xid # Head(w) + 1 THEN w ELSE Compress(InsertXid(w, xid))

(* Mutant: the early return is missing.                                    *)
UpdateListAlways(w, xid) == Compress(InsertXid(w, xid))

UpdateList(w, xid) == IF xid <= Head(w) THEN w ELSE Compress(InsertXid(w, xid))

-----------------------------------------------------------------------------
(* The set of the list's elements.                                         *)

(* Every element whose successor is also finished, back to the front, is   *)
(* dropped.                                                                *)
UpdateSet(W, xid) ==
    LET S == W \cup {xid}
    IN  IF xid <= Min(W) THEN W
        ELSE {e \in S : \E n \in Min(W) .. (e + 1) : n \notin S}
=============================================================================
