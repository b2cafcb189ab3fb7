------------------------------ MODULE XidWindow ------------------------------
(***************************************************************************)
(* The life of rpcc::xid_rep_window_.  Calls finish in any order, and each *)
(* may be reported more than once: got_pdu reports every reply that        *)
(* arrives, duplicates included, and call1 reports its xid again when it   *)
(* gives up waiting.                                                       *)
(***************************************************************************)
EXTENDS XidRep, FiniteSets

CONSTANTS MaxXid,     \* bound on the xids handed out
          MaxReports  \* bound on how often one xid is reported

ASSUME MaxXidAssumption == MaxXid \in Nat

ASSUME MaxReportsAssumption == MaxReports \in Nat

VARIABLES xid_rep_window_, \* the list
          reports          \* reports[x]: how often x has been reported so far

vars == <<xid_rep_window_, reports>>

Xids == 1 .. MaxXid

(* The constructor pushes 0: "latest received reply starts with 0".        *)
Init == /\ xid_rep_window_ = <<0>>
        /\ reports = [x \in Xids |-> 0]

update_xid_rep(xid) == /\ reports[xid] < MaxReports
                       /\ xid_rep_window_' = UpdateList(xid_rep_window_, xid)
                       /\ reports' = [reports EXCEPT ![xid] = @ + 1]

Next == \E xid \in Xids : update_xid_rep(xid)

Spec == Init /\ [][Next]_vars
-----------------------------------------------------------------------------
Finished == {x \in Xids : reports[x] > 0}

(* The front is exactly the xid up to which every call has finished:       *)
(* never too high, or the server would forget a reply still needed, and    *)
(* never too low, or it would keep replies nobody needs.                   *)
FrontIsContiguous ==
    LET f == Head(xid_rep_window_)
    IN  1 .. f \subseteq Finished /\ f + 1 \notin Finished

(* Past the front the list holds the finished xids and nothing else.       *)
RestIsFinished ==
    ToSet(Tail(xid_rep_window_)) \ {Head(xid_rep_window_)}
      = {x \in Finished : x > Head(xid_rep_window_)}

(* However calls finish, the window knows exactly which have: what it has  *)
(* let go is finished up to the front, what it has kept is the rest.       *)
WindowIsExact == FrontIsContiguous /\ RestIsFinished

(* Reporting an xid twice does no harm ("I don't think there's any harm in *)
(* potentially doing it twice"): on the set of elements the list code is   *)
(* UpdateSet, which does not see how often an xid was reported.            *)
ListIsSet == [][\E xid \in Xids :
    /\ reports'[xid] = reports[xid] + 1
    /\ ToSet(xid_rep_window_') = UpdateSet(ToSet(xid_rep_window_), xid)]_vars
=============================================================================
