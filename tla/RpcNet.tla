------------------------------- MODULE RpcNet -------------------------------
(***************************************************************************)
(* What rpcc and rpcs see of their connections (connection.cc), one PDU at *)
(* a time.  A connection joins two connection objects, the client's and    *)
(* the server's, each with its own dead_ flag and its own refno_.  Bytes,  *)
(* partial reads and writes are left out: a PDU is sent and read whole.    *)
(*                                                                         *)
(* The network may break a connection at any moment.  What was sent on it  *)
(* may still be read, each end notices in its own time, and what an end    *)
(* has not read when it marks the connection dead_ is lost.  A PDU written *)
(* after the break is lost without the writer knowing.                     *)
(***************************************************************************)
EXTENDS Integers, Sequences, FiniteSets

CONSTANTS Conns,    \* the connections that may be made, a bound
          NoConn,   \* NULL
          MaxXid,   \* bound on the xids the client hands out
          Teardown  \* whether client and server are also deleted in good order

ASSUME NoConnAssumption == NoConn \notin Conns

ASSUME MaxXidAssumption == MaxXid \in Nat

ASSUME TeardownAssumption == Teardown \in BOOLEAN

VARIABLES link,     \* link[c]: the TCP connection is "unused", "up" or "down"
          req_q,    \* req_q[c]: requests written by the client, not read yet
          rep_q,    \* rep_q[c]: replies written by the server, not read yet
          cdead,    \* cdead[c]: dead_ of the client's object
          crefno,   \* crefno[c]: refno_ of the client's object
          sobj,     \* sobj[c]: the server's object: "none", "alive" or "dead"
          srefno,   \* srefno[c]: refno_ of the server's object
          life      \* the server: "up" and listening, or how far ~rpcs has come: "closing"
                    \* connections, "draining" the pool, "gone"

Xids == 1 .. MaxXid

Procs == {"bind", "call"}

(* The fields of req_header that dispatch reads, clt_nonce apart (there is *)
(* one client), and those of reply_header with the r of bind's reply.      *)
NoReq == [xid |-> 0, proc |-> "bind", srv_nonce |-> 0, xid_rep |-> 0]

Rets == {"ok", "oldsrv_failure", "atmostonce_failure"}

netvars == <<link, req_q, rep_q, cdead, crefno, sobj, srefno, life>>

NetInit == /\ link = [c \in Conns |-> "unused"]
           /\ req_q = [c \in Conns |-> <<>>]
           /\ rep_q = [c \in Conns |-> <<>>]
           /\ cdead = [c \in Conns |-> FALSE]
           /\ crefno = [c \in Conns |-> 0]
           /\ sobj = [c \in Conns |-> "none"]
           /\ srefno = [c \in Conns |-> 0]
           /\ life = "up"

(* refno after n[c] more references to c have been taken than dropped.     *)
(* An object whose refno reaches 0 when it is dead is deleted.             *)
Recount(refno, n) == [c \in Conns |-> refno[c] + n[c]]

(* +1 for each of the connections taken, -1 for each dropped.              *)
Taken(c) == [d \in Conns |-> IF d = c THEN 1 ELSE 0]

(* Mutant: the reference is dropped twice.                                 *)
DroppedTwice(c) == [d \in Conns |-> IF d = c THEN -2 ELSE 0]

Dropped(c) == [d \in Conns |-> IF d = c THEN -1 ELSE 0]

(* Mutants: one of the two counts is forgotten.                            *)
SwappedNoIncref(old, new) == Dropped(old)

SwappedNoDecref(old, new) == Taken(new)

(* The reference to old is replaced by one to new.                         *)
Swapped(old, new) == [d \in Conns |-> Taken(new)[d] + Dropped(old)[d]]

(* connection::send on the client's and on the server's side.  A write     *)
(* that fails marks the connection dead_; here that is a break noticed     *)
(* right after a write that is lost.                                       *)
ClientSend(q, c, m) ==
    IF c # NoConn /\ ~cdead[c] /\ link[c] # "down" THEN [q EXCEPT ![c] = Append(@, m)] ELSE q

ServerSend(c, m) ==
    IF sobj[c] = "alive" /\ link[c] = "up" THEN [rep_q EXCEPT ![c] = Append(@, m)] ELSE rep_q

(* The network, or shutdown() in a lossy test, cuts connection c.          *)
Break(c) == /\ link[c] = "up"
            /\ link' = [link EXCEPT ![c] = "down"]
            /\ UNCHANGED <<req_q, rep_q, cdead, crefno, sobj, srefno, life>>

(* The client's end notices: end of file in read_cb, or a failed write.    *)
client_dies(c) == /\ link[c] = "down"
                  /\ ~cdead[c]
                  /\ cdead' = [cdead EXCEPT ![c] = TRUE]
                  /\ rep_q' = [rep_q EXCEPT ![c] = <<>>]
                  /\ UNCHANGED <<link, req_q, crefno, sobj, srefno, life>>

(* The server's end notices.                                               *)
server_dies(c) == /\ link[c] = "down"
                  /\ sobj[c] = "alive"
                  /\ sobj' = [sobj EXCEPT ![c] = "dead"]
                  /\ req_q' = [req_q EXCEPT ![c] = <<>>]
                  /\ UNCHANGED <<link, rep_q, cdead, crefno, srefno, life>>
=============================================================================
