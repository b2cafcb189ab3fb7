----------------------------- MODULE RpcClient -----------------------------
(***************************************************************************)
(* rpcc (rpc.cc, rpc.h): one client endpoint and the threads that make     *)
(* calls on it.  A request is packed once, under m_, and sent again        *)
(* verbatim when the connection it was sent on has died (retrans_, as      *)
(* every client in the repository has it).                                 *)
(*                                                                         *)
(* Deadlines are left to chance: a wait may time out at any moment, and    *)
(* any timeout may be the last.  A timeout on a live connection that is    *)
(* not the last changes nothing and is no step here.                       *)
(***************************************************************************)
EXTENDS RpcNet, XidRep

CONSTANTS Threads,  \* threads that make calls
          Deadlines \* whether calls run into their final deadline, to

ASSUME DeadlinesAssumption == Deadlines \in BOOLEAN

(* The threads of a process.                                               *)
ASSUME ThreadsAssumption == IsFiniteSet(Threads)

VARIABLES xid_,            \* the next xid
          bind_done_,
          srv_nonce_,      \* 0 until bound
          xid_rep_window_, \* as a set: see XidRep
          calls_,          \* the xids with a caller in calls_
          done,            \* done[x]: the reply x's caller took in, or NoReply (kept
                           \* when the call has returned, as a record of it)
          chan_,
          deleted,         \* ~rpcc has run
          pc, req, ch      \* of each thread in call1: where it is, its packed
                           \* request and its connection

clientvars == <<xid_, bind_done_, srv_nonce_, xid_rep_window_, calls_, done, chan_, deleted, pc, req, ch>>

NoReply == [ret |-> "none", r |-> 0]

(* "transmit": about to get_refconn and send.  "waiting": for ca.done or a *)
(* deadline.  "last": as transmit, with the final deadline already past.   *)
(* "leaving": out of the loop.  "bound": bind's call has returned 0.       *)
ClientPCs == {"idle", "transmit", "waiting", "last", "leaving", "bound"}

ClientInit == /\ xid_ = 1
              /\ bind_done_ = FALSE
              /\ srv_nonce_ = 0
              /\ xid_rep_window_ = {0}
              /\ calls_ = {}
              /\ done = [x \in Xids |-> NoReply]
              /\ chan_ = NoConn
              /\ deleted = FALSE
              /\ pc = [t \in Threads |-> "idle"]
              /\ req = [t \in Threads |-> NoReq]
              /\ ch = [t \in Threads |-> NoConn]

-----------------------------------------------------------------------------
(* call1 up to its loop; a call before bind, or a second bind, returns     *)
(* bind_failure and does nothing.                                          *)
call1(t, proc) ==
    /\ pc[t] = "idle"
    /\ ~deleted
    /\ xid_ \in Xids
    /\ proc = "bind" <=> ~bind_done_
    /\ xid_' = xid_ + 1
    /\ calls_' = calls_ \cup {xid_}
    /\ req' = [req EXCEPT ![t] = [xid |-> xid_, proc |-> proc, srv_nonce |-> srv_nonce_,
                                  xid_rep |-> Min(xid_rep_window_)]]
    /\ pc' = [pc EXCEPT ![t] = "transmit"]
    /\ UNCHANGED <<bind_done_, srv_nonce_, xid_rep_window_, done, chan_, deleted, ch, netvars>>

ChanUsable == chan_ # NoConn /\ ~cdead[chan_]

(* What connect_to_dst may return: NULL, or a connection that was not      *)
(* there before, if there is a server to connect to.                       *)
connect_to_dst == {NoConn} \cup {d \in Conns : link[d] = "unused" /\ life = "up"}

(* get_refconn: chan_ and *ch become c (NoConn if connect_to_dst fails).   *)
(* A connection made by connect_to_dst starts with one reference, chan_'s. *)
get_refconn(t, c) ==
    /\ c \in IF ChanUsable THEN {chan_} ELSE connect_to_dst
    /\ chan_' = c
    /\ ch' = [ch EXCEPT ![t] = IF c = NoConn THEN @ ELSE c]
    /\ link' = [d \in Conns |-> IF d = c /\ ~ChanUsable THEN "up" ELSE link[d]]
    /\ crefno' =
         LET chan == IF ChanUsable THEN Taken(NoConn) ELSE Swapped(chan_, c)
             mine == IF c = NoConn THEN Taken(NoConn) ELSE Swapped(ch[t], c)
         IN  Recount(Recount(crefno, chan), mine)

(* One pass of the transmit branch: "only send once on a given channel".   *)
transmit(t) ==
    /\ pc[t] \in {"transmit", "last"}
    /\ \E c \in Conns \cup {NoConn} :
          /\ get_refconn(t, c)
          /\ req_q' = ClientSend(req_q, ch'[t], req[t])
    /\ pc' = [pc EXCEPT ![t] = IF @ = "last" THEN "leaving" ELSE "waiting"]
    /\ UNCHANGED <<xid_, bind_done_, srv_nonce_, xid_rep_window_, calls_, done, deleted, req,
                   rep_q, cdead, sobj, srefno, life>>

(* Mutant: a call is never sent again.                                     *)
MustRetransmitNever(t) == FALSE

(* !ch || ch->isdead()                                                     *)
MustRetransmit(t) == ch[t] \notin {c \in Conns : ~cdead[c]}

(* A wait that times out before the final deadline.                        *)
timeout(t) == /\ pc[t] = "waiting"
              /\ done[req[t].xid] = NoReply
              /\ MustRetransmit(t)
              /\ pc' = [pc EXCEPT ![t] = "transmit"]
              /\ UNCHANGED <<xid_, bind_done_, srv_nonce_, xid_rep_window_, calls_, done, chan_,
                             deleted, req, ch, netvars>>

(* A wait that times out at the final deadline: the loop still goes round  *)
(* once more, and sends once more if the connection is dead.               *)
final_timeout(t) ==
    /\ Deadlines
    /\ pc[t] = "waiting"
    /\ done[req[t].xid] = NoReply
    /\ pc' = [pc EXCEPT ![t] = IF MustRetransmit(t) THEN "last" ELSE "leaving"]
    /\ UNCHANGED <<xid_, bind_done_, srv_nonce_, xid_rep_window_, calls_, done, chan_, deleted, req, ch,
                   netvars>>

(* call1 after its loop: the call is no longer pending, and the caller     *)
(* gets ca.intret or timeout_failure.                                      *)
leave(t) ==
    /\ pc[t] = "leaving" \/ (pc[t] = "waiting" /\ done[req[t].xid] # NoReply)
    /\ calls_' = calls_ \ {req[t].xid}
    /\ xid_rep_window_' = UpdateSet(xid_rep_window_, req[t].xid)
    /\ crefno' = Recount(crefno, Dropped(ch[t]))
    /\ ch' = [ch EXCEPT ![t] = NoConn]
    /\ IF req[t].proc = "bind" /\ done[req[t].xid].ret = "ok"
       THEN pc' = [pc EXCEPT ![t] = "bound"] /\ UNCHANGED req
       ELSE pc' = [pc EXCEPT ![t] = "idle"] /\ req' = [req EXCEPT ![t] = NoReq]
    /\ UNCHANGED <<xid_, bind_done_, srv_nonce_, done, chan_, deleted, link, req_q, rep_q, cdead, sobj,
                   srefno, life>>

(* bind after its call has returned 0.                                     *)
bind_finish(t) ==
    /\ pc[t] = "bound"
    /\ bind_done_' = TRUE
    /\ srv_nonce_' = done[req[t].xid].r
    /\ pc' = [pc EXCEPT ![t] = "idle"]
    /\ req' = [req EXCEPT ![t] = NoReq]
    /\ UNCHANGED <<xid_, xid_rep_window_, calls_, done, chan_, deleted, ch, netvars>>

(* rpcc::got_pdu, called by the client's read_cb on connection c.          *)
client_got_pdu(c) ==
    /\ ~cdead[c]
    /\ rep_q[c] # <<>>
    /\ LET h == Head(rep_q[c])
       IN  /\ xid_rep_window_' = UpdateSet(xid_rep_window_, h.xid)
           /\ done' = IF h.xid \in calls_ /\ done[h.xid] = NoReply
                      THEN [done EXCEPT ![h.xid] = [ret |-> h.ret, r |-> h.r]]
                      ELSE done
    /\ rep_q' = [rep_q EXCEPT ![c] = Tail(@)]
    /\ UNCHANGED <<xid_, bind_done_, srv_nonce_, calls_, chan_, deleted, pc, req, ch,
                   link, req_q, cdead, crefno, sobj, srefno, life>>

(* ~rpcc, which comes "only when no external threads are blocked inside    *)
(* rpcc or will use rpcc in the future": here, after the last call.        *)
delete_client ==
    /\ Teardown
    /\ ~deleted
    /\ xid_ \notin Xids
    /\ \A t \in Threads : pc[t] = "idle"
    /\ deleted' = TRUE
    /\ chan_' = NoConn
    /\ link' = [c \in Conns |-> IF c = chan_ THEN "down" ELSE link[c]]
    /\ cdead' = [c \in Conns |-> cdead[c] \/ c = chan_]
    /\ rep_q' = [c \in Conns |-> IF c = chan_ THEN <<>> ELSE rep_q[c]]
    /\ crefno' = Recount(crefno, Dropped(chan_))
    /\ UNCHANGED <<xid_, bind_done_, srv_nonce_, xid_rep_window_, calls_, done, pc, req, ch, req_q,
                   sobj, srefno, life>>

ClientNext == \/ \E t \in Threads : \/ \E proc \in Procs : call1(t, proc)
                                   \/ transmit(t)
                                   \/ timeout(t)
                                   \/ final_timeout(t)
                                   \/ leave(t)
                                   \/ bind_finish(t)
              \/ \E c \in Conns : client_got_pdu(c)
              \/ delete_client
=============================================================================
