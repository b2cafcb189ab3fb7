----------------------------- MODULE RpcServer -----------------------------
(***************************************************************************)
(* rpcs (rpc.cc, rpc.h) and its listener (tcpsconn in connection.cc) as    *)
(* one client sees them.  Each dispatch thread runs dispatch(), which      *)
(* takes and drops reply_window_m_ and conss_m_ several times: a step here *)
(* is one stretch of code that holds at most one of them.                  *)
(*                                                                         *)
(* reply_window_ is a function from xids, not a list: the code always      *)
(* traverses the whole list, so its order does not matter.                 *)
(***************************************************************************)
EXTENDS RpcNet

CONSTANTS Workers,  \* the threads of dispatchpool_
          MaxInst   \* bound on the server instances started

ASSUME MaxInstAssumption == MaxInst \in Nat \ {0}

ASSUME WorkersAssumption == IsFiniteSet(Workers)

VARIABLES nonce_,        \* the instance, numbered from 1: a random() nonce, unique
          reply_window_, \* "absent", "inprogress" (cb_present false) or "done"
          conns_,        \* rpcs::conns_ for this client: NoConn when it has none
          lconns,        \* tcpsconn::conns_: the connections the listener holds
          jobq,          \* dispatchpool_'s queue of djob_t: <<conn, request>>
          wpc,           \* where worker w is in dispatch
          wc, h,         \* its connection c and the request's header h
          stat,          \* what checkduplicate_and_update returned, "NEW" before
          buf,           \* where its reply b1 is: "own", in the "window", "freed"
          execs          \* history: how often the handler has run for each xid

servervars == <<nonce_, reply_window_, conns_, lconns, jobq, wpc, wc, h, stat, buf, execs>>

WorkerPCs == {"idle", "conns", "check", "exec", "send"}

Stats == {"NEW", "INPROGRESS", "DONE", "FORGOTTEN"}

ServerInit == /\ nonce_ = 1
              /\ reply_window_ = [x \in Xids |-> "absent"]
              /\ conns_ = NoConn
              /\ lconns = {}
              /\ jobq = <<>>
              /\ wpc = [w \in Workers |-> "idle"]
              /\ wc = [w \in Workers |-> NoConn]
              /\ h = [w \in Workers |-> NoReq]
              /\ stat = [w \in Workers |-> "NEW"]
              /\ buf = [w \in Workers |-> "own"]
              /\ execs = [x \in Xids |-> 0]

-----------------------------------------------------------------------------
(* process_accept: a new connection object, and every dead one that only   *)
(* the listener holds is let go.                                           *)
Garbage == {d \in lconns : sobj[d] = "dead" /\ srefno[d] = 1}

process_accept(c) ==
    /\ life = "up"
    /\ link[c] # "unused"
    /\ sobj[c] = "none"
    /\ sobj' = [sobj EXCEPT ![c] = "alive"]
    /\ lconns' = (lconns \ Garbage) \cup {c}
    /\ srefno' = [d \in Conns |-> IF d = c THEN 1 ELSE IF d \in Garbage THEN 0 ELSE srefno[d]]
    /\ UNCHANGED <<nonce_, reply_window_, conns_, jobq, wpc, wc, h, stat, buf, execs,
                   link, req_q, rep_q, cdead, crefno, life>>

(* rpcs::got_pdu, called by read_cb on connection c.                       *)
server_got_pdu(c) ==
    /\ sobj[c] = "alive"
    /\ req_q[c] # <<>>
    /\ jobq' = Append(jobq, <<c, Head(req_q[c])>>)
    /\ req_q' = [req_q EXCEPT ![c] = Tail(@)]
    /\ srefno' = Recount(srefno, Taken(c))
    /\ UNCHANGED <<nonce_, reply_window_, conns_, lconns, wpc, wc, h, stat, buf, execs,
                   link, rep_q, cdead, crefno, sobj, life>>

-----------------------------------------------------------------------------
Reply(x, ret) == [xid |-> x, ret |-> ret, r |-> IF ret = "ok" THEN nonce_ ELSE 0]

(* Mutant: the instance a request is for is not looked at.                 *)
ForOldInstanceNever(m) == FALSE

(* h.srv_nonce != 0 && h.srv_nonce != nonce_                               *)
ForOldInstance(m) == m.srv_nonce \notin {0, nonce_}

(* dispatch's first lines: a request for another instance is refused, and  *)
(* that path does not drop the job's reference to the connection.          *)
dispatch(w) ==
    /\ wpc[w] = "idle"
    /\ jobq # <<>>
    /\ jobq' = Tail(jobq)
    /\ LET c == Head(jobq)[1]
           m == Head(jobq)[2]
       IN  IF ForOldInstance(m)
           THEN /\ rep_q' = ServerSend(c, Reply(m.xid, "oldsrv_failure"))
                /\ UNCHANGED <<wpc, wc, h>>
           ELSE /\ wpc' = [wpc EXCEPT ![w] = "conns"]
                /\ wc' = [wc EXCEPT ![w] = c]
                /\ h' = [h EXCEPT ![w] = m]
                /\ UNCHANGED rep_q
    /\ UNCHANGED <<nonce_, reply_window_, conns_, lconns, stat, buf, execs,
                   link, req_q, cdead, crefno, sobj, srefno, life>>

(* "save the latest good connection to the client"                         *)
save_conn(w) ==
    /\ wpc[w] = "conns"
    /\ conns_' = wc[w]
    /\ srefno' = IF conns_ = wc[w] THEN srefno ELSE Recount(srefno, Swapped(conns_, wc[w]))
    /\ wpc' = [wpc EXCEPT ![w] = "check"]
    /\ UNCHANGED <<nonce_, reply_window_, lconns, jobq, wc, h, stat, buf, execs,
                   link, req_q, rep_q, cdead, crefno, sobj, life>>

(* Mutant: off by one, the first unconfirmed entry goes too.               *)
ConfirmedTooMany(xid_rep) == {x \in Xids : x <= xid_rep + 1}

(* The entries checkduplicate_and_update removes: "confirmed" by xid_rep.  *)
Confirmed(xid_rep) == {x \in Xids : x < xid_rep}

(* Mutant: an entry whose reply is not there yet counts as none.           *)
LookupInProgressIsNew(m, win) ==
    IF m.xid <= m.xid_rep THEN "FORGOTTEN" ELSE IF win[m.xid] = "done" THEN "DONE" ELSE "NEW"

(* Mutant: cb_present is not tested.                                       *)
LookupUntested(m, win) ==
    IF m.xid <= m.xid_rep THEN "FORGOTTEN" ELSE IF win[m.xid] = "absent" THEN "NEW" ELSE "DONE"

(* What it returns, once they are removed.                                 *)
Lookup(m, win) == CASE m.xid <= m.xid_rep -> "FORGOTTEN"
                    [] m.xid > m.xid_rep /\ win[m.xid] = "absent" -> "NEW"
                    [] m.xid > m.xid_rep /\ win[m.xid] = "inprogress" -> "INPROGRESS"
                    [] m.xid > m.xid_rep /\ win[m.xid] = "done" -> "DONE"

(* checkduplicate_and_update and the switch on its result.  Another worker *)
(* may be about to send a reply that is removed here: its buffer is freed. *)
checkduplicate_and_update(w) ==
    /\ wpc[w] = "check"
    /\ LET x == h[w].xid
           old == IF x <= h[w].xid_rep THEN {} ELSE Confirmed(h[w].xid_rep)
           win == [y \in Xids |-> IF y \in old THEN "absent" ELSE reply_window_[y]]
           s == Lookup(h[w], win)
       IN  /\ stat' = [stat EXCEPT ![w] = IF s = "INPROGRESS" THEN "NEW" ELSE s]
           /\ reply_window_' = IF s = "NEW" THEN [win EXCEPT ![x] = "inprogress"] ELSE win
           /\ buf' = [v \in Workers |->
                        IF v = w THEN IF s = "DONE" THEN "window" ELSE "own"
                        ELSE IF buf[v] = "window" /\ h[v].xid \in old THEN "freed"
                        ELSE buf[v]]
           /\ IF s = "INPROGRESS"
              THEN /\ wpc' = [wpc EXCEPT ![w] = "idle"]
                   /\ srefno' = Recount(srefno, Dropped(wc[w]))
                   /\ wc' = [wc EXCEPT ![w] = NoConn]
                   /\ h' = [h EXCEPT ![w] = NoReq]
              ELSE /\ wpc' = [wpc EXCEPT ![w] = IF s = "NEW" THEN "exec" ELSE "send"]
                   /\ UNCHANGED <<srefno, wc, h>>
    /\ UNCHANGED <<nonce_, conns_, lconns, jobq, execs, link, req_q, rep_q, cdead, crefno, sobj,
                   life>>

(* Whether add_reply finds the entry of xid x, which may have been removed *)
(* while the handler ran.                                                  *)
HasEntry(x) == reply_window_[x] # "absent"

(* The window and the workers' buffers after worker w's add_reply for xid  *)
(* x.  A buffer that was in the entry, left by an earlier run of the same  *)
(* call, is dropped from the window but not freed.                         *)
add_reply(w, x) ==
    /\ reply_window_' = IF HasEntry(x) THEN [reply_window_ EXCEPT ![x] = "done"] ELSE reply_window_
    /\ buf' = [v \in Workers |->
                 IF v = w THEN IF HasEntry(x) THEN "window" ELSE "own"
                 ELSE IF HasEntry(x) /\ buf[v] = "window" /\ h[v].xid = x THEN "own"
                 ELSE buf[v]]

(* case NEW: the handler runs to its end and its reply is recorded.        *)
exec(w) ==
    /\ wpc[w] = "exec"
    /\ execs' = [execs EXCEPT ![h[w].xid] = @ + 1]
    /\ add_reply(w, h[w].xid)
    /\ wpc' = [wpc EXCEPT ![w] = "send"]
    /\ UNCHANGED <<nonce_, conns_, lconns, jobq, wc, h, stat, netvars>>

Nonces == 0 .. MaxInst

Replies == [xid : 0 .. MaxXid, ret : Rets, r : Nonces]

(* The PDU c->send(b1, sz1) may put on the wire.  A freed buffer may hold  *)
(* anything: its old bytes, a reply marshalled since, or a request that    *)
(* readpdu has read into the same memory, which has its xid and its proc   *)
(* where a reply has its xid and its ret.                                  *)
Pdus(w) == IF buf[w] = "freed" THEN Replies
           ELSE {Reply(h[w].xid, IF stat[w] = "FORGOTTEN" THEN "atmostonce_failure" ELSE "ok")}

(* The connection dispatch replies on: a new request's reply goes to the   *)
(* client's latest connection if its own is dead, other replies to the     *)
(* connection the request came on.                                         *)
ReplyConn(w) == IF stat[w] = "NEW" /\ sobj[wc[w]] = "dead" THEN conns_ ELSE wc[w]

(* The last lines of dispatch: send the reply, drop the reference.         *)
send(w) ==
    /\ wpc[w] = "send"
    /\ \E m \in Pdus(w) : rep_q' = ServerSend(ReplyConn(w), m)
    /\ wpc' = [wpc EXCEPT ![w] = "idle"]
    /\ wc' = [wc EXCEPT ![w] = NoConn]
    /\ h' = [h EXCEPT ![w] = NoReq]
    /\ stat' = [stat EXCEPT ![w] = "NEW"]
    /\ buf' = [buf EXCEPT ![w] = "own"]
    /\ srefno' = Recount(srefno, Dropped(wc[w]))
    /\ UNCHANGED <<nonce_, reply_window_, conns_, lconns, jobq, execs,
                   link, req_q, cdead, crefno, sobj, life>>

-----------------------------------------------------------------------------
(* ~rpcs deletes the listener, then the pool, then the reply window.       *)
(* ~tcpsconn first ends the accept thread, and connections not accepted    *)
(* yet are lost with the listening socket.                                 *)
delete_listener ==
    /\ Teardown
    /\ life = "up"
    /\ nonce_ < MaxInst
    /\ life' = "closing"
    /\ LET backlog == {c \in Conns : link[c] # "unused" /\ sobj[c] = "none"}
       IN  /\ link' = [c \in Conns |-> IF c \in backlog THEN "down" ELSE link[c]]
           /\ sobj' = [c \in Conns |-> IF c \in backlog THEN "dead" ELSE sobj[c]]
           /\ req_q' = [c \in Conns |-> IF c \in backlog THEN <<>> ELSE req_q[c]]
    /\ UNCHANGED <<nonce_, reply_window_, conns_, lconns, jobq, wpc, wc, h, stat, buf, execs,
                   rep_q, cdead, crefno, srefno>>

(* Then it closes and drops the connections one by one.  closeconn marks   *)
(* the connection dead_ under m_, and read_cb, which holds m_ when it      *)
(* calls got_pdu, does not call it on a dead connection.                   *)
close_conn(c) ==
    /\ life = "closing"
    /\ c \in lconns
    /\ lconns' = lconns \ {c}
    /\ link' = [link EXCEPT ![c] = "down"]
    /\ sobj' = [sobj EXCEPT ![c] = "dead"]
    /\ req_q' = [req_q EXCEPT ![c] = <<>>]
    /\ srefno' = Recount(srefno, Dropped(c))
    /\ UNCHANGED <<nonce_, reply_window_, conns_, jobq, wpc, wc, h, stat, buf, execs,
                   rep_q, cdead, crefno, life>>

(* Mutant: the pool is deleted before the listener.                        *)
ListenerIsDeletedFirst == TRUE

(* "must delete listener before dispatchpool"                              *)
ListenerIsDeleted == lconns = {}

delete_pool == /\ life = "closing"
               /\ ListenerIsDeleted
               /\ life' = "draining"
               /\ UNCHANGED <<servervars, link, req_q, rep_q, cdead, crefno, sobj, srefno>>

(* ~ThrPool has let the workers run every job and joined them; the replies *)
(* are freed.  The references in conns_ are not dropped.                   *)
free_reply_window ==
    /\ life = "draining"
    /\ jobq = <<>>
    /\ \A w \in Workers : wpc[w] = "idle"
    /\ reply_window_' = [x \in Xids |-> "absent"]
    /\ life' = "gone"
    /\ UNCHANGED <<nonce_, conns_, lconns, jobq, wpc, wc, h, stat, buf, execs,
                   link, req_q, rep_q, cdead, crefno, sobj, srefno>>

(* The server process dies, or its rpcs has been deleted, and a new one is *)
(* started: nothing is persistent.                                         *)
restart ==
    /\ nonce_ < MaxInst
    /\ life' = "up"
    /\ nonce_' = nonce_ + 1
    /\ reply_window_' = [x \in Xids |-> "absent"]
    /\ conns_' = NoConn
    /\ lconns' = {}
    /\ jobq' = <<>>
    /\ wpc' = [w \in Workers |-> "idle"]
    /\ wc' = [w \in Workers |-> NoConn]
    /\ h' = [w \in Workers |-> NoReq]
    /\ stat' = [w \in Workers |-> "NEW"]
    /\ buf' = [w \in Workers |-> "own"]
    /\ link' = [c \in Conns |-> IF link[c] = "unused" THEN "unused" ELSE "down"]
    /\ sobj' = [c \in Conns |-> IF link[c] = "unused" THEN "none" ELSE "dead"]
    /\ srefno' = [c \in Conns |-> 0]
    /\ req_q' = [c \in Conns |-> <<>>]
    /\ UNCHANGED <<execs, rep_q, cdead, crefno>>

ServerNext == \/ \E c \in Conns : process_accept(c) \/ server_got_pdu(c)
              \/ \E w \in Workers : \/ dispatch(w)
                                    \/ save_conn(w)
                                    \/ checkduplicate_and_update(w)
                                    \/ exec(w)
                                    \/ send(w)
              \/ \E c \in Conns : close_conn(c)
              \/ delete_listener
              \/ delete_pool
              \/ free_reply_window
              \/ restart
=============================================================================
