-------------------------------- MODULE Rpc --------------------------------
(***************************************************************************)
(* The RPC layer: one rpcc (RpcClient) and one rpcs (RpcServer) joined by  *)
(* connections that may break (RpcNet).                                    *)
(***************************************************************************)
EXTENDS RpcClient, RpcServer

vars == <<netvars, clientvars, servervars>>

Init == NetInit /\ ClientInit /\ ServerInit

(* The state when one bind has succeeded over connection c and all is      *)
(* quiet: where runs about later calls may start.                          *)
BoundInit ==
    \E c \in Conns :
       LET at(v, w) == [d \in Conns |-> IF d = c THEN v ELSE w]
       IN  /\ link = at("up", "unused")
           /\ sobj = at("alive", "none")
           /\ crefno = at(1, 0)
           /\ srefno = at(2, 0)
           /\ cdead = at(FALSE, FALSE)
           /\ req_q = at(<<>>, <<>>)
           /\ rep_q = at(<<>>, <<>>)
           /\ life = "up"
           /\ xid_ = 2
           /\ bind_done_ = TRUE
           /\ srv_nonce_ = 1
           /\ xid_rep_window_ = {1}
           /\ calls_ = {}
           /\ done = [x \in Xids |-> IF x = 1 THEN [ret |-> "ok", r |-> 1] ELSE NoReply]
           /\ chan_ = c
           /\ deleted = FALSE
           /\ pc = [t \in Threads |-> "idle"]
           /\ req = [t \in Threads |-> NoReq]
           /\ ch = [t \in Threads |-> NoConn]
           /\ nonce_ = 1
           /\ reply_window_ = [x \in Xids |-> IF x = 1 THEN "done" ELSE "absent"]
           /\ conns_ = c
           /\ lconns = {c}
           /\ jobq = <<>>
           /\ wpc = [w \in Workers |-> "idle"]
           /\ wc = [w \in Workers |-> NoConn]
           /\ h = [w \in Workers |-> NoReq]
           /\ stat = [w \in Workers |-> "NEW"]
           /\ buf = [w \in Workers |-> "own"]
           /\ execs = [x \in Xids |-> IF x = 1 THEN 1 ELSE 0]

NetNext == \E c \in Conns : Break(c) \/ client_dies(c) \/ server_dies(c)

Next == \/ ClientNext /\ UNCHANGED servervars
        \/ ServerNext /\ UNCHANGED clientvars
        \/ NetNext /\ UNCHANGED <<clientvars, servervars>>

Spec == Init /\ [][Next]_vars

BoundSpec == BoundInit /\ [][Next]_vars

(* Threads are scheduled, clocks reach deadlines, PollMgr goes on serving  *)
(* readable sockets, the listener accepts, handlers end, and both ends     *)
(* hear of a broken connection in the end.  A connect that is tried again  *)
(* and again succeeds as long as connections are left.  Who starts to      *)
(* delete a server goes on and starts another one, as rpctest.cc does.     *)
(* Nothing makes a client call or give up, a connection break or a server  *)
(* stop.                                                                   *)
Fairness ==
    /\ \A t \in Threads :
          /\ WF_vars((transmit(t) \/ timeout(t) \/ leave(t)) /\ UNCHANGED servervars)
          /\ SF_vars(transmit(t) /\ chan_' # NoConn /\ UNCHANGED servervars)
    /\ \A w \in Workers :
          WF_vars((\/ dispatch(w) \/ save_conn(w) \/ checkduplicate_and_update(w)
                   \/ exec(w) \/ send(w)) /\ UNCHANGED clientvars)
    /\ WF_vars(\E c \in Conns : client_got_pdu(c) /\ UNCHANGED servervars)
    /\ WF_vars(\E c \in Conns : process_accept(c) /\ UNCHANGED clientvars)
    /\ WF_vars(\E c \in Conns : server_got_pdu(c) /\ UNCHANGED clientvars)
    /\ WF_vars(\E c \in Conns : (client_dies(c) \/ server_dies(c)) /\ UNCHANGED <<clientvars, servervars>>)
    /\ WF_vars((\/ \E c \in Conns : close_conn(c)
                \/ delete_pool
                \/ free_reply_window
                \/ restart /\ life = "gone") /\ UNCHANGED clientvars)

FairSpec == Spec /\ Fairness

FairBoundSpec == BoundSpec /\ Fairness
-----------------------------------------------------------------------------
Requests == [xid : Xids, proc : Procs, srv_nonce : Nonces, xid_rep : 0 .. MaxXid]

(* The variables have the types rpc.h and connection.h give them.          *)
TypeOK == /\ link \in [Conns -> {"unused", "up", "down"}]
          /\ req_q \in [Conns -> Seq(Requests)]
          /\ rep_q \in [Conns -> Seq(Replies)]
          /\ cdead \in [Conns -> BOOLEAN]
          /\ crefno \in [Conns -> Nat]
          /\ sobj \in [Conns -> {"none", "alive", "dead"}]
          /\ srefno \in [Conns -> Nat]
          /\ life \in {"up", "closing", "draining", "gone"}
          /\ xid_ \in 1 .. (MaxXid + 1)
          /\ bind_done_ \in BOOLEAN
          /\ srv_nonce_ \in Nonces
          /\ xid_rep_window_ \in SUBSET (0 .. MaxXid)
          /\ calls_ \in SUBSET Xids
          /\ done \in [Xids -> {NoReply} \cup [ret : Rets, r : Nonces]]
          /\ chan_ \in Conns \cup {NoConn}
          /\ deleted \in BOOLEAN
          /\ pc \in [Threads -> ClientPCs]
          /\ req \in [Threads -> Requests \cup {NoReq}]
          /\ ch \in [Threads -> Conns \cup {NoConn}]
          /\ nonce_ \in 1 .. MaxInst
          /\ reply_window_ \in [Xids -> {"absent", "inprogress", "done"}]
          /\ conns_ \in Conns \cup {NoConn}
          /\ lconns \in SUBSET Conns
          /\ jobq \in Seq(Conns \X Requests)
          /\ wpc \in [Workers -> WorkerPCs]
          /\ wc \in [Workers -> Conns \cup {NoConn}]
          /\ h \in [Workers -> Requests \cup {NoReq}]
          /\ stat \in [Workers -> Stats]
          /\ buf \in [Workers -> {"own", "window", "freed"}]
          /\ execs \in [Xids -> Nat]

(* The calls whose reply has not reached the client.                       *)
Unanswered == {x \in calls_ : done[x] = NoReply}

(* The xids of requests that are not bind's; bind is packed with nonce 0   *)
(* and may run once on each instance.                                      *)
IsBind(x) == \E t \in Threads : req[t].xid = x /\ req[t].proc = "bind"

(* At most once, as far as the window gives it: until the reply of a call  *)
(* reaches the client, its handler runs at most once, over every loss,     *)
(* retransmission, reordering between connections and restart.             *)
UnansweredRunsAtMostOnce == \A x \in Unanswered : ~IsBind(x) => execs[x] <= 1

(* The reply of a call that may still be retransmitted is not forgotten:   *)
(* trimming by xid_rep never removes an entry the client needs, as long as *)
(* the server is there (~rpcs frees them all).                             *)
NeededReplyKept == \A t \in Threads :
    /\ life # "gone"
    /\ req[t].xid \in Unanswered
    /\ req[t].srv_nonce = nonce_
    /\ execs[req[t].xid] > 0
    => reply_window_[req[t].xid] # "absent"

(* A caller that is told its call succeeded has had its handler run.       *)
OkMeansExecuted == \A x \in Xids : done[x].ret = "ok" => execs[x] > 0

(* How many references to connection c the server's data structures hold.  *)
ServerHolders(c) ==
    Cardinality({i \in DOMAIN jobq : jobq[i][1] = c})
    + Cardinality({w \in Workers : wc[w] = c})
    + (IF conns_ = c THEN 1 ELSE 0) + (IF c \in lconns THEN 1 ELSE 0)

ClientHolders(c) ==
    Cardinality({t \in Threads : ch[t] = c}) + (IF chan_ = c THEN 1 ELSE 0)

(* No one holds a reference that is not counted, so no connection object   *)
(* is deleted while a job, a worker, a call or a map still points to it.   *)
NoUncountedReference == \A c \in Conns : /\ ClientHolders(c) <= crefno[c]
                                         /\ ServerHolders(c) <= srefno[c]

(* And none is counted that no one holds, which would keep a dead object   *)
(* and its socket for ever.                                                *)
NoLeakedReference == \A c \in Conns : /\ crefno[c] <= ClientHolders(c)
                                      /\ srefno[c] <= ServerHolders(c)

(* refno_ is exactly the number of holders.                                *)
ReferencesBalance == NoUncountedReference /\ NoLeakedReference

(* Retransmission works: if one of the connections the client may make is  *)
(* never broken, every call is answered, whatever was lost on the others:  *)
(* again and again a moment comes when no call is without its reply.       *)
OneConnLasts == \E c \in Conns : [](link[c] # "down")

CallsAreAnswered == OneConnLasts => []<>(Unanswered = {})

(* Once ~rpcs has gone on to delete the pool, and once ~rpcc has run, no   *)
(* connection is left that could call got_pdu of the object: a job would   *)
(* come behind the pool's last one, a reply to a caller that is gone.      *)
NoUpcallAfterDelete ==
    /\ life \in {"draining", "gone"} => \A c \in Conns : sobj[c] # "alive"
    /\ deleted => \A c \in Conns : link[c] # "unused" => cdead[c] /\ crefno[c] = 0

-----------------------------------------------------------------------------
(* rpc.h: "provide at most once semantics".  Of a call to one server       *)
(* instance, the handler never runs twice.                                 *)
AtMostOnce == MaxInst = 1 => \A x \in Xids : execs[x] <= 1

(* dispatch sends a duplicate's reply when "we still have the response".   *)
ResponseStillHeld == \A w \in Workers : wpc[w] = "send" => buf[w] # "freed"
=============================================================================
