----------------------------- MODULE RpcProofs -----------------------------
(***************************************************************************)
(* Theorems about Rpc for any finite sets of threads and workers, any      *)
(* connections, xids and server instances: types, references to connection *)
(* objects, the order in which client and server are deleted, how often a  *)
(* handler runs, when its reply may be forgotten and what a reply means to *)
(* the caller.                                                             *)
(***************************************************************************)
EXTENDS Rpc, Counting

(* A thread in call1 has its packed request; out of the loop it holds no   *)
(* connection.                                                             *)
CallsHaveRequests ==
    \A t \in Threads : /\ pc[t] # "idle" => req[t] \in Requests
                       /\ pc[t] \in {"idle", "bound"} => ch[t] = NoConn

(* A worker in dispatch has its job, and from save_conn on the client has  *)
(* a connection.                                                           *)
WorkersHaveJobs ==
    \A w \in Workers : /\ wpc[w] # "idle" => wc[w] \in Conns /\ h[w] \in Requests
                       /\ wpc[w] = "idle" => wc[w] = NoConn
                       /\ wpc[w] \in {"check", "exec", "send"} => conns_ \in Conns

WindowNotEmpty == xid_rep_window_ # {}

(* The client counts exactly; the server counts at least, and exactly when *)
(* there is no other instance a request could be for.                      *)
ClientCounts == \A c \in Conns : crefno[c] = ClientHolders(c)

ServerCounts == \A c \in Conns : /\ ServerHolders(c) <= srefno[c]
                                 /\ MaxInst = 1 => srefno[c] = ServerHolders(c)

(* No one holds a connection before it is made, or accepted.               *)
UnusedUnheld == \A c \in Conns : link[c] = "unused" => /\ chan_ # c /\ sobj[c] = "none"
                                                       /\ \A t \in Threads : ch[t] # c

NoneUncounted == \A c \in Conns : sobj[c] = "none" => srefno[c] = 0

(* The listener holds every live connection, so ~tcpsconn closes it.       *)
AliveIsListed == \A c \in Conns : sobj[c] = "alive" => c \in lconns

(* chan_ is replaced only when it is dead.                                 *)
OthersAreDead == \A c \in Conns : link[c] # "unused" /\ c # chan_ => cdead[c]

DeletedIsQuiet == deleted => chan_ = NoConn /\ \A t \in Threads : pc[t] = "idle"

PoolIsLast == life \in {"draining", "gone"} => \A c \in Conns : sobj[c] # "alive"

RefInv == /\ TypeOK /\ CallsHaveRequests /\ WorkersHaveJobs /\ WindowNotEmpty
          /\ ClientCounts /\ ServerCounts /\ UnusedUnheld /\ NoneUncounted
          /\ AliveIsListed /\ OthersAreDead /\ DeletedIsQuiet /\ PoolIsLast

-----------------------------------------------------------------------------
(* The front of xid_rep_window_, and what update_xid_rep makes of it.      *)

(* A nonempty set of numbers has a least one: the front of the sorted list *)
(* xid_rep_window_.                                                        *)
LEMMA MinOfNats ==
    ASSUME NEW W \in SUBSET Nat, W # {}
    PROVE  Min(W) \in W /\ \A y \in W : Min(W) <= y
<1> DEFINE R == {ss \in Nat \X Nat : ss[1] < ss[2]}
<1>1. IsWellFoundedOn(R, Nat)
  BY NatLessThanWellFounded DEF OpToRel
<1>a. \A y \in Nat, x \in Nat : y < x => <<y, x>> \in R
  OBVIOUS
<1> HIDE DEF R
<1>2. PICK x \in W : \A y \in W : <<y, x>> \notin R
  BY <1>1, WFMin
<1>3. \A y \in W : ~(y < x)
  BY <1>2, <1>a
<1>4. \A y \in W : x <= y
  BY <1>3
<1> QED BY <1>4 DEF Min

(* update_xid_rep keeps the list in bounds and nonempty, adds no xid but   *)
(* the finished one, never moves the front back, and never moves it up to  *)
(* an xid that has not finished.                                           *)
LEMMA UpdateSetKeeps ==
    ASSUME NEW M \in Nat, NEW W \in SUBSET (0 .. M), W # {}, NEW z \in 0 .. M
    PROVE  /\ UpdateSet(W, z) \in SUBSET (0 .. M)
           /\ UpdateSet(W, z) # {}
           /\ UpdateSet(W, z) \subseteq W \cup {z}
           /\ Min(W) <= Min(UpdateSet(W, z))
           /\ \A x \in Nat : Min(W) < x /\ x \notin W /\ x # z => Min(UpdateSet(W, z)) < x
<1>0. W \in SUBSET Nat
  OBVIOUS
<1>1. Min(W) \in W /\ (\A y \in W : Min(W) <= y) /\ Min(W) \in 0 .. M
  BY <1>0, MinOfNats
<1>2. CASE z <= Min(W)
  <2>1. UpdateSet(W, z) = W
    BY <1>2 DEF UpdateSet
  <2> QED BY <1>1, <2>1
<1>3. CASE ~(z <= Min(W))
  <2> DEFINE S == W \cup {z}
             U == {e \in S : \E n \in Min(W) .. (e + 1) : n \notin S}
  <2>1. UpdateSet(W, z) = U
    BY <1>3 DEF UpdateSet
  <2>2. ASSUME NEW x \in Nat, Min(W) < x, x \notin S
        PROVE  \E e \in U : e < x
    <3> DEFINE G == {n \in Nat : Min(W) < n /\ n \notin S}
    <3>1. G \in SUBSET Nat /\ x \in G
      BY <2>2
    <3> HIDE DEF G
    <3>2. Min(G) \in G /\ Min(G) <= x
      BY <3>1, MinOfNats
    <3> DEFINE e == Min(G) - 1
    <3>3. Min(G) \in Nat /\ Min(W) < Min(G) /\ Min(G) \notin S
      BY <3>2 DEF G
    <3>4. e \in Nat /\ Min(W) <= e /\ e < Min(G)
      BY <1>1, <3>3
    <3>5. e \in S
      <4>1. CASE e = Min(W)
        BY <1>1, <4>1
      <4>2. CASE e # Min(W)
        <5>1. e \notin G
          <6> SUFFICES ASSUME e \in G PROVE FALSE
            OBVIOUS
          <6>1. Min(G) <= e
            BY <3>1, MinOfNats
          <6> QED BY <3>3, <3>4, <6>1
        <5>2. Min(W) < e
          BY <1>1, <3>4, <4>2
        <5> QED BY <3>4, <5>1, <5>2 DEF G
      <4> QED BY <4>1, <4>2
    <3>6. Min(G) \in Min(W) .. (e + 1)
      BY <1>1, <3>3
    <3>7. e \in U
      BY <3>3, <3>5, <3>6
    <3>8. e < x
      BY <2>2, <3>2, <3>3
    <3> QED BY <3>7, <3>8
  <2>3. U \subseteq S /\ S \subseteq 0 .. M /\ z > Min(W)
    BY <1>1, <1>3
  <2>4. M + 1 \in Nat /\ M + 1 \notin S /\ Min(W) < M + 1
    BY <1>1, <2>3
  <2>5. U # {}
    BY <2>2, <2>4
  <2> HIDE DEF U
  <2>6. U \in SUBSET Nat /\ S \in SUBSET Nat
    BY <2>3
  <2>7. Min(U) \in U /\ \A y \in U : Min(U) <= y
    BY <2>5, <2>6, MinOfNats
  <2>8. Min(W) <= Min(U)
    <3>1. Min(U) \in S
      BY <2>3, <2>7
    <3> HIDE DEF S
    <3>2. Min(U) \in W \/ Min(U) = z
      BY <3>1 DEF S
    <3>3. CASE Min(U) \in W
      BY <1>1, <3>3
    <3>4. CASE Min(U) = z
      <4>1. Min(W) <= z
        BY <1>1, <2>3
      <4> QED BY <3>4, <4>1
    <3> QED BY <3>2, <3>3, <3>4
  <2>9. \A x \in Nat : Min(W) < x /\ x \notin S => Min(U) < x
    <3> SUFFICES ASSUME NEW x \in Nat, Min(W) < x, x \notin S PROVE Min(U) < x
      OBVIOUS
    <3>1. PICK e \in U : e < x
      BY <2>2
    <3>2. Min(U) <= e /\ Min(U) \in Nat /\ e \in Nat
      BY <2>6, <2>7
    <3> QED BY <3>1, <3>2
  <2> QED BY <2>1, <2>3, <2>5, <2>8, <2>9
<1> QED BY <1>2, <1>3

-----------------------------------------------------------------------------
(* The types, by owner.                                                    *)
NetTypes == /\ link \in [Conns -> {"unused", "up", "down"}]
            /\ req_q \in [Conns -> Seq(Requests)]
            /\ rep_q \in [Conns -> Seq(Replies)]
            /\ cdead \in [Conns -> BOOLEAN]
            /\ sobj \in [Conns -> {"none", "alive", "dead"}]
            /\ life \in {"up", "closing", "draining", "gone"}

ClientTypes == /\ xid_ \in 1 .. (MaxXid + 1)
               /\ bind_done_ \in BOOLEAN
               /\ srv_nonce_ \in Nonces
               /\ xid_rep_window_ \in SUBSET (0 .. MaxXid)
               /\ calls_ \in SUBSET Xids
               /\ done \in [Xids -> {NoReply} \cup [ret : Rets, r : Nonces]]
               /\ chan_ \in Conns \cup {NoConn}
               /\ deleted \in BOOLEAN
               /\ pc \in [Threads -> ClientPCs]
               /\ req \in [Threads -> Requests \cup {NoReq}]
               /\ ch \in [Threads -> Conns \cup {NoConn}]

ServerTypes == /\ nonce_ \in 1 .. MaxInst
               /\ reply_window_ \in [Xids -> {"absent", "inprogress", "done"}]
               /\ conns_ \in Conns \cup {NoConn}
               /\ lconns \in SUBSET Conns
               /\ jobq \in Seq(Conns \X Requests)
               /\ wpc \in [Workers -> WorkerPCs]
               /\ wc \in [Workers -> Conns \cup {NoConn}]
               /\ h \in [Workers -> Requests \cup {NoReq}]
               /\ stat \in [Workers -> Stats]
               /\ buf \in [Workers -> {"own", "window", "freed"}]
               /\ execs \in [Xids -> Nat]

CountTypes == crefno \in [Conns -> Nat] /\ srefno \in [Conns -> Nat]

(* What only the client's, and only the server's, own variables say.       *)
ClientPart == ClientTypes /\ CallsHaveRequests /\ WindowNotEmpty /\ DeletedIsQuiet

ServerPart == ServerTypes /\ WorkersHaveJobs

(* What they say of the connection objects.                                *)
ClientConns == ClientCounts /\ OthersAreDead /\ UnusedUnheld

ServerConns == ServerCounts /\ NoneUncounted /\ AliveIsListed /\ PoolIsLast

(* RefInv is the conjunction of these parts.                               *)
LEMMA RefInvParts ==
    /\ (RefInv <=> (/\ NetTypes /\ CountTypes /\ ClientPart /\ ServerPart
                    /\ ClientConns /\ ServerConns))
    /\ (RefInv' <=> (/\ NetTypes' /\ CountTypes' /\ ClientPart' /\ ServerPart'
                     /\ ClientConns' /\ ServerConns'))
<1>1. TypeOK <=> NetTypes /\ CountTypes /\ ClientTypes /\ ServerTypes
  BY Zenon DEF TypeOK, NetTypes, CountTypes, ClientTypes, ServerTypes
<1>2. TypeOK' <=> NetTypes' /\ CountTypes' /\ ClientTypes' /\ ServerTypes'
  BY Zenon DEF TypeOK, NetTypes, CountTypes, ClientTypes, ServerTypes
<1> QED BY <1>1, <1>2, Zenon DEF RefInv, ClientPart, ServerPart, ClientConns, ServerConns

(* A step that leaves a part's variables alone leaves the part true.       *)
LEMMA ClientPartSame == ClientPart /\ UNCHANGED clientvars => ClientPart'
<1> SUFFICES ASSUME ClientPart, UNCHANGED clientvars PROVE ClientPart'
  OBVIOUS
<1>1. ClientTypes'
  BY DEF ClientPart, ClientTypes, clientvars
<1>2. CallsHaveRequests' /\ WindowNotEmpty' /\ DeletedIsQuiet'
  BY DEF ClientPart, CallsHaveRequests, WindowNotEmpty, DeletedIsQuiet, clientvars
<1> QED BY <1>1, <1>2 DEF ClientPart

LEMMA ServerPartSame == ServerPart /\ UNCHANGED servervars => ServerPart'
<1> SUFFICES ASSUME ServerPart, UNCHANGED servervars PROVE ServerPart'
  OBVIOUS
<1>1. ServerTypes'
  BY DEF ServerPart, ServerTypes, servervars
<1>2. WorkersHaveJobs'
  BY DEF ServerPart, WorkersHaveJobs, servervars
<1> QED BY <1>1, <1>2 DEF ServerPart

LEMMA ClientConnsSame ==
    ASSUME NetTypes, ClientTypes, ClientConns, UNCHANGED <<clientvars, cdead, crefno>>,
           \A c \in Conns : /\ (link'[c] = "unused" <=> link[c] = "unused")
                           /\ (link'[c] = "unused" => sobj'[c] = "none")
    PROVE  ClientConns'
<1>1. ClientCounts'
  BY DEF ClientConns, ClientCounts, ClientHolders, clientvars
<1>0. chan_' = chan_ /\ ch' = ch /\ cdead' = cdead
  BY DEF clientvars
<1>2. OthersAreDead'
  BY <1>0, Zenon DEF ClientConns, OthersAreDead
<1>3. UnusedUnheld'
  BY <1>0, Zenon DEF ClientConns, UnusedUnheld
<1> QED BY <1>1, <1>2, <1>3 DEF ClientConns

LEMMA ServerConnsSame ==
    ServerConns /\ UNCHANGED <<servervars, sobj, srefno, life>> => ServerConns'
<1> SUFFICES ASSUME ServerConns, UNCHANGED <<servervars, sobj, srefno, life>> PROVE ServerConns'
  OBVIOUS
<1>1. ServerCounts'
  BY DEF ServerConns, ServerCounts, ServerHolders, servervars
<1>2. NoneUncounted' /\ AliveIsListed' /\ PoolIsLast'
  BY DEF ServerConns, NoneUncounted, AliveIsListed, PoolIsLast, servervars
<1> QED BY <1>1, <1>2 DEF ServerConns

-----------------------------------------------------------------------------
(* The holders of a connection.                                            *)

(* The jobs of connection c in dispatchpool_'s queue.                      *)
LEMMA JobsAreCounted ==
    ASSUME NEW q \in Seq(Conns \X Requests), NEW c \in Conns
    PROVE  /\ Cardinality({i \in DOMAIN q : q[i][1] = c}) = Count(q, {c} \X Requests)
           /\ Count(q, {c} \X Requests) \in Nat
<1>1. \A i \in DOMAIN q : q[i] \in Conns \X Requests
  BY ElementOfSeq, LenProperties
<1>2. {i \in DOMAIN q : q[i][1] = c} = {i \in DOMAIN q : q[i] \in {c} \X Requests}
  BY <1>1
<1>3. Cardinality({i \in DOMAIN q : q[i][1] = c}) = Count(q, {c} \X Requests)
  BY <1>2 DEF Count
<1> QED BY <1>3, CountNat

(* The holders of c, by kind, and that they are counted with a number.     *)
LEMMA HoldersAreCounted ==
    ASSUME NEW c \in Conns
    PROVE  /\ ClientHolders(c) = Holding(Threads, ch, c) + (IF chan_ = c THEN 1 ELSE 0)
           /\ ClientHolders(c)' = Holding(Threads, ch', c) + (IF chan_' = c THEN 1 ELSE 0)
           /\ \A f : Holding(Threads, f, c) \in Nat
           /\ \A f : Holding(Workers, f, c) \in Nat
           /\ ClientHolders(c) \in Nat /\ ClientHolders(c)' \in Nat
<1>1. \A f : Holding(Threads, f, c) \in Nat
  BY HoldingNat, ThreadsAssumption
<1>2. \A f : Holding(Workers, f, c) \in Nat
  BY HoldingNat, WorkersAssumption
<1>3. ClientHolders(c) = Holding(Threads, ch, c) + (IF chan_ = c THEN 1 ELSE 0)
  BY DEF ClientHolders, Holding
<1>4. ClientHolders(c)' = Holding(Threads, ch', c) + (IF chan_' = c THEN 1 ELSE 0)
  BY DEF ClientHolders, Holding
<1>5. Holding(Threads, ch, c) \in Nat /\ Holding(Threads, ch', c) \in Nat
  BY <1>1
<1> HIDE DEF ClientHolders
<1>6. ClientHolders(c) \in Nat /\ ClientHolders(c)' \in Nat
  BY <1>3, <1>4, <1>5
<1> QED BY <1>1, <1>2, <1>3, <1>4, <1>6

LEMMA ServerHoldersAreCounted ==
    ASSUME ServerTypes, NEW c \in Conns
    PROVE  /\ ServerHolders(c) = Count(jobq, {c} \X Requests) + Holding(Workers, wc, c)
                                 + (IF conns_ = c THEN 1 ELSE 0) + (IF c \in lconns THEN 1 ELSE 0)
           /\ Count(jobq, {c} \X Requests) \in Nat
           /\ ServerHolders(c) \in Nat
<1>1. jobq \in Seq(Conns \X Requests)
  BY DEF ServerTypes
<1>2. Cardinality({i \in DOMAIN jobq : jobq[i][1] = c}) = Count(jobq, {c} \X Requests)
      /\ Count(jobq, {c} \X Requests) \in Nat
  BY <1>1, JobsAreCounted
<1>3. ServerHolders(c) = Count(jobq, {c} \X Requests) + Holding(Workers, wc, c)
                         + (IF conns_ = c THEN 1 ELSE 0) + (IF c \in lconns THEN 1 ELSE 0)
  BY <1>2 DEF ServerHolders, Holding
<1>4. Holding(Workers, wc, c) \in Nat
  BY HoldersAreCounted
<1> QED BY <1>2, <1>3, <1>4

LEMMA ServerHoldersAreCountedNext ==
    ASSUME ServerTypes', NEW c \in Conns
    PROVE  /\ ServerHolders(c)' = Count(jobq', {c} \X Requests) + Holding(Workers, wc', c)
                                  + (IF conns_' = c THEN 1 ELSE 0) + (IF c \in lconns' THEN 1 ELSE 0)
           /\ Count(jobq', {c} \X Requests) \in Nat
           /\ ServerHolders(c)' \in Nat
<1>1. jobq' \in Seq(Conns \X Requests)
  BY DEF ServerTypes
<1>2. Cardinality({i \in DOMAIN jobq' : jobq'[i][1] = c}) = Count(jobq', {c} \X Requests)
      /\ Count(jobq', {c} \X Requests) \in Nat
  BY <1>1, JobsAreCounted
<1>3. ServerHolders(c)' = Count(jobq', {c} \X Requests) + Holding(Workers, wc', c)
                          + (IF conns_' = c THEN 1 ELSE 0) + (IF c \in lconns' THEN 1 ELSE 0)
  BY <1>2 DEF ServerHolders, Holding
<1>4. Holding(Workers, wc', c) \in Nat
  BY HoldersAreCounted
<1> QED BY <1>2, <1>3, <1>4

(* A step that takes and drops as many references as it makes holders.     *)
LEMMA ServerCountsMove ==
    ASSUME ServerTypes, ServerTypes', CountTypes, ServerCounts, NEW D \in [Conns -> Int],
           srefno' = [c \in Conns |-> srefno[c] + D[c]],
           \A c \in Conns : ServerHolders(c)' = ServerHolders(c) + D[c]
    PROVE  ServerCounts' /\ srefno' \in [Conns -> Nat]
<1>1. ASSUME NEW c \in Conns
      PROVE  /\ srefno'[c] \in Nat
             /\ ServerHolders(c)' <= srefno'[c]
             /\ MaxInst = 1 => srefno'[c] = ServerHolders(c)'
  <2>1. srefno[c] \in Nat /\ D[c] \in Int /\ ServerHolders(c) \in Nat /\ ServerHolders(c)' \in Nat
    BY ServerHoldersAreCounted, ServerHoldersAreCountedNext DEF CountTypes
  <2>2. ServerHolders(c) <= srefno[c] /\ (MaxInst = 1 => srefno[c] = ServerHolders(c))
    BY DEF ServerCounts
  <2>3. srefno'[c] = srefno[c] + D[c] /\ ServerHolders(c)' = ServerHolders(c) + D[c]
    OBVIOUS
  <2> HIDE DEF ServerHolders
  <2> QED BY <2>1, <2>2, <2>3
<1>2. ServerCounts'
  BY <1>1 DEF ServerCounts
<1> QED BY <1>1, <1>2

(* The same for the client.                                                *)
LEMMA ClientCountsMove ==
    ASSUME CountTypes, ClientCounts, NEW D \in [Conns -> Int],
           crefno' = [c \in Conns |-> crefno[c] + D[c]],
           \A c \in Conns : ClientHolders(c)' = ClientHolders(c) + D[c]
    PROVE  ClientCounts' /\ crefno' \in [Conns -> Nat]
<1>1. ASSUME NEW c \in Conns
      PROVE  crefno'[c] \in Nat /\ crefno'[c] = ClientHolders(c)'
  <2>1. crefno[c] = ClientHolders(c) /\ ClientHolders(c)' \in Nat
    BY HoldersAreCounted DEF ClientCounts
  <2>2. crefno'[c] = crefno[c] + D[c] /\ ClientHolders(c)' = ClientHolders(c) + D[c]
    OBVIOUS
  <2> QED BY <2>1, <2>2
<1>2. ClientCounts'
  BY <1>1 DEF ClientCounts
<1> QED BY <1>1, <1>2

(* HoldingMoves for the connection of a thread.                            *)
LEMMA ThreadsMove ==
    ASSUME NEW t \in Threads, NEW d, \A u \in Threads : u # t => ch'[u] = ch[u]
    PROVE  /\ ch'[t] = d /\ ch[t] # d => Holding(Threads, ch', d) = Holding(Threads, ch, d) + 1
           /\ ch'[t] # d /\ ch[t] = d => Holding(Threads, ch', d) = Holding(Threads, ch, d) - 1
           /\ (ch'[t] = d <=> ch[t] = d) => Holding(Threads, ch', d) = Holding(Threads, ch, d)
  BY HoldingMoves, ThreadsAssumption

(* The threads that hold d when thread t's connection has changed.         *)
LEMMA ThreadTakes ==
    ASSUME NEW t \in Threads, NEW d \in Conns, \A u \in Threads : u # t => ch'[u] = ch[u]
    PROVE  ClientHolders(d)' = ClientHolders(d) + (IF ch'[t] = d THEN 1 ELSE 0) - (IF ch[t] = d THEN 1 ELSE 0)
                               + (IF chan_' = d THEN 1 ELSE 0) - (IF chan_ = d THEN 1 ELSE 0)
<1>1. /\ ch'[t] = d /\ ch[t] # d => Holding(Threads, ch', d) = Holding(Threads, ch, d) + 1
      /\ ch'[t] # d /\ ch[t] = d => Holding(Threads, ch', d) = Holding(Threads, ch, d) - 1
      /\ (ch'[t] = d <=> ch[t] = d) => Holding(Threads, ch', d) = Holding(Threads, ch, d)
  BY ThreadsMove
<1>2. Holding(Threads, ch, d) \in Nat /\ Holding(Threads, ch', d) \in Nat
  BY HoldersAreCounted
<1>3. /\ ClientHolders(d) = Holding(Threads, ch, d) + (IF chan_ = d THEN 1 ELSE 0)
      /\ ClientHolders(d)' = Holding(Threads, ch', d) + (IF chan_' = d THEN 1 ELSE 0)
  BY HoldersAreCounted
<1> HIDE DEF ClientHolders
<1> QED BY <1>1, <1>2, <1>3

(* HoldingMoves for the connection of a worker.                            *)
LEMMA WorkersMove ==
    ASSUME NEW w \in Workers, NEW d, \A u \in Workers : u # w => wc'[u] = wc[u]
    PROVE  /\ wc'[w] = d /\ wc[w] # d => Holding(Workers, wc', d) = Holding(Workers, wc, d) + 1
           /\ wc'[w] # d /\ wc[w] = d => Holding(Workers, wc', d) = Holding(Workers, wc, d) - 1
           /\ (wc'[w] = d <=> wc[w] = d) => Holding(Workers, wc', d) = Holding(Workers, wc, d)
  BY HoldingMoves, WorkersAssumption

(* The workers that hold d when worker w's connection has changed.         *)
LEMMA WorkerTakes ==
    ASSUME NEW w \in Workers, NEW d \in Conns, \A u \in Workers : u # w => wc'[u] = wc[u]
    PROVE  Holding(Workers, wc', d)
             = Holding(Workers, wc, d) + (IF wc'[w] = d THEN 1 ELSE 0) - (IF wc[w] = d THEN 1 ELSE 0)
<1>1. /\ wc'[w] = d /\ wc[w] # d => Holding(Workers, wc', d) = Holding(Workers, wc, d) + 1
      /\ wc'[w] # d /\ wc[w] = d => Holding(Workers, wc', d) = Holding(Workers, wc, d) - 1
      /\ (wc'[w] = d <=> wc[w] = d) => Holding(Workers, wc', d) = Holding(Workers, wc, d)
  BY WorkersMove
<1>2. Holding(Workers, wc, d) \in Nat /\ Holding(Workers, wc', d) \in Nat
  BY HoldersAreCounted
<1> QED BY <1>1, <1>2

-----------------------------------------------------------------------------
(* The client's steps.                                                     *)

(* A step of a thread that touches no connection.                          *)
LEMMA QuietClientStep ==
    ASSUME RefInv, ClientPart', UNCHANGED <<netvars, servervars, chan_, ch>>
    PROVE  RefInv'
<1>0. /\ NetTypes /\ CountTypes /\ ClientPart /\ ServerPart /\ ClientConns /\ ServerConns
      /\ link' = link /\ cdead' = cdead /\ crefno' = crefno /\ sobj' = sobj /\ srefno' = srefno
      /\ chan_' = chan_ /\ ch' = ch /\ req_q' = req_q /\ rep_q' = rep_q /\ life' = life
  BY RefInvParts DEF netvars
<1>1. NetTypes' /\ CountTypes'
  BY <1>0 DEF NetTypes, CountTypes
<1>2. ClientConns'
  <2>1. ClientCounts'
    BY <1>0 DEF ClientConns, ClientCounts, ClientHolders
  <2>2. OthersAreDead' /\ UnusedUnheld'
    BY <1>0, Zenon DEF ClientConns, OthersAreDead, UnusedUnheld
  <2> QED BY <2>1, <2>2 DEF ClientConns
<1>3. ServerConns'
  BY <1>0, ServerConnsSame
<1>4. ServerPart'
  BY <1>0, ServerPartSame
<1> QED BY <1>1, <1>2, <1>3, <1>4, RefInvParts

(* The request call1 packs.                                                *)
LEMMA PackedRequest ==
    ASSUME ClientTypes, WindowNotEmpty, NEW proc \in Procs, xid_ \in Xids
    PROVE  [xid |-> xid_, proc |-> proc, srv_nonce |-> srv_nonce_,
            xid_rep |-> Min(xid_rep_window_)] \in Requests
<1>1. xid_rep_window_ \in SUBSET Nat /\ xid_rep_window_ # {}
  BY MaxXidAssumption DEF ClientTypes, WindowNotEmpty
<1>2. Min(xid_rep_window_) \in xid_rep_window_
  BY <1>1, MinOfNats
<1>3. Min(xid_rep_window_) \in 0 .. MaxXid /\ srv_nonce_ \in Nonces
  BY <1>2 DEF ClientTypes
<1> QED BY <1>3 DEF Requests

LEMMA Call1Keeps ==
    ASSUME RefInv, NEW t \in Threads, NEW proc \in Procs, call1(t, proc), UNCHANGED servervars
    PROVE  RefInv'
<1> DEFINE m == [xid |-> xid_, proc |-> proc, srv_nonce |-> srv_nonce_,
                 xid_rep |-> Min(xid_rep_window_)]
<1>0. ClientTypes /\ CallsHaveRequests /\ WindowNotEmpty /\ DeletedIsQuiet
  BY RefInvParts DEF ClientPart
<1>1. /\ pc[t] = "idle" /\ ~deleted /\ xid_ \in Xids
      /\ xid_' = xid_ + 1 /\ calls_' = calls_ \cup {xid_}
      /\ req' = [req EXCEPT ![t] = m] /\ pc' = [pc EXCEPT ![t] = "transmit"]
      /\ UNCHANGED <<bind_done_, srv_nonce_, xid_rep_window_, done, chan_, deleted, ch, netvars>>
  BY DEF call1
<1>2. m \in Requests
  BY <1>0, <1>1, PackedRequest
<1> HIDE DEF m
<1>3. xid_' \in 1 .. (MaxXid + 1) /\ calls_' \in SUBSET Xids
  BY <1>0, <1>1, MaxXidAssumption DEF ClientTypes, Xids
<1>4. pc' \in [Threads -> ClientPCs] /\ req' \in [Threads -> Requests \cup {NoReq}]
  BY <1>0, <1>1, <1>2 DEF ClientTypes, ClientPCs
<1>5. ClientTypes'
  BY <1>0, <1>1, <1>3, <1>4 DEF ClientTypes
<1>6. CallsHaveRequests'
  BY <1>0, <1>1, <1>2 DEF ClientTypes, CallsHaveRequests
<1>7. WindowNotEmpty' /\ DeletedIsQuiet'
  BY <1>0, <1>1 DEF WindowNotEmpty, DeletedIsQuiet
<1> QED BY <1>1, <1>5, <1>6, <1>7, QuietClientStep DEF ClientPart

(* timeout and final_timeout: a thread goes on to another place of the     *)
(* loop.                                                                   *)
LEMMA TimeoutKeeps ==
    ASSUME RefInv, NEW t \in Threads, timeout(t) \/ final_timeout(t), UNCHANGED servervars
    PROVE  RefInv'
<1>0. ClientTypes /\ CallsHaveRequests /\ WindowNotEmpty /\ DeletedIsQuiet
  BY RefInvParts DEF ClientPart
<1>1. /\ pc[t] = "waiting"
      /\ \E l \in {"transmit", "last", "leaving"} : pc' = [pc EXCEPT ![t] = l]
      /\ UNCHANGED <<xid_, bind_done_, srv_nonce_, xid_rep_window_, calls_, done, chan_,
                     deleted, req, ch, netvars>>
  BY DEF timeout, final_timeout
<1>2. PICK l \in {"transmit", "last", "leaving"} : pc' = [pc EXCEPT ![t] = l]
  BY <1>1
<1>3. ClientTypes'
  BY <1>0, <1>1, <1>2 DEF ClientTypes, ClientPCs
<1>4. CallsHaveRequests'
  BY <1>0, <1>1, <1>2 DEF ClientTypes, CallsHaveRequests
<1>5. WindowNotEmpty' /\ DeletedIsQuiet'
  BY <1>0, <1>1 DEF WindowNotEmpty, DeletedIsQuiet
<1> QED BY <1>1, <1>3, <1>4, <1>5, QuietClientStep DEF ClientPart

LEMMA BindFinishKeeps ==
    ASSUME RefInv, NEW t \in Threads, bind_finish(t), UNCHANGED servervars
    PROVE  RefInv'
<1>0. ClientTypes /\ CallsHaveRequests /\ WindowNotEmpty /\ DeletedIsQuiet
  BY RefInvParts DEF ClientPart
<1>1. /\ pc[t] = "bound" /\ bind_done_' = TRUE /\ srv_nonce_' = done[req[t].xid].r
      /\ pc' = [pc EXCEPT ![t] = "idle"] /\ req' = [req EXCEPT ![t] = NoReq]
      /\ UNCHANGED <<xid_, xid_rep_window_, calls_, done, chan_, deleted, ch, netvars>>
  BY DEF bind_finish
<1>2. req[t].xid \in Xids
  BY <1>0, <1>1 DEF CallsHaveRequests, Requests
<1>3. done[req[t].xid] \in {NoReply} \cup [ret : Rets, r : Nonces]
  BY <1>0, <1>2 DEF ClientTypes
<1>4. srv_nonce_' \in Nonces
  BY <1>1, <1>3, MaxInstAssumption DEF NoReply, Nonces
<1>5. ClientTypes'
  BY <1>0, <1>1, <1>4 DEF ClientTypes, ClientPCs
<1>6. CallsHaveRequests'
  BY <1>0, <1>1 DEF ClientTypes, CallsHaveRequests
<1>7. WindowNotEmpty' /\ DeletedIsQuiet'
  BY <1>0, <1>1 DEF WindowNotEmpty, DeletedIsQuiet
<1> QED BY <1>1, <1>5, <1>6, <1>7, QuietClientStep DEF ClientPart

LEMMA LeaveKeeps ==
    ASSUME RefInv, NEW t \in Threads, leave(t), UNCHANGED servervars
    PROVE  RefInv'
<1>0. /\ NetTypes /\ CountTypes /\ ServerPart /\ ServerConns
      /\ ClientTypes /\ CallsHaveRequests /\ WindowNotEmpty /\ DeletedIsQuiet
      /\ ClientCounts /\ OthersAreDead /\ UnusedUnheld
  BY RefInvParts DEF ClientPart, ClientConns
<1>1. /\ pc[t] \in {"leaving", "waiting"}
      /\ calls_' = calls_ \ {req[t].xid}
      /\ xid_rep_window_' = UpdateSet(xid_rep_window_, req[t].xid)
      /\ crefno' = Recount(crefno, Dropped(ch[t])) /\ ch' = [ch EXCEPT ![t] = NoConn]
      /\ UNCHANGED <<xid_, bind_done_, srv_nonce_, done, chan_, deleted, link, req_q, rep_q, cdead,
                     sobj, srefno, life>>
  BY DEF leave
<1>2. \/ pc' = [pc EXCEPT ![t] = "bound"] /\ req' = req
      \/ pc' = [pc EXCEPT ![t] = "idle"] /\ req' = [req EXCEPT ![t] = NoReq]
  BY DEF leave
<1>3. req[t].xid \in 0 .. MaxXid
  BY <1>0, <1>1, MaxXidAssumption DEF CallsHaveRequests, Requests, Xids
<1>4. xid_rep_window_' \in SUBSET (0 .. MaxXid) /\ xid_rep_window_' # {}
  <2>1. xid_rep_window_ \in SUBSET (0 .. MaxXid) /\ xid_rep_window_ # {}
    BY <1>0 DEF ClientTypes, WindowNotEmpty
  <2> DEFINE x == req[t].xid
  <2>2. x \in 0 .. MaxXid /\ xid_rep_window_' = UpdateSet(xid_rep_window_, x)
    BY <1>1, <1>3
  <2> HIDE DEF x
  <2>3. UpdateSet(xid_rep_window_, x) \in SUBSET (0 .. MaxXid) /\ UpdateSet(xid_rep_window_, x) # {}
    BY <2>1, <2>2, UpdateSetKeeps, MaxXidAssumption, Zenon
  <2> QED BY <2>2, <2>3
<1>5. ClientTypes'
  <2>1. pc' \in [Threads -> ClientPCs] /\ req' \in [Threads -> Requests \cup {NoReq}]
    BY <1>0, <1>2 DEF ClientTypes, ClientPCs
  <2>2. ch' \in [Threads -> Conns \cup {NoConn}] /\ calls_' \in SUBSET Xids
    BY <1>0, <1>1 DEF ClientTypes
  <2> QED BY <1>0, <1>1, <1>4, <2>1, <2>2 DEF ClientTypes
<1>6. CallsHaveRequests'
  BY <1>0, <1>1, <1>2 DEF ClientTypes, CallsHaveRequests
<1>7. WindowNotEmpty' /\ DeletedIsQuiet'
  BY <1>0, <1>1, <1>4 DEF WindowNotEmpty, DeletedIsQuiet
<1>8. ClientCounts' /\ crefno' \in [Conns -> Nat]
  <2> DEFINE D == Dropped(ch[t])
  <2>1. D \in [Conns -> Int] /\ \A d \in Conns : D[d] = IF ch[t] = d THEN -1 ELSE 0
    BY DEF Dropped
  <2>2. crefno' = [d \in Conns |-> crefno[d] + D[d]]
    BY <1>1 DEF Recount
  <2> HIDE DEF D
  <2>3. ASSUME NEW d \in Conns PROVE ClientHolders(d)' = ClientHolders(d) + D[d]
    <3>1. ch'[t] = NoConn /\ (\A u \in Threads : u # t => ch'[u] = ch[u]) /\ NoConn # d
      BY <1>0, <1>1, NoConnAssumption DEF ClientTypes
    <3>2. ClientHolders(d)' = ClientHolders(d) + (IF ch'[t] = d THEN 1 ELSE 0)
             - (IF ch[t] = d THEN 1 ELSE 0) + (IF chan_' = d THEN 1 ELSE 0) - (IF chan_ = d THEN 1 ELSE 0)
      BY <3>1, ThreadTakes
    <3>3. ClientHolders(d) \in Nat /\ ClientHolders(d)' \in Nat
      BY HoldersAreCounted
    <3> QED BY <1>1, <2>1, <3>1, <3>2, <3>3
  <2> QED BY <1>0, <2>1, <2>2, <2>3, ClientCountsMove
<1>9. OthersAreDead' /\ UnusedUnheld'
  <2>1. OthersAreDead'
    BY <1>0, <1>1 DEF OthersAreDead
  <2>2. UnusedUnheld'
    BY <1>0, <1>1, NoConnAssumption DEF ClientTypes, UnusedUnheld
  <2> QED BY <2>1, <2>2
<1>10. NetTypes' /\ CountTypes'
  BY <1>0, <1>1, <1>8 DEF NetTypes, CountTypes
<1>11. ServerPart' /\ ServerConns'
  BY <1>0, <1>1, ServerPartSame, ServerConnsSame
<1> QED BY <1>5, <1>6, <1>7, <1>8, <1>9, <1>10, <1>11, RefInvParts DEF ClientPart, ClientConns

LEMMA ClientGotPduKeeps ==
    ASSUME RefInv, NEW c \in Conns, client_got_pdu(c), UNCHANGED servervars
    PROVE  RefInv'
<1> DEFINE m == Head(rep_q[c])
<1>0. /\ NetTypes /\ CountTypes /\ ServerPart /\ ServerConns
      /\ ClientTypes /\ CallsHaveRequests /\ WindowNotEmpty /\ DeletedIsQuiet
      /\ ClientCounts /\ OthersAreDead /\ UnusedUnheld
  BY RefInvParts DEF ClientPart, ClientConns
<1>1. /\ rep_q[c] # <<>>
      /\ xid_rep_window_' = UpdateSet(xid_rep_window_, m.xid)
      /\ done' = IF m.xid \in calls_ /\ done[m.xid] = NoReply
                 THEN [done EXCEPT ![m.xid] = [ret |-> m.ret, r |-> m.r]] ELSE done
      /\ rep_q' = [rep_q EXCEPT ![c] = Tail(@)]
      /\ UNCHANGED <<xid_, bind_done_, srv_nonce_, calls_, chan_, deleted, pc, req, ch,
                     link, req_q, cdead, crefno, sobj, srefno, life>>
  BY DEF client_got_pdu
<1>2. rep_q[c] \in Seq(Replies)
  BY <1>0 DEF NetTypes
<1>3. m \in Replies /\ Tail(rep_q[c]) \in Seq(Replies)
  BY <1>1, <1>2, HeadTailProperties
<1> HIDE DEF m
<1>4. m.xid \in 0 .. MaxXid /\ [ret |-> m.ret, r |-> m.r] \in [ret : Rets, r : Nonces]
  BY <1>3 DEF Replies
<1>5. xid_rep_window_' \in SUBSET (0 .. MaxXid) /\ xid_rep_window_' # {}
  <2>1. xid_rep_window_ \in SUBSET (0 .. MaxXid) /\ xid_rep_window_ # {}
    BY <1>0 DEF ClientTypes, WindowNotEmpty
  <2>2. /\ UpdateSet(xid_rep_window_, m.xid) \in SUBSET (0 .. MaxXid)
        /\ UpdateSet(xid_rep_window_, m.xid) # {}
    BY <1>4, <2>1, UpdateSetKeeps, MaxXidAssumption, Zenon
  <2> QED BY <1>1, <2>2
<1>6. done' \in [Xids -> {NoReply} \cup [ret : Rets, r : Nonces]]
  BY <1>0, <1>1, <1>4 DEF ClientTypes
<1>7. ClientTypes'
  BY <1>0, <1>1, <1>5, <1>6 DEF ClientTypes
<1>8. CallsHaveRequests' /\ WindowNotEmpty' /\ DeletedIsQuiet'
  BY <1>0, <1>1, <1>5 DEF CallsHaveRequests, WindowNotEmpty, DeletedIsQuiet
<1>9. NetTypes' /\ CountTypes'
  BY <1>0, <1>1, <1>3 DEF NetTypes, CountTypes
<1>10. ClientCounts'
  BY <1>0, <1>1 DEF ClientCounts, ClientHolders
<1>11. OthersAreDead' /\ UnusedUnheld'
  BY <1>0, <1>1, Zenon DEF OthersAreDead, UnusedUnheld
<1>12. ServerPart' /\ ServerConns'
  BY <1>0, <1>1, ServerPartSame, ServerConnsSame
<1> QED BY <1>7, <1>8, <1>9, <1>10, <1>11, <1>12, RefInvParts DEF ClientPart, ClientConns

LEMMA DeleteClientKeeps ==
    ASSUME RefInv, delete_client, UNCHANGED servervars
    PROVE  RefInv'
<1>0. /\ NetTypes /\ CountTypes /\ ServerPart /\ ServerConns
      /\ ClientTypes /\ CallsHaveRequests /\ WindowNotEmpty /\ DeletedIsQuiet
      /\ ClientCounts /\ OthersAreDead /\ UnusedUnheld
  BY RefInvParts DEF ClientPart, ClientConns
<1>1. /\ \A t \in Threads : pc[t] = "idle"
      /\ deleted' = TRUE /\ chan_' = NoConn
      /\ link' = [c \in Conns |-> IF c = chan_ THEN "down" ELSE link[c]]
      /\ cdead' = [c \in Conns |-> cdead[c] \/ c = chan_]
      /\ rep_q' = [c \in Conns |-> IF c = chan_ THEN <<>> ELSE rep_q[c]]
      /\ crefno' = Recount(crefno, Dropped(chan_))
      /\ UNCHANGED <<xid_, bind_done_, srv_nonce_, xid_rep_window_, calls_, done, pc, req, ch, req_q,
                     sobj, srefno, life>>
  BY DEF delete_client
<1>2. ClientTypes'
  BY <1>0, <1>1 DEF ClientTypes
<1>3. CallsHaveRequests' /\ WindowNotEmpty' /\ DeletedIsQuiet'
  BY <1>0, <1>1 DEF CallsHaveRequests, WindowNotEmpty, DeletedIsQuiet
<1>4. ClientCounts' /\ crefno' \in [Conns -> Nat]
  <2> DEFINE D == Dropped(chan_)
  <2>1. D \in [Conns -> Int] /\ \A d \in Conns : D[d] = IF chan_ = d THEN -1 ELSE 0
    BY DEF Dropped
  <2>2. crefno' = [d \in Conns |-> crefno[d] + D[d]]
    BY <1>1 DEF Recount
  <2> HIDE DEF D
  <2>3. ASSUME NEW d \in Conns PROVE ClientHolders(d)' = ClientHolders(d) + D[d]
    <3>1. /\ ClientHolders(d) = Holding(Threads, ch, d) + (IF chan_ = d THEN 1 ELSE 0)
          /\ ClientHolders(d)' = Holding(Threads, ch', d) + (IF chan_' = d THEN 1 ELSE 0)
          /\ Holding(Threads, ch, d) \in Nat
      BY HoldersAreCounted
    <3>2. ch' = ch /\ chan_' # d
      BY <1>1, NoConnAssumption
    <3> QED BY <2>1, <3>1, <3>2
  <2> QED BY <1>0, <2>1, <2>2, <2>3, ClientCountsMove
<1>5. OthersAreDead'
  BY <1>0, <1>1 DEF NetTypes, OthersAreDead
<1>6. UnusedUnheld'
  BY <1>0, <1>1, NoConnAssumption DEF NetTypes, UnusedUnheld
<1>7. NetTypes'
  <2>1. link' \in [Conns -> {"unused", "up", "down"}] /\ rep_q' \in [Conns -> Seq(Replies)]
    BY <1>0, <1>1 DEF NetTypes
  <2>2. cdead' \in [Conns -> BOOLEAN]
    BY <1>0, <1>1 DEF NetTypes
  <2> QED BY <1>0, <1>1, <2>1, <2>2 DEF NetTypes
<1>8. CountTypes'
  BY <1>0, <1>1, <1>4 DEF CountTypes
<1>9. ServerPart' /\ ServerConns'
  BY <1>0, <1>1, ServerPartSame, ServerConnsSame
<1> QED BY <1>2, <1>3, <1>4, <1>5, <1>6, <1>7, <1>8, <1>9, RefInvParts DEF ClientPart, ClientConns

(* get_refconn: the connection chan_ becomes, and what is true of it.      *)
LEMMA RefconnChoice ==
    ASSUME NEW t \in Threads, NEW c, get_refconn(t, c), ClientTypes, NetTypes, UnusedUnheld
    PROVE  /\ c \in Conns \cup {NoConn}
           /\ ChanUsable => c = chan_ /\ c \in Conns /\ link[c] # "unused" /\ link' = link
           /\ ~ChanUsable => /\ c \in Conns => link[c] = "unused" /\ life = "up"
                             /\ chan_ \in Conns => cdead[chan_]
                             /\ \A d \in Conns : link'[d] = IF d = c THEN "up" ELSE link[d]
<1>1. CASE ChanUsable
  <2>1. c = chan_ /\ c \in Conns
    BY <1>1 DEF get_refconn, ChanUsable, ClientTypes
  <2>2. link' = link
    BY <1>1 DEF get_refconn, NetTypes
  <2> QED BY <1>1, <2>1, <2>2 DEF UnusedUnheld
<1>2. CASE ~ChanUsable
  <2>1. c \in connect_to_dst
    BY <1>2 DEF get_refconn
  <2>2. \A d \in Conns : link'[d] = IF d = c THEN "up" ELSE link[d]
    BY <1>2 DEF get_refconn
  <2>3. chan_ \in Conns => cdead[chan_]
    BY <1>2, NoConnAssumption DEF ChanUsable
  <2> QED BY <1>2, <2>1, <2>2, <2>3, NoConnAssumption DEF connect_to_dst
<1> QED BY <1>1, <1>2

(* get_refconn counts chan_'s reference and the caller's.                  *)
LEMMA RefconnCounts ==
    ASSUME NEW t \in Threads, NEW c, get_refconn(t, c), ClientTypes, NetTypes, CountTypes,
           ClientCounts, UnusedUnheld
    PROVE  ClientCounts' /\ crefno' \in [Conns -> Nat]
<1> DEFINE E(v, d) == IF v = d THEN 1 ELSE 0
           A == [d \in Conns |-> IF ChanUsable THEN 0 ELSE E(c, d) - E(chan_, d)]
           B == [d \in Conns |-> IF c = NoConn THEN 0 ELSE E(c, d) - E(ch[t], d)]
           D == [d \in Conns |-> A[d] + B[d]]
<1>1. chan_' = c /\ ch' = [ch EXCEPT ![t] = IF c = NoConn THEN @ ELSE c]
  BY DEF get_refconn
<1>2. crefno' = [d \in Conns |-> crefno[d] + D[d]]
  <2> DEFINE F == IF ChanUsable THEN Taken(NoConn) ELSE Swapped(chan_, c)
             G == IF c = NoConn THEN Taken(NoConn) ELSE Swapped(ch[t], c)
  <2>1. crefno' = Recount(Recount(crefno, F), G)
    BY DEF get_refconn
  <2>2. ASSUME NEW d \in Conns PROVE F[d] = A[d] /\ G[d] = B[d]
    BY NoConnAssumption DEF Taken, Dropped, Swapped
  <2> HIDE DEF F, G
  <2>3. crefno' = [d \in Conns |-> (crefno[d] + F[d]) + G[d]]
    BY <2>1 DEF Recount
  <2>4. ASSUME NEW d \in Conns PROVE (crefno[d] + F[d]) + G[d] = crefno[d] + D[d]
    <3>1. A[d] \in Int /\ B[d] \in Int /\ crefno[d] \in Int /\ D[d] = A[d] + B[d]
      BY DEF CountTypes
    <3> HIDE DEF A, B, D
    <3> QED BY <2>2, <3>1
  <2> HIDE DEF D
  <2> QED BY <2>3, <2>4
<1>3. D \in [Conns -> Int]
  OBVIOUS
<1>4. ASSUME NEW d \in Conns PROVE ClientHolders(d)' = ClientHolders(d) + D[d]
  <2>1. (\A u \in Threads : u # t => ch'[u] = ch[u]) /\ ch'[t] = IF c = NoConn THEN ch[t] ELSE c
    BY <1>1 DEF ClientTypes
  <2>2. ClientHolders(d)' = ClientHolders(d) + E(ch'[t], d) - E(ch[t], d) + E(chan_', d) - E(chan_, d)
    BY <2>1, ThreadTakes
  <2>3. ClientHolders(d) \in Nat
    BY HoldersAreCounted
  <2>4. ChanUsable => c = chan_
    BY RefconnChoice
  <2>5. D[d] = E(ch'[t], d) - E(ch[t], d) + E(c, d) - E(chan_, d)
    <3>1. CASE c = NoConn
      BY <2>1, <2>4, <3>1, NoConnAssumption
    <3>2. CASE c # NoConn
      BY <2>1, <2>4, <3>2, NoConnAssumption
    <3> QED BY <3>1, <3>2
  <2>6. /\ E(ch'[t], d) \in Int /\ E(ch[t], d) \in Int /\ E(c, d) \in Int /\ E(chan_, d) \in Int
    OBVIOUS
  <2> HIDE DEF D, E
  <2> QED BY <1>1, <2>2, <2>3, <2>5, <2>6
<1> HIDE DEF D
<1> QED BY <1>2, <1>3, <1>4, ClientCountsMove

LEMMA TransmitKeeps ==
    ASSUME RefInv, NEW t \in Threads, transmit(t), UNCHANGED servervars
    PROVE  RefInv'
<1>0. /\ NetTypes /\ CountTypes /\ ServerPart /\ ServerConns
      /\ ClientTypes /\ CallsHaveRequests /\ WindowNotEmpty /\ DeletedIsQuiet
      /\ ClientCounts /\ OthersAreDead /\ UnusedUnheld
  BY RefInvParts DEF ClientPart, ClientConns
<1>1. /\ pc[t] \in {"transmit", "last"}
      /\ pc' = [pc EXCEPT ![t] = IF @ = "last" THEN "leaving" ELSE "waiting"]
      /\ UNCHANGED <<xid_, bind_done_, srv_nonce_, xid_rep_window_, calls_, done, deleted, req,
                     rep_q, cdead, sobj, srefno, life>>
  BY DEF transmit
<1>2. PICK c \in Conns \cup {NoConn} : get_refconn(t, c) /\ req_q' = ClientSend(req_q, ch'[t], req[t])
  BY DEF transmit
<1>3. /\ c \in Conns \cup {NoConn}
      /\ ChanUsable => c = chan_ /\ c \in Conns /\ link[c] # "unused" /\ link' = link
      /\ ~ChanUsable => /\ c \in Conns => link[c] = "unused" /\ life = "up"
                        /\ chan_ \in Conns => cdead[chan_]
                        /\ \A d \in Conns : link'[d] = IF d = c THEN "up" ELSE link[d]
  BY <1>0, <1>2, RefconnChoice
<1>4. /\ chan_' = c /\ ch' = [ch EXCEPT ![t] = IF c = NoConn THEN @ ELSE c]
      /\ link' = [d \in Conns |-> IF d = c /\ ~ChanUsable THEN "up" ELSE link[d]]
  BY <1>2 DEF get_refconn
<1>5. ClientCounts' /\ crefno' \in [Conns -> Nat]
  BY <1>0, <1>2, RefconnCounts
<1>6. chan_' \in Conns \cup {NoConn} /\ ch' \in [Threads -> Conns \cup {NoConn}] /\ pc' \in [Threads -> ClientPCs]
  BY <1>0, <1>1, <1>3, <1>4 DEF ClientTypes, ClientPCs
<1>7. ClientTypes'
  BY <1>0, <1>1, <1>6 DEF ClientTypes
<1>8. CallsHaveRequests' /\ WindowNotEmpty' /\ DeletedIsQuiet'
  <2>1. CallsHaveRequests'
    BY <1>0, <1>1, <1>4 DEF ClientTypes, CallsHaveRequests
  <2>2. WindowNotEmpty' /\ DeletedIsQuiet'
    BY <1>0, <1>1 DEF WindowNotEmpty, DeletedIsQuiet
  <2> QED BY <2>1, <2>2
<1>9. OthersAreDead'
  <2> SUFFICES ASSUME NEW d \in Conns, link'[d] # "unused", d # chan_' PROVE cdead'[d]
    BY Zenon DEF OthersAreDead
  <2>1. link[d] # "unused" /\ d # c
    BY <1>3, <1>4
  <2>2. CASE d = chan_
    BY <1>1, <1>3, <2>1, <2>2
  <2>3. CASE d # chan_
    BY <1>0, <1>1, <2>1, <2>3 DEF OthersAreDead
  <2> QED BY <2>2, <2>3
<1>10. UnusedUnheld'
  <2> SUFFICES ASSUME NEW d \in Conns, link'[d] = "unused"
               PROVE  chan_' # d /\ sobj'[d] = "none" /\ \A u \in Threads : ch'[u] # d
    BY Zenon DEF UnusedUnheld
  <2>1. link[d] = "unused" /\ d # c
    BY <1>3, <1>4
  <2>2. chan_ # d /\ sobj[d] = "none" /\ \A u \in Threads : ch[u] # d
    BY <1>0, <2>1 DEF UnusedUnheld
  <2>3. \A u \in Threads : ch'[u] # d
    BY <1>0, <1>4, <2>1, <2>2 DEF ClientTypes
  <2> QED BY <1>1, <1>4, <2>1, <2>2, <2>3
<1>11. NetTypes'
  <2>1. req[t] \in Requests
    BY <1>0, <1>1 DEF CallsHaveRequests
  <2>2. req_q' \in [Conns -> Seq(Requests)]
    <3>1. ch'[t] \in Conns \cup {NoConn}
      BY <1>6
    <3>2. CASE req_q' = req_q
      BY <1>0, <3>2 DEF NetTypes
    <3>3. CASE ch'[t] \in Conns /\ req_q' = [req_q EXCEPT ![ch'[t]] = Append(@, req[t])]
      BY <1>0, <2>1, <3>3 DEF NetTypes
    <3> QED BY <1>2, <3>1, <3>2, <3>3 DEF ClientSend
  <2>3. link' \in [Conns -> {"unused", "up", "down"}]
    BY <1>0, <1>4 DEF NetTypes
  <2> QED BY <1>0, <1>1, <2>2, <2>3 DEF NetTypes
<1>12. CountTypes'
  BY <1>0, <1>1, <1>5 DEF CountTypes
<1>13. ServerPart' /\ ServerConns'
  BY <1>0, <1>1, ServerPartSame, ServerConnsSame
<1> QED BY <1>5, <1>7, <1>8, <1>9, <1>10, <1>11, <1>12, <1>13, RefInvParts DEF ClientPart, ClientConns

(* A connection breaks, or one of its ends notices.                        *)
LEMMA NetKeeps ==
    ASSUME RefInv, NEW c \in Conns, Break(c) \/ client_dies(c) \/ server_dies(c),
           UNCHANGED <<clientvars, servervars>>
    PROVE  RefInv'
<1>0. /\ NetTypes /\ CountTypes /\ ClientPart /\ ServerPart /\ ServerConns
      /\ ClientTypes /\ ClientCounts /\ OthersAreDead /\ UnusedUnheld
      /\ ServerCounts /\ NoneUncounted /\ AliveIsListed /\ PoolIsLast
  BY RefInvParts DEF ClientPart, ClientConns, ServerConns
<1>1. ClientPart' /\ ServerPart'
  BY <1>0, ClientPartSame, ServerPartSame
<1>2. /\ link[c] # "unused" /\ link' \in {link, [link EXCEPT ![c] = "down"]}
      /\ cdead' \in {cdead, [cdead EXCEPT ![c] = TRUE]}
      /\ sobj' = sobj \/ (sobj[c] = "alive" /\ sobj' = [sobj EXCEPT ![c] = "dead"])
      /\ req_q' \in {req_q, [req_q EXCEPT ![c] = <<>>]} /\ rep_q' \in {rep_q, [rep_q EXCEPT ![c] = <<>>]}
      /\ UNCHANGED <<crefno, srefno, life>>
  BY Zenon DEF Break, client_dies, server_dies
<1>3. NetTypes' /\ CountTypes'
  <2>1. link' \in [Conns -> {"unused", "up", "down"}] /\ sobj' \in [Conns -> {"none", "alive", "dead"}]
    BY <1>0, <1>2 DEF NetTypes
  <2>2. cdead' \in [Conns -> BOOLEAN]
    BY <1>0, <1>2 DEF NetTypes
  <2>3. req_q' \in [Conns -> Seq(Requests)] /\ rep_q' \in [Conns -> Seq(Replies)]
    <3>1. req_q' = req_q \/ req_q' = [req_q EXCEPT ![c] = <<>>]
      BY <1>2
    <3>2. rep_q' = rep_q \/ rep_q' = [rep_q EXCEPT ![c] = <<>>]
      BY <1>2
    <3>3. <<>> \in Seq(Requests) /\ <<>> \in Seq(Replies)
      OBVIOUS
    <3>4. req_q \in [Conns -> Seq(Requests)] /\ rep_q \in [Conns -> Seq(Replies)]
      BY <1>0 DEF NetTypes
    <3>5. req_q' \in [Conns -> Seq(Requests)]
      BY <3>1, <3>3, <3>4
    <3>6. rep_q' \in [Conns -> Seq(Replies)]
      BY <3>2, <3>3, <3>4
    <3> QED BY <3>5, <3>6
  <2> QED BY <1>0, <1>2, <2>1, <2>2, <2>3 DEF NetTypes, CountTypes
<1>4. \A d \in Conns : /\ (link'[d] = "unused" <=> link[d] = "unused")
                       /\ (sobj'[d] = "none" <=> sobj[d] = "none")
                       /\ (sobj'[d] = "alive" => sobj[d] = "alive")
  BY <1>0, <1>2 DEF NetTypes
<1>5. chan_' = chan_ /\ ch' = ch /\ lconns' = lconns
  BY DEF clientvars, servervars
<1>6. ClientCounts'
  BY <1>0, <1>2, <1>5 DEF ClientCounts, ClientHolders
<1>7. OthersAreDead'
  <2>1. \A d \in Conns : cdead[d] => cdead'[d]
    BY <1>0, <1>2 DEF NetTypes
  <2> QED BY <1>0, <1>4, <1>5, <2>1 DEF OthersAreDead
<1>8. UnusedUnheld'
  BY <1>0, <1>4, <1>5 DEF UnusedUnheld
<1>9. ServerCounts'
  BY <1>0, <1>2 DEF ServerCounts, ServerHolders, servervars
<1>10. NoneUncounted' /\ AliveIsListed' /\ PoolIsLast'
  BY <1>0, <1>2, <1>4, <1>5 DEF NoneUncounted, AliveIsListed, PoolIsLast
<1> QED BY <1>1, <1>3, <1>6, <1>7, <1>8, <1>9, <1>10, RefInvParts DEF ClientConns, ServerConns

-----------------------------------------------------------------------------
(* The server's steps.                                                     *)

(* No worker, job or table holds a connection the server has not accepted. *)
LEMMA NoneUnheld ==
    ASSUME ServerTypes, ServerCounts, NoneUncounted, NEW c \in Conns, sobj[c] = "none"
    PROVE  /\ Count(jobq, {c} \X Requests) = 0 /\ Holding(Workers, wc, c) = 0
           /\ conns_ # c /\ c \notin lconns
<1>1. ServerHolders(c) <= 0
  BY DEF ServerCounts, NoneUncounted
<1>2. /\ ServerHolders(c) = Count(jobq, {c} \X Requests) + Holding(Workers, wc, c)
                           + (IF conns_ = c THEN 1 ELSE 0) + (IF c \in lconns THEN 1 ELSE 0)
      /\ Count(jobq, {c} \X Requests) \in Nat
  BY ServerHoldersAreCounted
<1>3. Holding(Workers, wc, c) \in Nat
  BY HoldersAreCounted
<1> QED BY <1>1, <1>2, <1>3

(* A step of the server that makes no connection used or unused.           *)
LEMMA ServerStepKeeps ==
    ASSUME RefInv, NetTypes', srefno' \in [Conns -> Nat], ServerPart', ServerConns',
           UNCHANGED <<clientvars, cdead, crefno>>,
           \A c \in Conns : /\ (link'[c] = "unused" <=> link[c] = "unused")
                            /\ (link'[c] = "unused" => sobj'[c] = "none")
    PROVE  RefInv'
<1>0. NetTypes /\ CountTypes /\ ClientPart /\ ClientTypes /\ ClientConns
  BY RefInvParts DEF ClientPart
<1>1. ClientPart'
  BY <1>0, ClientPartSame
<1>2. ClientConns'
  BY <1>0, ClientConnsSame
<1>3. CountTypes'
  BY <1>0 DEF CountTypes
<1> QED BY <1>1, <1>2, <1>3, RefInvParts

(* An unused connection is not accepted.                                   *)
LEMMA UnusedIsNone ==
    ASSUME RefInv, UNCHANGED <<link, sobj>>
    PROVE  \A c \in Conns : /\ (link'[c] = "unused" <=> link[c] = "unused")
                            /\ (link'[c] = "unused" => sobj'[c] = "none")
<1>1. UnusedUnheld
  BY RefInvParts DEF ClientConns
<1> QED BY <1>1 DEF UnusedUnheld

LEMMA ProcessAcceptKeeps ==
    ASSUME RefInv, NEW c \in Conns, process_accept(c), UNCHANGED clientvars
    PROVE  RefInv'
<1>0. /\ NetTypes /\ CountTypes /\ ServerTypes /\ WorkersHaveJobs /\ UnusedUnheld
      /\ ServerCounts /\ NoneUncounted /\ AliveIsListed /\ PoolIsLast
  BY RefInvParts DEF ServerPart, ServerConns, ClientConns
<1>1. /\ life = "up" /\ link[c] # "unused" /\ sobj[c] = "none"
      /\ sobj' = [sobj EXCEPT ![c] = "alive"]
      /\ lconns' = (lconns \ Garbage) \cup {c}
      /\ srefno' = [d \in Conns |-> IF d = c THEN 1 ELSE IF d \in Garbage THEN 0 ELSE srefno[d]]
      /\ UNCHANGED <<nonce_, reply_window_, conns_, jobq, wpc, wc, h, stat, buf, execs,
                     link, req_q, rep_q, cdead, crefno, life>>
  BY DEF process_accept
<1>2. NetTypes'
  BY <1>0, <1>1 DEF NetTypes
<1>3. ServerTypes' /\ WorkersHaveJobs'
  <2>1. lconns' \in SUBSET Conns
    BY <1>0, <1>1 DEF ServerTypes
  <2>2. ServerTypes'
    BY <1>0, <1>1, <2>1 DEF ServerTypes
  <2>3. WorkersHaveJobs'
    BY <1>0, <1>1 DEF WorkersHaveJobs
  <2> QED BY <2>2, <2>3
<1>4. ASSUME NEW d \in Conns
      PROVE  /\ srefno'[d] \in Nat
             /\ ServerHolders(d)' <= srefno'[d]
             /\ MaxInst = 1 => srefno'[d] = ServerHolders(d)'
  <2> DEFINE J == Count(jobq, {d} \X Requests)
             W == Holding(Workers, wc, d)
  <2>1. /\ ServerHolders(d) = J + W + (IF conns_ = d THEN 1 ELSE 0) + (IF d \in lconns THEN 1 ELSE 0)
        /\ J \in Nat
    BY <1>0, ServerHoldersAreCounted
  <2>2. ServerHolders(d)' = J + W + (IF conns_ = d THEN 1 ELSE 0) + (IF d \in lconns' THEN 1 ELSE 0)
    BY <1>1, <1>3, ServerHoldersAreCountedNext
  <2>3. W \in Nat
    BY HoldersAreCounted
  <2>4. srefno[d] \in Nat /\ ServerHolders(d) <= srefno[d] /\ (MaxInst = 1 => srefno[d] = ServerHolders(d))
    BY <1>0 DEF CountTypes, ServerCounts
  <2>5. d = c => J = 0 /\ W = 0 /\ conns_ # d /\ d \notin lconns
    BY <1>0, <1>1, NoneUnheld
  <2> HIDE DEF J, W, ServerHolders
  <2>6. CASE d = c
    <3>1. srefno'[d] = 1 /\ d \in lconns'
      BY <1>1, <2>6
    <3> QED BY <2>2, <2>5, <2>6, <3>1
  <2>7. CASE d # c /\ d \in Garbage
    <3>1. srefno'[d] = 0 /\ d \notin lconns' /\ d \in lconns /\ srefno[d] = 1
      BY <1>1, <2>7 DEF Garbage
    <3> QED BY <2>1, <2>2, <2>3, <2>4, <3>1
  <2>8. CASE d # c /\ d \notin Garbage
    <3>1. srefno'[d] = srefno[d] /\ (d \in lconns' <=> d \in lconns)
      BY <1>1, <2>8
    <3> QED BY <2>1, <2>2, <2>3, <2>4, <3>1
  <2> QED BY <2>6, <2>7, <2>8
<1>5. ServerCounts' /\ srefno' \in [Conns -> Nat]
  <2>1. ServerCounts'
    BY <1>4 DEF ServerCounts
  <2>2. \A d \in Conns : srefno'[d] \in Nat
    BY <1>4
  <2>3. srefno' = [d \in Conns |-> srefno'[d]]
    BY <1>1
  <2> QED BY <2>1, <2>2, <2>3
<1>6. NoneUncounted'
  <2> SUFFICES ASSUME NEW d \in Conns, sobj'[d] = "none" PROVE srefno'[d] = 0
    BY DEF NoneUncounted
  <2>1. d # c /\ sobj[d] = "none"
    BY <1>0, <1>1 DEF NetTypes
  <2> QED BY <1>0, <1>1, <2>1 DEF NoneUncounted
<1>7. AliveIsListed' /\ PoolIsLast'
  BY <1>0, <1>1 DEF NetTypes, AliveIsListed, PoolIsLast, Garbage
<1>8. \A d \in Conns : /\ (link'[d] = "unused" <=> link[d] = "unused")
                       /\ (link'[d] = "unused" => sobj'[d] = "none")
  BY <1>0, <1>1 DEF NetTypes, UnusedUnheld
<1> QED BY <1>1, <1>2, <1>3, <1>5, <1>6, <1>7, <1>8, ServerStepKeeps DEF ServerPart, ServerConns

LEMMA ServerGotPduKeeps ==
    ASSUME RefInv, NEW c \in Conns, server_got_pdu(c), UNCHANGED clientvars
    PROVE  RefInv'
<1> DEFINE m == Head(req_q[c])
<1>0. /\ NetTypes /\ CountTypes /\ ServerTypes /\ WorkersHaveJobs
      /\ ServerCounts /\ NoneUncounted /\ AliveIsListed /\ PoolIsLast
  BY RefInvParts DEF ServerPart, ServerConns
<1>1. /\ sobj[c] = "alive" /\ req_q[c] # <<>>
      /\ jobq' = Append(jobq, <<c, m>>)
      /\ req_q' = [req_q EXCEPT ![c] = Tail(@)]
      /\ srefno' = Recount(srefno, Taken(c))
      /\ UNCHANGED <<nonce_, reply_window_, conns_, lconns, wpc, wc, h, stat, buf, execs,
                     link, rep_q, cdead, crefno, sobj, life>>
  BY DEF server_got_pdu
<1>2. m \in Requests /\ Tail(req_q[c]) \in Seq(Requests)
  <2>1. req_q[c] \in Seq(Requests)
    BY <1>0 DEF NetTypes
  <2> QED BY <1>1, <2>1, HeadTailProperties
<1> HIDE DEF m
<1>3. NetTypes'
  BY <1>0, <1>1, <1>2 DEF NetTypes
<1>4. ServerTypes' /\ WorkersHaveJobs'
  <2>1. jobq \in Seq(Conns \X Requests) /\ <<c, m>> \in Conns \X Requests
    BY <1>0, <1>2 DEF ServerTypes
  <2>2. jobq' \in Seq(Conns \X Requests)
    BY <1>1, <2>1, AppendProperties
  <2>3. ServerTypes'
    BY <1>0, <1>1, <2>2 DEF ServerTypes
  <2>4. WorkersHaveJobs'
    BY <1>0, <1>1 DEF WorkersHaveJobs
  <2> QED BY <2>3, <2>4
<1>5. ServerCounts' /\ srefno' \in [Conns -> Nat]
  <2> DEFINE D == Taken(c)
  <2>1. D \in [Conns -> Int] /\ \A d \in Conns : D[d] = IF d = c THEN 1 ELSE 0
    BY DEF Taken
  <2>2. srefno' = [d \in Conns |-> srefno[d] + D[d]]
    BY <1>1 DEF Recount
  <2> HIDE DEF D
  <2>3. ASSUME NEW d \in Conns PROVE ServerHolders(d)' = ServerHolders(d) + D[d]
    <3>1. /\ ServerHolders(d) = Count(jobq, {d} \X Requests) + Holding(Workers, wc, d)
                                + (IF conns_ = d THEN 1 ELSE 0) + (IF d \in lconns THEN 1 ELSE 0)
          /\ Count(jobq, {d} \X Requests) \in Nat
      BY <1>0, ServerHoldersAreCounted
    <3>2. ServerHolders(d)' = Count(jobq', {d} \X Requests) + Holding(Workers, wc, d)
                              + (IF conns_ = d THEN 1 ELSE 0) + (IF d \in lconns THEN 1 ELSE 0)
      BY <1>1, <1>4, ServerHoldersAreCountedNext
    <3>3. Holding(Workers, wc, d) \in Nat
      BY HoldersAreCounted
    <3>4. Count(jobq', {d} \X Requests) = Count(jobq, {d} \X Requests) + D[d]
      <4>1. jobq \in Seq(Conns \X Requests) /\ <<c, m>> \in Conns \X Requests
        BY <1>0, <1>2 DEF ServerTypes
      <4>2. Count(Append(jobq, <<c, m>>), {d} \X Requests)
              = Count(jobq, {d} \X Requests) + (IF <<c, m>> \in {d} \X Requests THEN 1 ELSE 0)
        BY <4>1, CountAppend
      <4>3. <<c, m>> \in {d} \X Requests <=> d = c
        BY <1>2
      <4> QED BY <1>1, <2>1, <4>2, <4>3
    <3>5. D[d] \in Int
      BY <2>1
    <3> HIDE DEF ServerHolders
    <3> QED BY <3>1, <3>2, <3>3, <3>4, <3>5
  <2> QED BY <1>0, <1>4, <2>1, <2>2, <2>3, ServerCountsMove
<1>6. NoneUncounted'
  BY <1>0, <1>1 DEF NoneUncounted, Recount, Taken, CountTypes
<1>7. AliveIsListed' /\ PoolIsLast'
  BY <1>0, <1>1 DEF AliveIsListed, PoolIsLast
<1> QED BY <1>1, <1>3, <1>4, <1>5, <1>6, <1>7, UnusedIsNone, ServerStepKeeps DEF ServerPart, ServerConns

(* connection::send on the server's side.                                  *)
LEMMA ReplySent ==
    ASSUME NetTypes, NEW c \in Conns, NEW p \in Replies, rep_q' = ServerSend(c, p)
    PROVE  rep_q' \in [Conns -> Seq(Replies)]
<1>1. rep_q \in [Conns -> Seq(Replies)]
  BY DEF NetTypes
<1>2. CASE rep_q' = rep_q
  BY <1>1, <1>2
<1>3. CASE rep_q' = [rep_q EXCEPT ![c] = Append(@, p)]
  BY <1>1, <1>3
<1> QED BY <1>2, <1>3 DEF ServerSend

LEMMA ReplyTypes ==
    ASSUME ServerTypes, NEW x \in 0 .. MaxXid, NEW ret \in Rets
    PROVE  Reply(x, ret) \in Replies
<1>1. nonce_ \in Nonces /\ 0 \in Nonces
  BY MaxInstAssumption DEF ServerTypes, Nonces
<1> QED BY <1>1 DEF Reply, Replies

(* A request can be for another instance only if there are several.        *)
LEMMA OneInstance ==
    ASSUME ServerTypes, NEW m \in Requests, MaxInst = 1 PROVE ~ForOldInstance(m)
<1>1. m.srv_nonce \in 0 .. 1 /\ nonce_ \in 1 .. 1
  BY DEF ServerTypes, Requests, Nonces
<1> QED BY <1>1 DEF ForOldInstance

LEMMA DispatchKeeps ==
    ASSUME RefInv, NEW w \in Workers, dispatch(w), UNCHANGED clientvars
    PROVE  RefInv'
<1> DEFINE c == Head(jobq)[1]
           m == Head(jobq)[2]
<1>0. /\ NetTypes /\ CountTypes /\ ServerTypes /\ WorkersHaveJobs
      /\ ServerCounts /\ NoneUncounted /\ AliveIsListed /\ PoolIsLast
  BY RefInvParts DEF ServerPart, ServerConns
<1>1. /\ wpc[w] = "idle" /\ jobq # <<>> /\ jobq' = Tail(jobq)
      /\ UNCHANGED <<nonce_, reply_window_, conns_, lconns, stat, buf, execs,
                     link, req_q, cdead, crefno, sobj, srefno, life>>
  BY DEF dispatch
<1>2. \/ /\ ForOldInstance(m)
         /\ rep_q' = ServerSend(c, Reply(m.xid, "oldsrv_failure"))
         /\ UNCHANGED <<wpc, wc, h>>
      \/ /\ wpc' = [wpc EXCEPT ![w] = "conns"]
         /\ wc' = [wc EXCEPT ![w] = c]
         /\ h' = [h EXCEPT ![w] = m]
         /\ UNCHANGED rep_q
  BY DEF dispatch
<1>3. jobq \in Seq(Conns \X Requests)
  BY <1>0 DEF ServerTypes
<1>4. Head(jobq) \in Conns \X Requests /\ jobq' \in Seq(Conns \X Requests)
  BY <1>1, <1>3, HeadTailProperties
<1>5. c \in Conns /\ m \in Requests /\ Head(jobq) = <<c, m>>
  BY <1>4
<1> HIDE DEF c, m
<1>6. NetTypes'
  <2>1. m.xid \in 0 .. MaxXid
    BY <1>5, MaxXidAssumption DEF Requests, Xids
  <2>2. Reply(m.xid, "oldsrv_failure") \in Replies
    BY <1>0, <2>1, ReplyTypes DEF Rets
  <2>3. rep_q' \in [Conns -> Seq(Replies)]
    <3>1. CASE rep_q' = rep_q
      BY <1>0, <3>1 DEF NetTypes
    <3>2. CASE rep_q' = ServerSend(c, Reply(m.xid, "oldsrv_failure"))
      BY <1>0, <1>5, <2>2, <3>2, ReplySent
    <3> QED BY <1>2, <3>1, <3>2
  <2> QED BY <1>0, <1>1, <2>3 DEF NetTypes
<1>7. ServerTypes'
  <2>1. wpc' \in [Workers -> WorkerPCs] /\ wc' \in [Workers -> Conns \cup {NoConn}]
        /\ h' \in [Workers -> Requests \cup {NoReq}]
    BY <1>0, <1>2, <1>5 DEF ServerTypes, WorkerPCs
  <2> QED BY <1>0, <1>1, <1>4, <2>1 DEF ServerTypes
<1>8. WorkersHaveJobs'
  BY <1>0, <1>1, <1>2, <1>5 DEF ServerTypes, WorkersHaveJobs
<1>9. ASSUME NEW d \in Conns
      PROVE  /\ ServerHolders(d)' <= ServerHolders(d)
             /\ MaxInst = 1 => ServerHolders(d)' = ServerHolders(d)
             /\ ServerHolders(d)' \in Nat /\ ServerHolders(d) \in Nat
  <2> DEFINE one == IF d = c THEN 1 ELSE 0
  <2>1. /\ ServerHolders(d) = Count(jobq, {d} \X Requests) + Holding(Workers, wc, d)
                              + (IF conns_ = d THEN 1 ELSE 0) + (IF d \in lconns THEN 1 ELSE 0)
        /\ Count(jobq, {d} \X Requests) \in Nat
        /\ ServerHolders(d) \in Nat
    BY <1>0, ServerHoldersAreCounted
  <2>2. /\ ServerHolders(d)' = Count(jobq', {d} \X Requests) + Holding(Workers, wc', d)
                               + (IF conns_ = d THEN 1 ELSE 0) + (IF d \in lconns THEN 1 ELSE 0)
        /\ Count(jobq', {d} \X Requests) \in Nat
        /\ ServerHolders(d)' \in Nat
    BY <1>1, <1>7, ServerHoldersAreCountedNext
  <2>3. Holding(Workers, wc, d) \in Nat /\ Holding(Workers, wc', d) \in Nat
    BY HoldersAreCounted
  <2>4. Count(jobq, {d} \X Requests) = Count(jobq', {d} \X Requests) + one
    <3>1. Count(jobq, {d} \X Requests)
            = Count(Tail(jobq), {d} \X Requests) + (IF Head(jobq) \in {d} \X Requests THEN 1 ELSE 0)
      BY <1>1, <1>3, CountTail
    <3>2. Head(jobq) \in {d} \X Requests <=> d = c
      BY <1>5
    <3> QED BY <1>1, <3>1, <3>2
  <2>5. \/ ForOldInstance(m) /\ Holding(Workers, wc', d) = Holding(Workers, wc, d)
        \/ Holding(Workers, wc', d) = Holding(Workers, wc, d) + one
    <3>1. CASE wc' = wc /\ ForOldInstance(m)
      BY <3>1
    <3>2. CASE wc' = [wc EXCEPT ![w] = c]
      <4>1. wc'[w] = c /\ wc[w] = NoConn /\ \A u \in Workers : u # w => wc'[u] = wc[u]
        BY <1>0, <1>1, <3>2 DEF ServerTypes, WorkersHaveJobs
      <4>2. Holding(Workers, wc', d)
              = Holding(Workers, wc, d) + (IF wc'[w] = d THEN 1 ELSE 0) - (IF wc[w] = d THEN 1 ELSE 0)
        BY <4>1, WorkerTakes
      <4>3. wc[w] # d
        BY <4>1, NoConnAssumption
      <4> QED BY <2>3, <4>1, <4>2, <4>3
    <3> QED BY <1>2, <3>1, <3>2
  <2>6. one \in {0, 1}
    OBVIOUS
  <2>7. MaxInst = 1 => ~ForOldInstance(m)
    BY <1>0, <1>5, OneInstance
  <2> HIDE DEF ServerHolders, one
  <2>8. Holding(Workers, wc', d) = Holding(Workers, wc, d) + one => ServerHolders(d)' = ServerHolders(d)
    BY <2>1, <2>2, <2>3, <2>4, <2>6
  <2>9. Holding(Workers, wc', d) = Holding(Workers, wc, d) => ServerHolders(d)' <= ServerHolders(d)
    BY <2>1, <2>2, <2>3, <2>4, <2>6
  <2> QED BY <2>1, <2>2, <2>5, <2>7, <2>8, <2>9
<1>10. ServerCounts' /\ srefno' \in [Conns -> Nat]
  <2>1. ASSUME NEW d \in Conns PROVE /\ ServerHolders(d)' <= srefno'[d]
                                     /\ MaxInst = 1 => srefno'[d] = ServerHolders(d)'
    <3>1. srefno'[d] = srefno[d] /\ srefno[d] \in Nat
      BY <1>0, <1>1 DEF CountTypes
    <3>2. ServerHolders(d) <= srefno[d] /\ (MaxInst = 1 => srefno[d] = ServerHolders(d))
      BY <1>0 DEF ServerCounts
    <3> HIDE DEF ServerHolders
    <3> QED BY <1>9, <3>1, <3>2
  <2>2. srefno' \in [Conns -> Nat]
    BY <1>0, <1>1 DEF CountTypes
  <2> QED BY <2>1, <2>2 DEF ServerCounts
<1>11. NoneUncounted' /\ AliveIsListed' /\ PoolIsLast'
  BY <1>0, <1>1 DEF NoneUncounted, AliveIsListed, PoolIsLast
<1> QED BY <1>1, <1>6, <1>7, <1>8, <1>10, <1>11, UnusedIsNone, ServerStepKeeps DEF ServerPart, ServerConns

(* A worker's connection is an accepted one.                               *)
LEMMA WorkerConnIsAccepted ==
    ASSUME ServerTypes, ServerCounts, NoneUncounted, NEW w \in Workers, wc[w] \in Conns
    PROVE  sobj[wc[w]] # "none"
<1> SUFFICES ASSUME sobj[wc[w]] = "none" PROVE FALSE
  OBVIOUS
<1> DEFINE d == wc[w]
<1>1. Holding(Workers, wc, d) = 0
  BY NoneUnheld
<1>2. Holding(Workers, wc, d) > 0
  BY HoldingSome, WorkersAssumption
<1> QED BY <1>1, <1>2

LEMMA SaveConnKeeps ==
    ASSUME RefInv, NEW w \in Workers, save_conn(w), UNCHANGED clientvars
    PROVE  RefInv'
<1>0. /\ NetTypes /\ CountTypes /\ ServerTypes /\ WorkersHaveJobs
      /\ ServerCounts /\ NoneUncounted /\ AliveIsListed /\ PoolIsLast
  BY RefInvParts DEF ServerPart, ServerConns
<1>1. /\ wpc[w] = "conns" /\ conns_' = wc[w]
      /\ srefno' = IF conns_ = wc[w] THEN srefno ELSE Recount(srefno, Swapped(conns_, wc[w]))
      /\ wpc' = [wpc EXCEPT ![w] = "check"]
      /\ UNCHANGED <<nonce_, reply_window_, lconns, jobq, wc, h, stat, buf, execs,
                     link, req_q, rep_q, cdead, crefno, sobj, life>>
  BY DEF save_conn
<1>2. wc[w] \in Conns
  BY <1>0, <1>1 DEF WorkersHaveJobs
<1>3. NetTypes'
  BY <1>0, <1>1 DEF NetTypes
<1>4. ServerTypes'
  BY <1>0, <1>1, <1>2 DEF ServerTypes, WorkerPCs
<1>5. WorkersHaveJobs'
  BY <1>0, <1>1, <1>2 DEF ServerTypes, WorkersHaveJobs
<1> DEFINE D == [d \in Conns |-> (IF wc[w] = d THEN 1 ELSE 0) - (IF conns_ = d THEN 1 ELSE 0)]
<1>6. D \in [Conns -> Int]
      /\ \A d \in Conns : D[d] = (IF wc[w] = d THEN 1 ELSE 0) - (IF conns_ = d THEN 1 ELSE 0)
  OBVIOUS
<1>7. srefno' = [d \in Conns |-> srefno[d] + D[d]]
  <2>1. CASE conns_ = wc[w]
    <3>1. \A d \in Conns : srefno[d] + D[d] = srefno[d]
      BY <1>0, <2>1 DEF CountTypes
    <3>2. srefno' = srefno /\ srefno = [d \in Conns |-> srefno[d]]
      BY <1>0, <1>1, <2>1 DEF CountTypes
    <3> HIDE DEF D
    <3> QED BY <3>1, <3>2
  <2>2. CASE conns_ # wc[w]
    <3>1. \A d \in Conns : Swapped(conns_, wc[w])[d] = D[d]
      BY DEF Swapped, Taken, Dropped
    <3> HIDE DEF D
    <3> QED BY <1>1, <2>2, <3>1 DEF Recount
  <2> QED BY <2>1, <2>2
<1> HIDE DEF D
<1>8. ServerCounts' /\ srefno' \in [Conns -> Nat]
  <2>1. ASSUME NEW d \in Conns PROVE ServerHolders(d)' = ServerHolders(d) + D[d]
    <3>1. /\ ServerHolders(d) = Count(jobq, {d} \X Requests) + Holding(Workers, wc, d)
                                + (IF conns_ = d THEN 1 ELSE 0) + (IF d \in lconns THEN 1 ELSE 0)
          /\ Count(jobq, {d} \X Requests) \in Nat
      BY <1>0, ServerHoldersAreCounted
    <3>2. ServerHolders(d)' = Count(jobq, {d} \X Requests) + Holding(Workers, wc, d)
                              + (IF wc[w] = d THEN 1 ELSE 0) + (IF d \in lconns THEN 1 ELSE 0)
      BY <1>1, <1>4, ServerHoldersAreCountedNext
    <3>3. Holding(Workers, wc, d) \in Nat
      BY HoldersAreCounted
    <3> HIDE DEF ServerHolders
    <3> QED BY <1>6, <3>1, <3>2, <3>3
  <2> QED BY <1>0, <1>4, <1>6, <1>7, <2>1, ServerCountsMove
<1>9. NoneUncounted'
  <2> SUFFICES ASSUME NEW d \in Conns, sobj[d] = "none" PROVE srefno'[d] = 0
    BY <1>1 DEF NoneUncounted
  <2>1. wc[w] # d
    BY <1>0, <1>2, WorkerConnIsAccepted
  <2>2. conns_ # d
    BY <1>0, NoneUnheld
  <2> QED BY <1>0, <1>6, <1>7, <2>1, <2>2 DEF NoneUncounted
<1>10. AliveIsListed' /\ PoolIsLast'
  BY <1>0, <1>1 DEF AliveIsListed, PoolIsLast
<1> QED BY <1>1, <1>3, <1>4, <1>5, <1>8, <1>9, <1>10, UnusedIsNone, ServerStepKeeps DEF ServerPart, ServerConns

(* A worker drops its reference: both ends of dispatch that do.            *)
LEMMA WorkerDrops ==
    ASSUME ServerTypes, ServerTypes', CountTypes, ServerCounts, NoneUncounted, NEW w \in Workers,
           wc' = [wc EXCEPT ![w] = NoConn], srefno' = Recount(srefno, Dropped(wc[w])),
           UNCHANGED <<jobq, conns_, lconns, sobj>>
    PROVE  ServerCounts' /\ srefno' \in [Conns -> Nat] /\ NoneUncounted'
<1> DEFINE D == Dropped(wc[w])
<1>1. D \in [Conns -> Int] /\ \A d \in Conns : D[d] = IF wc[w] = d THEN -1 ELSE 0
  BY DEF Dropped
<1>2. srefno' = [d \in Conns |-> srefno[d] + D[d]]
  BY DEF Recount
<1> HIDE DEF D
<1>3. ASSUME NEW d \in Conns PROVE ServerHolders(d)' = ServerHolders(d) + D[d]
  <2>1. /\ ServerHolders(d) = Count(jobq, {d} \X Requests) + Holding(Workers, wc, d)
                              + (IF conns_ = d THEN 1 ELSE 0) + (IF d \in lconns THEN 1 ELSE 0)
        /\ Count(jobq, {d} \X Requests) \in Nat
    BY ServerHoldersAreCounted
  <2>2. ServerHolders(d)' = Count(jobq, {d} \X Requests) + Holding(Workers, wc', d)
                            + (IF conns_ = d THEN 1 ELSE 0) + (IF d \in lconns THEN 1 ELSE 0)
    BY ServerHoldersAreCountedNext
  <2>3. Holding(Workers, wc, d) \in Nat /\ Holding(Workers, wc', d) \in Nat
    BY HoldersAreCounted
  <2>4. wc'[w] # d /\ \A u \in Workers : u # w => wc'[u] = wc[u]
    BY NoConnAssumption DEF ServerTypes
  <2>5. Holding(Workers, wc', d)
          = Holding(Workers, wc, d) + (IF wc'[w] = d THEN 1 ELSE 0) - (IF wc[w] = d THEN 1 ELSE 0)
    BY <2>4, WorkerTakes
  <2>6. Holding(Workers, wc', d) = Holding(Workers, wc, d) + D[d] /\ D[d] \in Int
    BY <1>1, <2>3, <2>4, <2>5
  <2> HIDE DEF ServerHolders
  <2> QED BY <2>1, <2>2, <2>3, <2>6
<1>4. ServerCounts' /\ srefno' \in [Conns -> Nat]
  BY <1>1, <1>2, <1>3, ServerCountsMove
<1>5. NoneUncounted'
  <2> SUFFICES ASSUME NEW d \in Conns, sobj[d] = "none" PROVE srefno'[d] = 0
    BY DEF NoneUncounted
  <2>1. srefno[d] = 0 /\ srefno'[d] \in Nat /\ srefno'[d] = srefno[d] + D[d]
    BY <1>2, <1>4 DEF NoneUncounted
  <2> QED BY <1>1, <2>1
<1> QED BY <1>4, <1>5

(* checkduplicate_and_update returns one of its four results.              *)
LEMMA LookupTypes ==
    ASSUME NEW m \in Requests, NEW win \in [Xids -> {"absent", "inprogress", "done"}]
    PROVE  /\ Lookup(m, win) \in Stats
           /\ m.xid <= m.xid_rep => Lookup(m, win) = "FORGOTTEN"
           /\ m.xid > m.xid_rep => /\ Lookup(m, win) # "FORGOTTEN"
                                   /\ (Lookup(m, win) = "NEW" <=> win[m.xid] = "absent")
                                   /\ (Lookup(m, win) = "INPROGRESS" <=> win[m.xid] = "inprogress")
                                   /\ (Lookup(m, win) = "DONE" <=> win[m.xid] = "done")
<1>1. m.xid \in Nat /\ m.xid_rep \in Nat /\ m.xid \in Xids
  BY MaxXidAssumption DEF Requests, Xids
<1>2. m.xid <= m.xid_rep \/ m.xid > m.xid_rep
  BY <1>1
<1>3. ~(m.xid <= m.xid_rep /\ m.xid > m.xid_rep)
  BY <1>1
<1>4. win[m.xid] \in {"absent", "inprogress", "done"}
  BY <1>1
<1>5. CASE m.xid <= m.xid_rep
  <2>1. Lookup(m, win) = "FORGOTTEN"
    BY <1>3, <1>5 DEF Lookup
  <2> QED BY <1>3, <1>5, <2>1 DEF Stats
<1>6. CASE m.xid > m.xid_rep
  <2>1. win[m.xid] = "absent" => Lookup(m, win) = "NEW"
    BY <1>3, <1>6 DEF Lookup
  <2>2. win[m.xid] = "inprogress" => Lookup(m, win) = "INPROGRESS"
    BY <1>3, <1>6 DEF Lookup
  <2>3. win[m.xid] = "done" => Lookup(m, win) = "DONE"
    BY <1>3, <1>6 DEF Lookup
  <2> QED BY <1>3, <1>4, <1>6, <2>1, <2>2, <2>3 DEF Stats
<1> QED BY <1>2, <1>5, <1>6

LEMMA CheckKeeps ==
    ASSUME RefInv, NEW w \in Workers, checkduplicate_and_update(w), UNCHANGED clientvars
    PROVE  RefInv'
<1> DEFINE x == h[w].xid
           old == IF x <= h[w].xid_rep THEN {} ELSE Confirmed(h[w].xid_rep)
           win == [y \in Xids |-> IF y \in old THEN "absent" ELSE reply_window_[y]]
           s == Lookup(h[w], win)
<1>0. /\ NetTypes /\ CountTypes /\ ServerTypes /\ WorkersHaveJobs
      /\ ServerCounts /\ NoneUncounted /\ AliveIsListed /\ PoolIsLast
  BY RefInvParts DEF ServerPart, ServerConns
<1>1. /\ wpc[w] = "check"
      /\ stat' = [stat EXCEPT ![w] = IF s = "INPROGRESS" THEN "NEW" ELSE s]
      /\ reply_window_' = IF s = "NEW" THEN [win EXCEPT ![x] = "inprogress"] ELSE win
      /\ buf' = [v \in Workers |->
                   IF v = w THEN IF s = "DONE" THEN "window" ELSE "own"
                   ELSE IF buf[v] = "window" /\ h[v].xid \in old THEN "freed"
                   ELSE buf[v]]
      /\ UNCHANGED <<nonce_, conns_, lconns, jobq, execs, link, req_q, rep_q, cdead, crefno, sobj,
                     life>>
  BY DEF checkduplicate_and_update
<1>2. \/ /\ wpc' = [wpc EXCEPT ![w] = "idle"]
         /\ srefno' = Recount(srefno, Dropped(wc[w]))
         /\ wc' = [wc EXCEPT ![w] = NoConn]
         /\ h' = [h EXCEPT ![w] = NoReq]
      \/ /\ wpc' = [wpc EXCEPT ![w] = IF s = "NEW" THEN "exec" ELSE "send"]
         /\ UNCHANGED <<srefno, wc, h>>
  BY DEF checkduplicate_and_update
<1>3. h[w] \in Requests /\ win \in [Xids -> {"absent", "inprogress", "done"}]
  BY <1>0, <1>1 DEF WorkersHaveJobs, ServerTypes
<1>4. s \in Stats /\ x \in Xids
  BY <1>3, LookupTypes DEF Requests
<1> HIDE DEF x, old, win, s
<1>5. NetTypes'
  BY <1>0, <1>1 DEF NetTypes
<1>6. ServerTypes'
  <2>1. stat' \in [Workers -> Stats] /\ reply_window_' \in [Xids -> {"absent", "inprogress", "done"}]
    BY <1>0, <1>1, <1>3, <1>4 DEF ServerTypes, Stats
  <2>2. buf' \in [Workers -> {"own", "window", "freed"}]
    BY <1>0, <1>1 DEF ServerTypes
  <2>3. /\ wpc' \in [Workers -> WorkerPCs] /\ wc' \in [Workers -> Conns \cup {NoConn}]
        /\ h' \in [Workers -> Requests \cup {NoReq}]
    BY <1>0, <1>2 DEF ServerTypes, WorkerPCs
  <2> QED BY <1>0, <1>1, <2>1, <2>2, <2>3 DEF ServerTypes
<1>7. WorkersHaveJobs'
  BY <1>0, <1>1, <1>2 DEF ServerTypes, WorkersHaveJobs
<1>8. ServerCounts' /\ srefno' \in [Conns -> Nat] /\ NoneUncounted'
  <2>1. CASE srefno' = Recount(srefno, Dropped(wc[w])) /\ wc' = [wc EXCEPT ![w] = NoConn]
    BY <1>0, <1>1, <1>6, <2>1, WorkerDrops
  <2>2. CASE srefno' = srefno /\ wc' = wc
    BY <1>0, <1>1, <2>2 DEF ServerCounts, ServerHolders, CountTypes, NoneUncounted
  <2> QED BY <1>2, <2>1, <2>2
<1>9. AliveIsListed' /\ PoolIsLast'
  BY <1>0, <1>1 DEF AliveIsListed, PoolIsLast
<1> QED BY <1>1, <1>5, <1>6, <1>7, <1>8, <1>9, UnusedIsNone, ServerStepKeeps DEF ServerPart, ServerConns

LEMMA ExecKeeps ==
    ASSUME RefInv, NEW w \in Workers, exec(w), UNCHANGED clientvars
    PROVE  RefInv'
<1>0. /\ NetTypes /\ CountTypes /\ ServerTypes /\ WorkersHaveJobs
      /\ ServerCounts /\ NoneUncounted /\ AliveIsListed /\ PoolIsLast
  BY RefInvParts DEF ServerPart, ServerConns
<1>1. /\ wpc[w] = "exec" /\ execs' = [execs EXCEPT ![h[w].xid] = @ + 1]
      /\ reply_window_' = IF HasEntry(h[w].xid) THEN [reply_window_ EXCEPT ![h[w].xid] = "done"]
                          ELSE reply_window_
      /\ buf' = [v \in Workers |->
                   IF v = w THEN IF HasEntry(h[w].xid) THEN "window" ELSE "own"
                   ELSE IF HasEntry(h[w].xid) /\ buf[v] = "window" /\ h[v].xid = h[w].xid THEN "own"
                   ELSE buf[v]]
      /\ wpc' = [wpc EXCEPT ![w] = "send"]
      /\ UNCHANGED <<nonce_, conns_, lconns, jobq, wc, h, stat, netvars>>
  BY DEF exec, add_reply
<1>2. UNCHANGED <<link, req_q, rep_q, cdead, crefno, sobj, srefno, life>>
  BY <1>1 DEF netvars
<1>3. NetTypes' /\ srefno' \in [Conns -> Nat]
  BY <1>0, <1>2 DEF NetTypes, CountTypes
<1>4. ServerTypes'
  <2>0. execs \in [Xids -> Nat] /\ wpc \in [Workers -> WorkerPCs]
    BY <1>0 DEF ServerTypes
  <2>1. execs' \in [Xids -> Nat]
    <3> DEFINE x == h[w].xid
    <3>1. execs' = [execs EXCEPT ![x] = execs[x] + 1] /\ \A y \in Xids : execs[y] + 1 \in Nat
      BY <1>1, <2>0
    <3> HIDE DEF x
    <3> QED BY <2>0, <3>1
  <2>3. wpc' \in [Workers -> WorkerPCs]
    BY <1>1, <2>0 DEF WorkerPCs
  <2>2. reply_window_' \in [Xids -> {"absent", "inprogress", "done"}]
        /\ buf' \in [Workers -> {"own", "window", "freed"}]
    BY <1>0, <1>1 DEF ServerTypes
  <2> QED BY <1>0, <1>1, <2>1, <2>2, <2>3 DEF ServerTypes
<1>5. WorkersHaveJobs'
  BY <1>0, <1>1 DEF ServerTypes, WorkersHaveJobs
<1>6. ServerCounts'
  BY <1>0, <1>1, <1>2 DEF ServerCounts, ServerHolders
<1>7. NoneUncounted' /\ AliveIsListed' /\ PoolIsLast'
  BY <1>0, <1>1, <1>2 DEF NoneUncounted, AliveIsListed, PoolIsLast
<1> QED BY <1>2, <1>3, <1>4, <1>5, <1>6, <1>7, UnusedIsNone, ServerStepKeeps DEF ServerPart, ServerConns

(* Every PDU send may put on the wire is a reply.                          *)
LEMMA PduTypes ==
    ASSUME ServerTypes, NEW w \in Workers, h[w] \in Requests, NEW p \in Pdus(w)
    PROVE  p \in Replies
<1>1. h[w].xid \in 0 .. MaxXid
  BY MaxXidAssumption DEF Requests, Xids
<1>2. CASE buf[w] = "freed"
  BY <1>2 DEF Pdus
<1>3. CASE buf[w] # "freed" /\ stat[w] = "FORGOTTEN"
  BY <1>1, <1>3, ReplyTypes DEF Pdus, Rets
<1>4. CASE buf[w] # "freed" /\ stat[w] # "FORGOTTEN"
  BY <1>1, <1>4, ReplyTypes DEF Pdus, Rets
<1> QED BY <1>2, <1>3, <1>4

LEMMA SendKeeps ==
    ASSUME RefInv, NEW w \in Workers, send(w), UNCHANGED clientvars
    PROVE  RefInv'
<1>0. /\ NetTypes /\ CountTypes /\ ServerTypes /\ WorkersHaveJobs
      /\ ServerCounts /\ NoneUncounted /\ AliveIsListed /\ PoolIsLast
  BY RefInvParts DEF ServerPart, ServerConns
<1>1. /\ wpc[w] = "send"
      /\ wpc' = [wpc EXCEPT ![w] = "idle"] /\ wc' = [wc EXCEPT ![w] = NoConn]
      /\ h' = [h EXCEPT ![w] = NoReq] /\ stat' = [stat EXCEPT ![w] = "NEW"]
      /\ buf' = [buf EXCEPT ![w] = "own"]
      /\ srefno' = Recount(srefno, Dropped(wc[w]))
      /\ UNCHANGED <<nonce_, reply_window_, conns_, lconns, jobq, execs,
                     link, req_q, cdead, crefno, sobj, life>>
  BY DEF send
<1>2. PICK p \in Pdus(w) : rep_q' = ServerSend(ReplyConn(w), p)
  BY DEF send
<1>3. h[w] \in Requests /\ wc[w] \in Conns /\ conns_ \in Conns
  BY <1>0, <1>1 DEF WorkersHaveJobs
<1>4. ReplyConn(w) \in Conns
  BY <1>3 DEF ReplyConn
<1>5. p \in Replies
  BY <1>0, <1>3, PduTypes
<1>6. NetTypes'
  <2>1. rep_q' \in [Conns -> Seq(Replies)]
    BY <1>0, <1>2, <1>4, <1>5, ReplySent
  <2> QED BY <1>0, <1>1, <2>1 DEF NetTypes
<1>7. ServerTypes'
  BY <1>0, <1>1 DEF ServerTypes, WorkerPCs, Stats
<1>8. WorkersHaveJobs'
  BY <1>0, <1>1 DEF ServerTypes, WorkersHaveJobs
<1>9. ServerCounts' /\ srefno' \in [Conns -> Nat] /\ NoneUncounted'
  BY <1>0, <1>1, <1>7, WorkerDrops
<1>10. AliveIsListed' /\ PoolIsLast'
  BY <1>0, <1>1 DEF AliveIsListed, PoolIsLast
<1> QED BY <1>1, <1>6, <1>7, <1>8, <1>9, <1>10, UnusedIsNone, ServerStepKeeps DEF ServerPart, ServerConns

(* ~tcpsconn ends the accept thread; what was not accepted is lost.        *)
LEMMA DeleteListenerKeeps ==
    ASSUME RefInv, delete_listener, UNCHANGED clientvars
    PROVE  RefInv'
<1> DEFINE backlog == {c \in Conns : link[c] # "unused" /\ sobj[c] = "none"}
<1>0. /\ NetTypes /\ CountTypes /\ ServerTypes /\ WorkersHaveJobs /\ UnusedUnheld
      /\ ServerCounts /\ NoneUncounted /\ AliveIsListed /\ PoolIsLast
  BY RefInvParts DEF ServerPart, ServerConns, ClientConns
<1>1. /\ life = "up" /\ life' = "closing"
      /\ link' = [c \in Conns |-> IF c \in backlog THEN "down" ELSE link[c]]
      /\ sobj' = [c \in Conns |-> IF c \in backlog THEN "dead" ELSE sobj[c]]
      /\ req_q' = [c \in Conns |-> IF c \in backlog THEN <<>> ELSE req_q[c]]
      /\ UNCHANGED <<nonce_, reply_window_, conns_, lconns, jobq, wpc, wc, h, stat, buf, execs,
                     rep_q, cdead, crefno, srefno>>
  BY DEF delete_listener
<1>2. NetTypes'
  <2>1. link' \in [Conns -> {"unused", "up", "down"}] /\ sobj' \in [Conns -> {"none", "alive", "dead"}]
    BY <1>0, <1>1 DEF NetTypes
  <2>2. req_q' \in [Conns -> Seq(Requests)]
    <3>1. <<>> \in Seq(Requests) /\ req_q \in [Conns -> Seq(Requests)]
      BY <1>0 DEF NetTypes
    <3> HIDE DEF backlog
    <3> QED BY <1>1, <3>1
  <2> QED BY <1>0, <1>1, <2>1, <2>2 DEF NetTypes
<1>3. ServerTypes' /\ srefno' \in [Conns -> Nat]
  BY <1>0, <1>1 DEF ServerTypes, CountTypes
<1>4. WorkersHaveJobs'
  BY <1>0, <1>1 DEF WorkersHaveJobs
<1>5. ServerCounts'
  BY <1>0, <1>1 DEF ServerCounts, ServerHolders
<1>6. NoneUncounted' /\ AliveIsListed' /\ PoolIsLast'
  BY <1>0, <1>1 DEF NoneUncounted, AliveIsListed, PoolIsLast
<1>7. \A c \in Conns : /\ (link'[c] = "unused" <=> link[c] = "unused")
                       /\ (link'[c] = "unused" => sobj'[c] = "none")
  BY <1>0, <1>1 DEF UnusedUnheld
<1> QED BY <1>1, <1>2, <1>3, <1>4, <1>5, <1>6, <1>7, ServerStepKeeps DEF ServerPart, ServerConns

(* It closes a connection and drops it.                                    *)
LEMMA CloseConnKeeps ==
    ASSUME RefInv, NEW c \in Conns, close_conn(c), UNCHANGED clientvars
    PROVE  RefInv'
<1>0. /\ NetTypes /\ CountTypes /\ ServerTypes /\ WorkersHaveJobs /\ UnusedUnheld
      /\ ServerCounts /\ NoneUncounted /\ AliveIsListed /\ PoolIsLast
  BY RefInvParts DEF ServerPart, ServerConns, ClientConns
<1>1. /\ life = "closing" /\ c \in lconns
      /\ lconns' = lconns \ {c}
      /\ link' = [link EXCEPT ![c] = "down"]
      /\ sobj' = [sobj EXCEPT ![c] = "dead"]
      /\ req_q' = [req_q EXCEPT ![c] = <<>>]
      /\ srefno' = Recount(srefno, Dropped(c))
      /\ UNCHANGED <<nonce_, reply_window_, conns_, jobq, wpc, wc, h, stat, buf, execs,
                     rep_q, cdead, crefno, life>>
  BY DEF close_conn
<1>2. NetTypes'
  <2>1. link' \in [Conns -> {"unused", "up", "down"}] /\ sobj' \in [Conns -> {"none", "alive", "dead"}]
    BY <1>0, <1>1 DEF NetTypes
  <2>2. req_q' \in [Conns -> Seq(Requests)]
    <3>1. <<>> \in Seq(Requests) /\ req_q \in [Conns -> Seq(Requests)]
      BY <1>0 DEF NetTypes
    <3> QED BY <1>1, <3>1
  <2> QED BY <1>0, <1>1, <2>1, <2>2 DEF NetTypes
<1>3. ServerTypes'
  BY <1>0, <1>1 DEF ServerTypes
<1>4. WorkersHaveJobs'
  BY <1>0, <1>1 DEF WorkersHaveJobs
<1> DEFINE D == Dropped(c)
<1>5. D \in [Conns -> Int] /\ \A d \in Conns : D[d] = IF d = c THEN -1 ELSE 0
  BY DEF Dropped
<1>6. srefno' = [d \in Conns |-> srefno[d] + D[d]]
  BY <1>1 DEF Recount
<1> HIDE DEF D
<1>7. ServerCounts' /\ srefno' \in [Conns -> Nat]
  <2>1. ASSUME NEW d \in Conns PROVE ServerHolders(d)' = ServerHolders(d) + D[d]
    <3>1. /\ ServerHolders(d) = Count(jobq, {d} \X Requests) + Holding(Workers, wc, d)
                                + (IF conns_ = d THEN 1 ELSE 0) + (IF d \in lconns THEN 1 ELSE 0)
          /\ Count(jobq, {d} \X Requests) \in Nat
      BY <1>0, ServerHoldersAreCounted
    <3>2. ServerHolders(d)' = Count(jobq, {d} \X Requests) + Holding(Workers, wc, d)
                              + (IF conns_ = d THEN 1 ELSE 0) + (IF d \in lconns' THEN 1 ELSE 0)
      BY <1>1, <1>3, ServerHoldersAreCountedNext
    <3>3. Holding(Workers, wc, d) \in Nat
      BY HoldersAreCounted
    <3>4. d \in lconns' <=> d \in lconns /\ d # c
      BY <1>1
    <3> HIDE DEF ServerHolders
    <3> QED BY <1>1, <1>5, <3>1, <3>2, <3>3, <3>4
  <2> QED BY <1>0, <1>3, <1>5, <1>6, <2>1, ServerCountsMove
<1>8. NoneUncounted'
  <2> SUFFICES ASSUME NEW d \in Conns, sobj'[d] = "none" PROVE srefno'[d] = 0
    BY DEF NoneUncounted
  <2>1. d # c /\ sobj[d] = "none"
    BY <1>0, <1>1 DEF NetTypes
  <2> QED BY <1>0, <1>5, <1>6, <2>1 DEF NoneUncounted
<1>9. AliveIsListed' /\ PoolIsLast'
  BY <1>0, <1>1 DEF NetTypes, AliveIsListed, PoolIsLast
<1>10. link[c] # "unused"
  <2>1. sobj[c] # "none"
    BY <1>0, <1>1, NoneUnheld
  <2> QED BY <1>0, <2>1 DEF UnusedUnheld
<1>11. \A d \in Conns : /\ (link'[d] = "unused" <=> link[d] = "unused")
                        /\ (link'[d] = "unused" => sobj'[d] = "none")
  BY <1>0, <1>1, <1>10 DEF NetTypes, UnusedUnheld
<1> QED BY <1>1, <1>2, <1>3, <1>4, <1>7, <1>8, <1>9, <1>11, ServerStepKeeps DEF ServerPart, ServerConns

(* ~rpcs goes on to the pool when the listener holds no connection: none   *)
(* is alive then.                                                          *)
LEMMA DeletePoolKeeps ==
    ASSUME RefInv, delete_pool \/ free_reply_window, UNCHANGED clientvars
    PROVE  RefInv'
<1>0. /\ NetTypes /\ CountTypes /\ ServerTypes /\ WorkersHaveJobs
      /\ ServerCounts /\ NoneUncounted /\ AliveIsListed /\ PoolIsLast
  BY RefInvParts DEF ServerPart, ServerConns
<1>1. /\ life' \in {"draining", "gone"}
      /\ lconns = {} \/ life = "draining"
      /\ reply_window_' \in {reply_window_, [x \in Xids |-> "absent"]}
      /\ UNCHANGED <<nonce_, conns_, lconns, jobq, wpc, wc, h, stat, buf, execs,
                     link, req_q, rep_q, cdead, crefno, sobj, srefno>>
  BY DEF delete_pool, free_reply_window, ListenerIsDeleted, servervars
<1>2. NetTypes' /\ srefno' \in [Conns -> Nat]
  BY <1>0, <1>1 DEF NetTypes, CountTypes
<1>3. ServerTypes'
  <2>1. reply_window_' \in [Xids -> {"absent", "inprogress", "done"}]
    BY <1>0, <1>1 DEF ServerTypes
  <2> QED BY <1>0, <1>1, <2>1 DEF ServerTypes
<1>4. WorkersHaveJobs'
  BY <1>0, <1>1 DEF WorkersHaveJobs
<1>5. ServerCounts'
  BY <1>0, <1>1 DEF ServerCounts, ServerHolders
<1>6. NoneUncounted' /\ AliveIsListed' /\ PoolIsLast'
  BY <1>0, <1>1 DEF NoneUncounted, AliveIsListed, PoolIsLast
<1> QED BY <1>1, <1>2, <1>3, <1>4, <1>5, <1>6, UnusedIsNone, ServerStepKeeps DEF ServerPart, ServerConns

(* A new instance holds nothing.                                           *)
LEMMA RestartKeeps ==
    ASSUME RefInv, restart, UNCHANGED clientvars
    PROVE  RefInv'
<1>0. NetTypes /\ CountTypes /\ ServerTypes
  BY RefInvParts DEF ServerPart
<1>1. /\ nonce_ < MaxInst /\ life' = "up" /\ nonce_' = nonce_ + 1
      /\ reply_window_' = [x \in Xids |-> "absent"]
      /\ conns_' = NoConn /\ lconns' = {} /\ jobq' = <<>>
      /\ wpc' = [w \in Workers |-> "idle"] /\ wc' = [w \in Workers |-> NoConn]
      /\ h' = [w \in Workers |-> NoReq] /\ stat' = [w \in Workers |-> "NEW"]
      /\ buf' = [w \in Workers |-> "own"]
  BY DEF restart
<1>2. /\ link' = [c \in Conns |-> IF link[c] = "unused" THEN "unused" ELSE "down"]
      /\ sobj' = [c \in Conns |-> IF link[c] = "unused" THEN "none" ELSE "dead"]
      /\ srefno' = [c \in Conns |-> 0] /\ req_q' = [c \in Conns |-> <<>>]
      /\ UNCHANGED <<execs, rep_q, cdead, crefno>>
  BY DEF restart
<1>3. NetTypes' /\ srefno' \in [Conns -> Nat]
  <2>1. link' \in [Conns -> {"unused", "up", "down"}] /\ sobj' \in [Conns -> {"none", "alive", "dead"}]
    BY <1>0, <1>2 DEF NetTypes
  <2>2. req_q' \in [Conns -> Seq(Requests)] /\ srefno' \in [Conns -> Nat]
    BY <1>2
  <2> QED BY <1>0, <1>1, <1>2, <2>1, <2>2 DEF NetTypes
<1>4. ServerTypes'
  <2>1. nonce_' \in 1 .. MaxInst
    BY <1>0, <1>1, MaxInstAssumption DEF ServerTypes
  <2>2. jobq' \in Seq(Conns \X Requests)
    BY <1>1
  <2> QED BY <1>0, <1>1, <1>2, <2>1, <2>2 DEF ServerTypes, WorkerPCs, Stats
<1>5. WorkersHaveJobs'
  BY <1>1 DEF WorkersHaveJobs
<1>6. ServerCounts'
  <2>1. ASSUME NEW d \in Conns PROVE ServerHolders(d)' = 0
    <3>1. ServerHolders(d)' = Count(jobq', {d} \X Requests) + Holding(Workers, wc', d)
                              + (IF conns_' = d THEN 1 ELSE 0) + (IF d \in lconns' THEN 1 ELSE 0)
      BY <1>4, ServerHoldersAreCountedNext
    <3>2. Count(jobq', {d} \X Requests) = 0
      BY <1>1, CountEmpty
    <3>3. Holding(Workers, wc', d) = 0
      <4>1. \A w \in Workers : wc'[w] # d
        BY <1>1, NoConnAssumption
      <4> QED BY <4>1, HoldingNone
    <3>4. conns_' # d /\ d \notin lconns'
      BY <1>1, NoConnAssumption
    <3> HIDE DEF ServerHolders
    <3> QED BY <3>1, <3>2, <3>3, <3>4
  <2>2. \A d \in Conns : srefno'[d] = 0
    BY <1>2
  <2> QED BY <2>1, <2>2 DEF ServerCounts
<1>7. NoneUncounted' /\ AliveIsListed' /\ PoolIsLast'
  BY <1>1, <1>2 DEF NoneUncounted, AliveIsListed, PoolIsLast
<1>8. \A c \in Conns : /\ (link'[c] = "unused" <=> link[c] = "unused")
                       /\ (link'[c] = "unused" => sobj'[c] = "none")
  BY <1>2
<1> QED BY <1>2, <1>3, <1>4, <1>5, <1>6, <1>7, <1>8, ServerStepKeeps DEF ServerPart, ServerConns

-----------------------------------------------------------------------------
(* Initial states, and every step.                                         *)

LEMMA InitKeeps == Init => RefInv
<1> SUFFICES ASSUME Init PROVE RefInv
  OBVIOUS
<1>0. NetInit /\ ClientInit /\ ServerInit
  BY DEF Init
<1>1. NetTypes /\ CountTypes
  <2>1. <<>> \in Seq(Requests) /\ <<>> \in Seq(Replies)
    OBVIOUS
  <2> QED BY <1>0, <2>1 DEF NetInit, NetTypes, CountTypes
<1>2. ClientTypes
  <2>1. xid_ \in 1 .. (MaxXid + 1) /\ srv_nonce_ \in Nonces /\ xid_rep_window_ \in SUBSET (0 .. MaxXid)
    BY <1>0, MaxXidAssumption, MaxInstAssumption DEF ClientInit, Nonces
  <2>2. done \in [Xids -> {NoReply} \cup [ret : Rets, r : Nonces]]
    BY <1>0 DEF ClientInit
  <2>3. /\ pc \in [Threads -> ClientPCs] /\ req \in [Threads -> Requests \cup {NoReq}]
        /\ ch \in [Threads -> Conns \cup {NoConn}]
    BY <1>0 DEF ClientInit, ClientPCs
  <2> QED BY <1>0, <2>1, <2>2, <2>3 DEF ClientInit, ClientTypes
<1>3. ServerTypes
  BY <1>0, MaxInstAssumption DEF ServerInit, ServerTypes, WorkerPCs, Stats
<1>4. CallsHaveRequests /\ WindowNotEmpty /\ DeletedIsQuiet /\ WorkersHaveJobs
  BY <1>0 DEF ClientInit, ServerInit, CallsHaveRequests, WindowNotEmpty, DeletedIsQuiet, WorkersHaveJobs
<1>5. ClientCounts
  <2>1. ASSUME NEW d \in Conns PROVE crefno[d] = ClientHolders(d)
    <3>1. \A t \in Threads : ch[t] # d
      BY <1>0, NoConnAssumption DEF ClientInit
    <3>2. Holding(Threads, ch, d) = 0
      BY <3>1, HoldingNone
    <3>3. ClientHolders(d) = Holding(Threads, ch, d) + (IF chan_ = d THEN 1 ELSE 0)
      BY HoldersAreCounted
    <3>4. chan_ # d /\ crefno[d] = 0
      BY <1>0, NoConnAssumption DEF ClientInit, NetInit
    <3> QED BY <3>2, <3>3, <3>4
  <2> QED BY <2>1 DEF ClientCounts
<1>6. ServerCounts
  <2>1. ASSUME NEW d \in Conns PROVE srefno[d] = 0 /\ ServerHolders(d) = 0
    <3>1. \A w \in Workers : wc[w] # d
      BY <1>0, NoConnAssumption DEF ServerInit
    <3>2. Holding(Workers, wc, d) = 0
      BY <3>1, HoldingNone
    <3>3. ServerHolders(d) = Count(jobq, {d} \X Requests) + Holding(Workers, wc, d)
                             + (IF conns_ = d THEN 1 ELSE 0) + (IF d \in lconns THEN 1 ELSE 0)
      BY <1>3, ServerHoldersAreCounted
    <3>4. Count(jobq, {d} \X Requests) = 0
      BY <1>0, CountEmpty DEF ServerInit
    <3>5. conns_ # d /\ d \notin lconns /\ srefno[d] = 0
      BY <1>0, NoConnAssumption DEF ServerInit, NetInit
    <3> HIDE DEF ServerHolders
    <3> QED BY <3>2, <3>3, <3>4, <3>5
  <2> QED BY <2>1 DEF ServerCounts
<1>7. OthersAreDead /\ UnusedUnheld
  BY <1>0, NoConnAssumption DEF NetInit, ClientInit, OthersAreDead, UnusedUnheld
<1>8. NoneUncounted /\ AliveIsListed /\ PoolIsLast
  BY <1>0 DEF NetInit, ServerInit, NoneUncounted, AliveIsListed, PoolIsLast
<1> QED BY <1>1, <1>2, <1>3, <1>4, <1>5, <1>6, <1>7, <1>8, RefInvParts
        DEF ClientPart, ServerPart, ClientConns, ServerConns

LEMMA NextKeeps == RefInv /\ [Next]_vars => RefInv'
<1> SUFFICES ASSUME RefInv, [Next]_vars PROVE RefInv'
  OBVIOUS
<1>1. CASE ClientNext /\ UNCHANGED servervars
  BY <1>1, Call1Keeps, TransmitKeeps, TimeoutKeeps, LeaveKeeps, BindFinishKeeps, ClientGotPduKeeps,
     DeleteClientKeeps DEF ClientNext
<1>2. CASE ServerNext /\ UNCHANGED clientvars
  BY <1>2, ProcessAcceptKeeps, ServerGotPduKeeps, DispatchKeeps, SaveConnKeeps, CheckKeeps, ExecKeeps,
     SendKeeps, CloseConnKeeps, DeleteListenerKeeps, DeletePoolKeeps, RestartKeeps DEF ServerNext
<1>3. CASE NetNext /\ UNCHANGED <<clientvars, servervars>>
  BY <1>3, NetKeeps DEF NetNext
<1>4. CASE UNCHANGED vars
  <2>1. ClientPart'
    BY <1>4, ClientPartSame, RefInvParts DEF vars
  <2> QED BY <1>4, <2>1, QuietClientStep DEF vars, clientvars
<1> QED BY <1>1, <1>2, <1>3, <1>4 DEF Next

LEMMA RefInvHolds == Spec => []RefInv
  BY InitKeeps, NextKeeps, PTL DEF Spec

(* The variables of client, server and connections keep the types rpc.h    *)
(* and connection.h give them; refno_ never goes below 0.                  *)
THEOREM TypeCorrect == Spec => []TypeOK
<1>1. RefInv => TypeOK
  BY DEF RefInv
<1> QED BY <1>1, RefInvHolds, PTL

(* connection.cc's refno_: whoever points to a connection object - a job   *)
(* in the pool, a worker, conns_, the listener, a thread in call1, chan_ - *)
(* is counted in it, through every swap, restart and teardown.             *)
THEOREM NoHolderIsUncounted == Spec => []NoUncountedReference
<1>1. RefInv => NoUncountedReference
  <2> SUFFICES ASSUME RefInv, NEW c \in Conns
               PROVE  ClientHolders(c) <= crefno[c] /\ ServerHolders(c) <= srefno[c]
    BY DEF NoUncountedReference
  <2>1. crefno[c] = ClientHolders(c) /\ ServerHolders(c) <= srefno[c]
    BY DEF RefInv, ClientCounts, ServerCounts
  <2>2. ClientHolders(c) \in Nat
    BY HoldersAreCounted
  <2> HIDE DEF ClientHolders, ServerHolders
  <2> QED BY <2>1, <2>2
<1> QED BY <1>1, RefInvHolds, PTL

(* With one server instance, where dispatch never refuses a request as     *)
(* meant for another one, refno_ is exactly the number of holders: nothing *)
(* leaks either.                                                           *)
THEOREM ReferencesAreExact == MaxInst = 1 => (Spec => []ReferencesBalance)
<1> SUFFICES ASSUME MaxInst = 1 PROVE Spec => []ReferencesBalance
  OBVIOUS
<1>1. RefInv => ReferencesBalance
  <2> SUFFICES ASSUME RefInv, NEW c \in Conns
               PROVE  /\ ClientHolders(c) <= crefno[c] /\ crefno[c] <= ClientHolders(c)
                      /\ ServerHolders(c) <= srefno[c] /\ srefno[c] <= ServerHolders(c)
    BY DEF ReferencesBalance, NoUncountedReference, NoLeakedReference
  <2>1. crefno[c] = ClientHolders(c) /\ srefno[c] = ServerHolders(c)
    BY DEF RefInv, ClientCounts, ServerCounts
  <2>2. ClientHolders(c) \in Nat
    BY HoldersAreCounted
  <2>3. ServerHolders(c) \in Nat
    BY ServerHoldersAreCounted, RefInvParts DEF ServerPart
  <2> HIDE DEF ClientHolders, ServerHolders
  <2> QED BY <2>1, <2>2, <2>3
<1> QED BY <1>1, RefInvHolds, PTL

(* "must delete listener before dispatchpool": when ~rpcs deletes the pool *)
(* no connection is left to give it a job, and when ~rpcc has run none is  *)
(* left to bring a reply.                                                  *)
THEOREM DeletedGetsNoUpcall == Spec => []NoUpcallAfterDelete
<1>1. RefInv => NoUpcallAfterDelete
  <2> SUFFICES ASSUME RefInv PROVE NoUpcallAfterDelete
    OBVIOUS
  <2>0. PoolIsLast /\ DeletedIsQuiet /\ OthersAreDead /\ ClientCounts /\ CallsHaveRequests
    BY DEF RefInv
  <2>1. ASSUME deleted, NEW c \in Conns, link[c] # "unused" PROVE cdead[c] /\ crefno[c] = 0
    <3>1. chan_ # c /\ \A t \in Threads : ch[t] # c
      BY <2>0, <2>1, NoConnAssumption DEF DeletedIsQuiet, CallsHaveRequests
    <3>2. cdead[c]
      BY <2>0, <2>1, <3>1 DEF OthersAreDead
    <3>3. Holding(Threads, ch, c) = 0
      BY <3>1, HoldingNone
    <3>4. ClientHolders(c) = Holding(Threads, ch, c) + (IF chan_ = c THEN 1 ELSE 0)
      BY HoldersAreCounted
    <3>5. crefno[c] = 0
      BY <2>0, <3>1, <3>3, <3>4 DEF ClientCounts
    <3> QED BY <3>2, <3>5
  <2> QED BY <2>0, <2>1 DEF NoUpcallAfterDelete, PoolIsLast
<1> QED BY <1>1, RefInvHolds, PTL
-----------------------------------------------------------------------------
(* How often a handler runs and when its reply may be forgotten.           *)

In(e, s) == \E i \in DOMAIN s : s[i] = e

(* Request m is packed, on the wire, in the queue or being dispatched.     *)
IsSent(m) == \/ \E t \in Threads : pc[t] # "idle" /\ req[t] = m
             \/ \E w \in Workers : wpc[w] # "idle" /\ h[w] = m
             \/ \E c \in Conns : In(<<c, m>>, jobq) \/ In(m, req_q[c])

IsAnswer(p) == \E c \in Conns : In(p, rep_q[c])

Active(t) == pc[t] \in {"transmit", "waiting", "last", "leaving"}

Runs(w, x) == wpc[w] = "exec" /\ h[w].xid = x

(* What every request says is true of the client and the server, and stays *)
(* so however late it comes.                                               *)
RequestsHonest ==
    \A m \in Requests : IsSent(m) => /\ m.xid < xid_ /\ m.xid_rep < m.xid
                                     /\ m.xid_rep <= Min(xid_rep_window_)
                                     /\ m.srv_nonce <= nonce_
                                     /\ m.proc = "call" => m.srv_nonce > 0

(* Copies of a request are equal.                                          *)
SameXid == \A t \in Threads : pc[t] # "idle" =>
              \A m \in Requests : IsSent(m) /\ m.xid = req[t].xid => m = req[t]

DistinctXids == \A t, u \in Threads :
                   t # u /\ pc[t] # "idle" /\ pc[u] # "idle" => req[t].xid # req[u].xid

(* A worker past dispatch's first lines runs a request for this instance.  *)
JobsForThisInstance == \A w \in Workers : wpc[w] # "idle" => h[w].srv_nonce \in {0, nonce_}

(* An ok is the word of an instance that has run the handler.              *)
AnswersHonest ==
    /\ \A p \in Replies : IsAnswer(p) =>
          /\ p.xid < xid_
          /\ p.ret = "ok" => p.r \in 1 .. nonce_ /\ (p.xid \in Xids => execs[p.xid] > 0)
    /\ \A x \in Xids : done[x].ret = "ok" => done[x].r \in 1 .. nonce_ /\ execs[x] > 0

BindHonest == /\ srv_nonce_ <= nonce_
              /\ bind_done_ => srv_nonce_ > 0
              /\ \A t \in Threads : pc[t] = "bound" => done[req[t].xid].ret = "ok"

(* What the server remembers of an xid, it has run.                        *)
ServerHonest ==
    /\ \A x \in Xids : /\ reply_window_[x] = "done" => execs[x] > 0
                       /\ reply_window_[x] # "absent" => x < xid_
                       /\ execs[x] > 0 => x < xid_
    /\ \A w \in Workers : wpc[w] = "send" /\ stat[w] # "FORGOTTEN" => execs[h[w].xid] > 0

(* The front of xid_rep_window_ is below every call without a reply.       *)
WindowBelow == /\ \A x \in xid_rep_window_ : x < xid_
               /\ \A x \in Unanswered : Min(xid_rep_window_) < x /\ x \notin xid_rep_window_

CallsAreThreads == /\ \A t \in Threads : /\ Active(t) => req[t].xid \in calls_
                                         /\ pc[t] = "idle" => req[t] = NoReq
                   /\ \A x \in calls_ : x < xid_ /\ \E t \in Threads : Active(t) /\ req[t].xid = x

GoneIsIdle == life = "gone" => jobq = <<>> /\ \A w \in Workers : wpc[w] = "idle"

(* While thread t waits for its reply, its handler has run once at most;   *)
(* from the moment a worker takes it up its entry is in reply_window_.     *)
OnceFor(x, n) ==
    /\ execs[x] <= 1
    /\ \A w \in Workers : Runs(w, x) => execs[x] = 0
    /\ \A v, w \in Workers : Runs(v, x) /\ Runs(w, x) => v = w
    /\ (n = nonce_ /\ life # "gone" /\ (execs[x] > 0 \/ \E w \in Workers : Runs(w, x)))
       => reply_window_[x] # "absent"

Waits(t) == Active(t) /\ done[req[t].xid] = NoReply /\ req[t].srv_nonce # 0

Once == \A t \in Threads : Waits(t) => OnceFor(req[t].xid, req[t].srv_nonce)

OnceInv == /\ RequestsHonest /\ SameXid /\ DistinctXids /\ JobsForThisInstance /\ AnswersHonest
           /\ BindHonest /\ ServerHonest /\ WindowBelow /\ CallsAreThreads /\ GoneIsIdle /\ Once
-----------------------------------------------------------------------------
(* Queues.                                                                 *)

LEMMA InTail == ASSUME NEW S, NEW s \in Seq(S), s # <<>>, NEW e, In(e, Tail(s)) PROVE In(e, s)
<1>1. Tail(s) \in Seq(S) /\ Len(Tail(s)) = Len(s) - 1 /\ Len(s) \in Nat /\ Len(s) > 0
  BY HeadTailProperties, LenProperties, EmptySeq
<1>2. DOMAIN s = 1 .. Len(s) /\ DOMAIN Tail(s) = 1 .. Len(s) - 1
  BY <1>1, LenProperties
<1>3. PICK i \in 1 .. Len(s) - 1 : Tail(s)[i] = e
  BY <1>2 DEF In
<1>4. Tail(s)[i] = s[i + 1]
  BY <1>1, HeadTailProperties
<1>5. i + 1 \in DOMAIN s
  BY <1>1, <1>2
<1> QED BY <1>3, <1>4, <1>5 DEF In

LEMMA InHead == ASSUME NEW S, NEW s \in Seq(S), s # <<>> PROVE In(Head(s), s)
<1>1. Len(s) \in Nat /\ Len(s) > 0 /\ DOMAIN s = 1 .. Len(s)
  BY LenProperties, EmptySeq
<1>2. 1 \in DOMAIN s /\ Head(s) = s[1]
  BY <1>1
<1> QED BY <1>2 DEF In

LEMMA InAppend ==
    ASSUME NEW S, NEW s \in Seq(S), NEW x \in S, NEW e, In(e, Append(s, x))
    PROVE  In(e, s) \/ e = x
<1>1. /\ Len(s) \in Nat /\ DOMAIN s = 1 .. Len(s)
      /\ Append(s, x) \in Seq(S) /\ Len(Append(s, x)) = Len(s) + 1
  BY AppendProperties, LenProperties
<1>2. DOMAIN Append(s, x) = 1 .. Len(s) + 1
  BY <1>1, LenProperties
<1>3. PICK i \in 1 .. Len(s) + 1 : Append(s, x)[i] = e
  BY <1>2 DEF In
<1>4. CASE i \in 1 .. Len(s)
  <2>1. Append(s, x)[i] = s[i]
    BY <1>4, AppendProperties
  <2> QED BY <1>1, <1>3, <1>4, <2>1 DEF In
<1>5. CASE i = Len(s) + 1
  <2>1. Append(s, x)[i] = x
    BY <1>5, AppendProperties
  <2> QED BY <1>3, <2>1
<1> QED BY <1>1, <1>3, <1>4, <1>5

LEMMA InEmpty == ASSUME NEW e PROVE ~In(e, <<>>)
  BY DEF In

-----------------------------------------------------------------------------
(* What steps may do to the parts of the invariant.                        *)

(* Threads go on with the request they have, or end.                       *)
ThreadsGoOn == \A t \in Threads : /\ pc'[t] # "idle" => pc[t] # "idle" /\ req'[t] = req[t]
                                  /\ pc'[t] = "idle" => req'[t] = NoReq

(* No request appears but call1's.                                         *)
NoNewRequest == \A m \in Requests : IsSent(m)' => IsSent(m)

LEMMA RequestsStay ==
    ASSUME RefInv, OnceInv, RefInv', NoNewRequest, ThreadsGoOn, xid_' = xid_,
           Min(xid_rep_window_) <= Min(xid_rep_window_'), nonce_ <= nonce_'
    PROVE  RequestsHonest' /\ SameXid' /\ DistinctXids'
<1>0. RequestsHonest /\ SameXid /\ DistinctXids
  BY DEF OnceInv
<1>1. RequestsHonest'
  <2> SUFFICES ASSUME NEW m \in Requests, IsSent(m)'
               PROVE  /\ m.xid < xid_' /\ m.xid_rep < m.xid
                      /\ m.xid_rep <= Min(xid_rep_window_')
                      /\ m.srv_nonce <= nonce_'
                      /\ m.proc = "call" => m.srv_nonce > 0
    BY DEF RequestsHonest
  <2>1. IsSent(m)
    BY DEF NoNewRequest
  <2>2. /\ m.xid < xid_ /\ m.xid_rep < m.xid
        /\ m.xid_rep <= Min(xid_rep_window_)
        /\ m.srv_nonce <= nonce_
        /\ m.proc = "call" => m.srv_nonce > 0
    BY <1>0, <2>1 DEF RequestsHonest
  <2>3. m.xid_rep \in Nat /\ m.srv_nonce \in Nat /\ nonce_ \in Nat /\ nonce_' \in Nat
    BY MaxInstAssumption, MaxXidAssumption, RefInvParts DEF Requests, Nonces, ServerPart, ServerTypes
  <2>4. Min(xid_rep_window_) \in Nat /\ Min(xid_rep_window_') \in Nat
    <3>1. xid_rep_window_ \in SUBSET Nat /\ xid_rep_window_ # {}
      BY MaxXidAssumption, RefInvParts DEF ClientPart, ClientTypes, WindowNotEmpty
    <3>2. xid_rep_window_' \in SUBSET Nat /\ xid_rep_window_' # {}
      BY MaxXidAssumption, RefInvParts DEF ClientPart, ClientTypes, WindowNotEmpty
    <3> QED BY <3>1, <3>2, MinOfNats
  <2> QED BY <2>2, <2>3, <2>4
<1>2. SameXid'
  <2> SUFFICES ASSUME NEW t \in Threads, pc'[t] # "idle", NEW m \in Requests, IsSent(m)',
                      m.xid = req'[t].xid
               PROVE  m = req'[t]
    BY DEF SameXid
  <2> QED BY <1>0 DEF SameXid, NoNewRequest, ThreadsGoOn
<1>3. DistinctXids'
  BY <1>0 DEF DistinctXids, ThreadsGoOn
<1> QED BY <1>1, <1>2, <1>3

(* A step that leaves the server's variables alone.                        *)
LEMMA ServerStays ==
    ASSUME RefInv, OnceInv, UNCHANGED <<servervars, life>>, xid_ <= xid_', xid_' \in Nat
    PROVE  JobsForThisInstance' /\ ServerHonest' /\ GoneIsIdle'
<1>0. JobsForThisInstance /\ ServerHonest /\ GoneIsIdle
  BY DEF OnceInv
<1>1. /\ nonce_' = nonce_ /\ reply_window_' = reply_window_ /\ jobq' = jobq /\ wpc' = wpc
      /\ h' = h /\ stat' = stat /\ execs' = execs /\ life' = life
  BY DEF servervars
<1>2. JobsForThisInstance' /\ GoneIsIdle'
  BY <1>0, <1>1 DEF JobsForThisInstance, GoneIsIdle
<1>3. \A x \in Xids : x < xid_ => x < xid_'
  <2>1. xid_ \in Nat /\ \A x \in Xids : x \in Nat
    BY MaxXidAssumption, RefInvParts DEF ClientPart, ClientTypes, Xids
  <2> QED BY <2>1
<1>4. ServerHonest'
  BY <1>0, <1>1, <1>3 DEF ServerHonest
<1> QED BY <1>2, <1>4

LEMMA OnceStays ==
    ASSUME OnceInv, UNCHANGED <<servervars, life>>,
           \A t \in Threads : Waits(t)' => Waits(t) /\ req'[t] = req[t]
    PROVE  Once'
<1>0. Once
  BY DEF OnceInv
<1>1. /\ nonce_' = nonce_ /\ reply_window_' = reply_window_ /\ wpc' = wpc
      /\ h' = h /\ execs' = execs /\ life' = life
  BY DEF servervars
<1> SUFFICES ASSUME NEW t \in Threads, Waits(t)' PROVE OnceFor(req[t].xid, req[t].srv_nonce)'
  BY DEF Once
<1>2. OnceFor(req[t].xid, req[t].srv_nonce) /\ req'[t] = req[t]
  BY <1>0 DEF Once
<1>3. \A w \in Workers : \A x : Runs(w, x)' <=> Runs(w, x)
  BY <1>1 DEF Runs
<1> QED BY <1>1, <1>2, <1>3 DEF OnceFor

(* A step that leaves the client's variables alone.                        *)
LEMMA ClientStays ==
    ASSUME RefInv, OnceInv, UNCHANGED clientvars, nonce_ <= nonce_', nonce_' \in Nat
    PROVE  BindHonest' /\ WindowBelow' /\ CallsAreThreads'
<1>0. BindHonest /\ WindowBelow /\ CallsAreThreads
  BY DEF OnceInv
<1>1. /\ srv_nonce_' = srv_nonce_ /\ bind_done_' = bind_done_ /\ pc' = pc /\ req' = req /\ done' = done
      /\ xid_' = xid_ /\ calls_' = calls_ /\ xid_rep_window_' = xid_rep_window_
  BY DEF clientvars
<1>2. srv_nonce_ \in Nat /\ nonce_ \in Nat
  BY MaxInstAssumption, RefInvParts DEF ClientPart, ClientTypes, ServerPart, ServerTypes, Nonces
<1>3. BindHonest'
  BY <1>0, <1>1, <1>2 DEF BindHonest
<1>4. WindowBelow' /\ CallsAreThreads'
  BY <1>0, <1>1 DEF WindowBelow, CallsAreThreads, Unanswered, Active
<1> QED BY <1>3, <1>4

(* Answers get lost, the rest only grows.                                  *)
LEMMA AnswersStay ==
    ASSUME RefInv, OnceInv, RefInv', \A p \in Replies : IsAnswer(p)' => IsAnswer(p), done' = done,
           nonce_ <= nonce_', xid_ <= xid_', \A x \in Xids : execs[x] <= execs'[x]
    PROVE  AnswersHonest'
<1>0. AnswersHonest
  BY DEF OnceInv
<1>1. /\ nonce_ \in Nat /\ nonce_' \in Nat /\ xid_ \in Nat /\ xid_' \in Nat
      /\ \A x \in Xids : execs[x] \in Nat /\ execs'[x] \in Nat
  BY MaxInstAssumption, MaxXidAssumption, RefInvParts DEF ClientPart, ClientTypes, ServerPart, ServerTypes
<1>2. \A x \in Xids : execs[x] > 0 => execs'[x] > 0
  BY <1>1
<1>3. \A n : n \in 1 .. nonce_ => n \in 1 .. nonce_'
  BY <1>1
<1>4. ASSUME NEW p \in Replies, p.xid < xid_ PROVE p.xid < xid_'
  <2>1. p.xid \in Nat
    BY MaxXidAssumption DEF Replies
  <2> QED BY <1>1, <1>4, <2>1
<1> QED BY <1>0, <1>2, <1>3, <1>4 DEF AnswersHonest

(* A packed request, and a worker's, is sent.                              *)
LEMMA SentByThread ==
    ASSUME RefInv, NEW t \in Threads, pc[t] # "idle" PROVE IsSent(req[t]) /\ req[t] \in Requests
<1>1. req[t] \in Requests
  BY RefInvParts DEF ClientPart, CallsHaveRequests
<1> QED BY <1>1 DEF IsSent

LEMMA SentByWorker ==
    ASSUME RefInv, NEW w \in Workers, wpc[w] # "idle" PROVE IsSent(h[w]) /\ h[w] \in Requests
<1>1. h[w] \in Requests
  BY RefInvParts DEF ServerPart, WorkersHaveJobs
<1> QED BY <1>1 DEF IsSent

(* The front of xid_rep_window_ is below the next xid.                     *)
LEMMA FrontBelow ==
    ASSUME RefInv, OnceInv
    PROVE  /\ Min(xid_rep_window_) \in xid_rep_window_ /\ Min(xid_rep_window_) \in Nat
           /\ Min(xid_rep_window_) < xid_ /\ xid_ \in Nat
<1>1. xid_rep_window_ \in SUBSET Nat /\ xid_rep_window_ # {} /\ xid_ \in Nat
  BY MaxXidAssumption, RefInvParts DEF ClientPart, ClientTypes, WindowNotEmpty
<1>2. Min(xid_rep_window_) \in xid_rep_window_
  BY <1>1, MinOfNats
<1> QED BY <1>1, <1>2 DEF OnceInv, WindowBelow

(* A new call: nothing is known of its xid yet.                            *)
LEMMA Call1Once ==
    ASSUME RefInv, OnceInv, RefInv', NEW t \in Threads, NEW proc \in Procs, call1(t, proc),
           UNCHANGED servervars
    PROVE  OnceInv'
<1> DEFINE m == [xid |-> xid_, proc |-> proc, srv_nonce |-> srv_nonce_,
                 xid_rep |-> Min(xid_rep_window_)]
<1>0. /\ RequestsHonest /\ SameXid /\ DistinctXids /\ AnswersHonest
      /\ BindHonest /\ ServerHonest /\ WindowBelow /\ CallsAreThreads /\ Once
  BY DEF OnceInv
<1>1. /\ pc[t] = "idle" /\ xid_ \in Xids /\ (proc = "bind" <=> ~bind_done_)
      /\ xid_' = xid_ + 1 /\ calls_' = calls_ \cup {xid_}
      /\ req' = [req EXCEPT ![t] = m] /\ pc' = [pc EXCEPT ![t] = "transmit"]
      /\ bind_done_' = bind_done_ /\ srv_nonce_' = srv_nonce_ /\ xid_rep_window_' = xid_rep_window_
      /\ done' = done /\ req_q' = req_q /\ rep_q' = rep_q /\ life' = life
  BY DEF call1, netvars
<1>2. /\ nonce_' = nonce_ /\ wpc' = wpc /\ h' = h /\ jobq' = jobq /\ execs' = execs
      /\ reply_window_' = reply_window_
  BY DEF servervars
<1>3. ClientTypes /\ CallsHaveRequests /\ ServerTypes
  BY RefInvParts DEF ClientPart, ServerPart
<1>4. m \in Requests /\ m.xid = xid_ /\ m.proc = proc /\ m.srv_nonce = srv_nonce_
      /\ m.xid_rep = Min(xid_rep_window_)
  BY <1>1, <1>3, PackedRequest, RefInvParts DEF ClientPart
<1> HIDE DEF m
<1>5. /\ pc'[t] = "transmit" /\ req'[t] = m
      /\ \A u \in Threads : u # t => pc'[u] = pc[u] /\ req'[u] = req[u]
  BY <1>1, <1>3 DEF ClientTypes
<1>6. \A k \in Requests : IsSent(k)' => IsSent(k) \/ k = m
  BY <1>1, <1>2, <1>5, Zenon DEF IsSent
<1>7. xid_ \in Nat /\ xid_' \in Nat /\ xid_ < xid_' /\ Min(xid_rep_window_) < xid_ /\ Min(xid_rep_window_) \in Nat
  BY <1>1, FrontBelow
<1>8. \A k \in Requests : IsSent(k) => k.xid < xid_ /\ k.xid \in Nat /\ k.xid # xid_
  <2>1. \A k \in Requests : k.xid \in Nat
    BY MaxXidAssumption DEF Requests, Xids
  <2> QED BY <1>0, <1>7, <2>1 DEF RequestsHonest
<1>9. \A u \in Threads : pc[u] # "idle" => req[u] \in Requests /\ req[u].xid < xid_ /\ req[u].xid # xid_
  BY <1>8, SentByThread
<1>10. RequestsHonest'
  <2>1. m.proc = "call" => m.srv_nonce > 0
    BY <1>0, <1>1, <1>4 DEF BindHonest
  <2>2. m.srv_nonce <= nonce_ /\ m.xid_rep < m.xid /\ m.xid < xid_' /\ m.xid_rep <= Min(xid_rep_window_)
    BY <1>0, <1>4, <1>7 DEF BindHonest
  <2>3. \A k \in Requests : IsSent(k) => k.xid < xid_'
    BY <1>7, <1>8
  <2> QED BY <1>0, <1>1, <1>2, <1>6, <2>1, <2>2, <2>3 DEF RequestsHonest
<1>11. SameXid'
  <2> SUFFICES ASSUME NEW u \in Threads, pc'[u] # "idle", NEW k \in Requests, IsSent(k)',
                      k.xid = req'[u].xid
               PROVE  k = req'[u]
    BY DEF SameXid
  <2>1. CASE u = t
    BY <1>4, <1>5, <1>6, <1>8, <2>1
  <2>2. CASE u # t
    BY <1>0, <1>4, <1>5, <1>6, <1>9, <2>2 DEF SameXid
  <2> QED BY <2>1, <2>2
<1>12. DistinctXids'
  BY <1>0, <1>4, <1>5, <1>9 DEF DistinctXids
<1>13. AnswersHonest'
  <2>1. \A p \in Replies : IsAnswer(p)' => IsAnswer(p)
    BY <1>1 DEF IsAnswer
  <2>2. nonce_ <= nonce_' /\ \A x \in Xids : execs[x] <= execs'[x]
    BY <1>2, <1>3, MaxInstAssumption DEF ServerTypes
  <2>3. xid_ <= xid_'
    BY <1>7
  <2> QED BY <1>1, <2>1, <2>2, <2>3, AnswersStay
<1>14. BindHonest'
  <2>1. \A u \in Threads : pc'[u] = "bound" => pc[u] = "bound" /\ req'[u] = req[u]
    BY <1>5
  <2> QED BY <1>0, <1>1, <1>2, <2>1 DEF BindHonest
<1>15. JobsForThisInstance' /\ ServerHonest' /\ GoneIsIdle'
  <2>1. xid_ <= xid_'
    BY <1>7
  <2> QED BY <1>1, <1>7, <2>1, ServerStays
<1>16. WindowBelow'
  <2>1. \A x \in xid_rep_window_ : x < xid_ /\ x \in Nat
    BY <1>0, <1>3, MaxXidAssumption DEF WindowBelow, ClientTypes
  <2>2. \A x \in xid_rep_window_ : x < xid_' /\ x # xid_
    BY <1>7, <2>1
  <2>3. \A x \in Unanswered' : x \in Unanswered \/ x = xid_
    BY <1>1 DEF Unanswered
  <2>4. \A x \in Unanswered : Min(xid_rep_window_) < x /\ x \notin xid_rep_window_
    BY <1>0 DEF WindowBelow
  <2>5. xid_ \notin xid_rep_window_
    BY <2>2
  <2> QED BY <1>1, <1>7, <2>2, <2>3, <2>4, <2>5 DEF WindowBelow
<1>17. CallsAreThreads'
  <2>1. \A u \in Threads : u # t => (Active(u)' <=> Active(u)) /\ req'[u] = req[u] /\ pc'[u] = pc[u]
    BY <1>5 DEF Active
  <2>2. Active(t)' /\ ~Active(t)
    BY <1>1, <1>5 DEF Active
  <2>3. \A x \in calls_' : x < xid_' /\ \E u \in Threads : Active(u)' /\ req'[u].xid = x
    <3> SUFFICES ASSUME NEW x \in calls_' PROVE x < xid_' /\ \E u \in Threads : Active(u)' /\ req'[u].xid = x
      OBVIOUS
    <3>1. CASE x = xid_
      BY <1>4, <1>5, <1>7, <2>2, <3>1
    <3>2. CASE x \in calls_
      <4>1. PICK u \in Threads : Active(u) /\ req[u].xid = x
        BY <1>0, <3>2 DEF CallsAreThreads
      <4>2. x < xid_ /\ x \in Nat
        BY <1>0, <1>3, <3>2, MaxXidAssumption DEF CallsAreThreads, ClientTypes, Xids
      <4>3. x < xid_'
        BY <1>7, <4>2
      <4>4. u # t
        BY <2>2, <4>1
      <4> QED BY <2>1, <4>1, <4>3, <4>4
    <3> QED BY <1>1, <3>1, <3>2
  <2>4. \A u \in Threads : Active(u)' => req'[u].xid \in calls_'
    BY <1>0, <1>1, <1>4, <1>5, <2>1 DEF CallsAreThreads
  <2>5. \A u \in Threads : pc'[u] = "idle" => req'[u] = NoReq
    BY <1>0, <1>5, <2>1 DEF CallsAreThreads
  <2> QED BY <2>3, <2>4, <2>5 DEF CallsAreThreads
<1>18. Once'
  <2> SUFFICES ASSUME NEW u \in Threads, Waits(u)' PROVE OnceFor(req[u].xid, req[u].srv_nonce)'
    BY DEF Once
  <2>0. \A w \in Workers : \A x : Runs(w, x)' <=> Runs(w, x)
    BY <1>2 DEF Runs
  <2>1. CASE u = t
    <3>1. req'[u].xid = xid_
      BY <1>4, <1>5, <2>1
    <3>2. execs[xid_] = 0
      <4>1. execs[xid_] \in Nat
        BY <1>1, <1>3 DEF ServerTypes
      <4>2. ~(execs[xid_] > 0)
        BY <1>0, <1>1, <1>7 DEF ServerHonest
      <4> QED BY <4>1, <4>2
    <3>3. \A w \in Workers : ~Runs(w, xid_)
      BY <1>8, SentByWorker DEF Runs
    <3> QED BY <1>2, <2>0, <3>1, <3>2, <3>3 DEF OnceFor
  <2>2. CASE u # t
    <3>1. Waits(u) /\ req'[u] = req[u]
      BY <1>1, <1>5, <2>2 DEF Waits, Active
    <3>2. OnceFor(req[u].xid, req[u].srv_nonce)
      BY <1>0, <3>1 DEF Once
    <3> QED BY <1>1, <1>2, <2>0, <3>1, <3>2 DEF OnceFor
  <2> QED BY <2>1, <2>2
<1> QED BY <1>10, <1>11, <1>12, <1>13, <1>14, <1>15, <1>16, <1>17, <1>18 DEF OnceInv

(* A step that changes neither what client and server know of calls nor    *)
(* which calls there are.                                                  *)
LEMMA QuietOnce ==
    ASSUME RefInv, OnceInv, RefInv', NoNewRequest, \A p \in Replies : IsAnswer(p)' => IsAnswer(p),
           UNCHANGED <<servervars, life, xid_, done, xid_rep_window_, calls_, bind_done_, srv_nonce_, req>>,
           \A t \in Threads : /\ (Active(t)' <=> Active(t))
                              /\ (pc'[t] = "idle" <=> pc[t] = "idle")
                              /\ (pc'[t] = "bound" <=> pc[t] = "bound")
    PROVE  OnceInv'
<1>0. /\ BindHonest /\ WindowBelow /\ CallsAreThreads
  BY DEF OnceInv
<1>1. nonce_' = nonce_ /\ execs' = execs
  BY DEF servervars
<1>2. /\ nonce_ \in Nat /\ xid_ \in Nat /\ Min(xid_rep_window_) \in Nat
      /\ \A x \in Xids : execs[x] \in Nat
  BY FrontBelow, MaxInstAssumption, RefInvParts DEF ServerPart, ServerTypes
<1>3. ThreadsGoOn
  BY <1>0 DEF ThreadsGoOn, CallsAreThreads
<1>4. RequestsHonest' /\ SameXid' /\ DistinctXids'
  <2>1. Min(xid_rep_window_) <= Min(xid_rep_window_') /\ nonce_ <= nonce_'
    BY <1>1, <1>2
  <2> QED BY <1>3, <2>1, RequestsStay
<1>5. JobsForThisInstance' /\ ServerHonest' /\ GoneIsIdle'
  BY <1>2, ServerStays
<1>6. AnswersHonest'
  BY <1>1, <1>2, AnswersStay
<1>7. BindHonest'
  BY <1>0, <1>1 DEF BindHonest
<1>8. WindowBelow'
  BY <1>0 DEF WindowBelow, Unanswered
<1>9. CallsAreThreads'
  BY <1>0, Zenon DEF CallsAreThreads
<1>10. Once'
  <2>1. \A t \in Threads : Waits(t)' => Waits(t) /\ req'[t] = req[t]
    BY DEF Waits
  <2> QED BY <2>1, OnceStays
<1> QED BY <1>4, <1>5, <1>6, <1>7, <1>8, <1>9, <1>10 DEF OnceInv

LEMMA TransmitOnce ==
    ASSUME RefInv, OnceInv, RefInv', NEW t \in Threads, transmit(t), UNCHANGED servervars
    PROVE  OnceInv'
<1>0. NetTypes /\ ClientTypes /\ ClientTypes' /\ CallsHaveRequests
  BY RefInvParts DEF ClientPart
<1>1. /\ pc[t] \in {"transmit", "last"}
      /\ pc' = [pc EXCEPT ![t] = IF @ = "last" THEN "leaving" ELSE "waiting"]
      /\ UNCHANGED <<xid_, bind_done_, srv_nonce_, xid_rep_window_, calls_, done, deleted, req,
                     rep_q, cdead, sobj, srefno, life>>
  BY DEF transmit
<1>2. req_q' = ClientSend(req_q, ch'[t], req[t])
  BY DEF transmit
<1>3. req[t] \in Requests
  BY <1>0, <1>1 DEF CallsHaveRequests
<1>4. ASSUME NEW c \in Conns, NEW m, In(m, req_q'[c]) PROVE In(m, req_q[c]) \/ m = req[t]
  <2>1. req_q[c] \in Seq(Requests)
    BY <1>0 DEF NetTypes
  <2>2. req_q'[c] = req_q[c] \/ req_q'[c] = Append(req_q[c], req[t])
    BY <1>0, <1>2 DEF ClientSend, NetTypes
  <2>3. CASE req_q'[c] = Append(req_q[c], req[t])
    BY <1>3, <1>4, <2>1, <2>3, InAppend
  <2> QED BY <1>4, <2>2, <2>3
<1>5. pc'[t] \in {"leaving", "waiting"} /\ \A u \in Threads : u # t => pc'[u] = pc[u]
  BY <1>0, <1>1 DEF ClientTypes
<1>6. \A u \in Threads : /\ (Active(u)' <=> Active(u))
                         /\ (pc'[u] = "idle" <=> pc[u] = "idle")
                         /\ (pc'[u] = "bound" <=> pc[u] = "bound")
  BY <1>1, <1>5 DEF Active
<1>7. NoNewRequest
  <2> SUFFICES ASSUME NEW m \in Requests, IsSent(m)' PROVE IsSent(m)
    BY DEF NoNewRequest
  <2>1. wpc' = wpc /\ h' = h /\ jobq' = jobq
    BY DEF servervars
  <2>2. pc[t] # "idle"
    BY <1>1
  <2>3. CASE \E c \in Conns : In(m, req_q'[c])
    BY <1>4, <2>2, <2>3 DEF IsSent
  <2>4. CASE ~\E c \in Conns : In(m, req_q'[c])
    BY <1>1, <1>6, <2>1, <2>4, Zenon DEF IsSent
  <2> QED BY <2>3, <2>4
<1>8. \A p \in Replies : IsAnswer(p)' => IsAnswer(p)
  BY <1>1 DEF IsAnswer
<1> QED BY <1>1, <1>6, <1>7, <1>8, QuietOnce

LEMMA TimeoutOnce ==
    ASSUME RefInv, OnceInv, RefInv', NEW t \in Threads, timeout(t) \/ final_timeout(t),
           UNCHANGED servervars
    PROVE  OnceInv'
<1>0. ClientTypes
  BY RefInvParts DEF ClientPart
<1>1. /\ pc[t] = "waiting"
      /\ \E l \in {"transmit", "last", "leaving"} : pc' = [pc EXCEPT ![t] = l]
      /\ UNCHANGED <<xid_, bind_done_, srv_nonce_, xid_rep_window_, calls_, done, chan_,
                     deleted, req, ch, netvars>>
  BY DEF timeout, final_timeout
<1>2. PICK l \in {"transmit", "last", "leaving"} : pc' = [pc EXCEPT ![t] = l]
  BY <1>1
<1>3. pc'[t] = l /\ \A u \in Threads : u # t => pc'[u] = pc[u]
  BY <1>0, <1>2 DEF ClientTypes
<1>4. \A u \in Threads : /\ (Active(u)' <=> Active(u))
                         /\ (pc'[u] = "idle" <=> pc[u] = "idle")
                         /\ (pc'[u] = "bound" <=> pc[u] = "bound")
  BY <1>1, <1>3 DEF Active
<1>5. wpc' = wpc /\ h' = h /\ jobq' = jobq /\ req_q' = req_q /\ rep_q' = rep_q /\ life' = life
  BY <1>1 DEF servervars, netvars
<1>6. NoNewRequest
  BY <1>1, <1>4, <1>5, Zenon DEF NoNewRequest, IsSent
<1>7. \A p \in Replies : IsAnswer(p)' => IsAnswer(p)
  BY <1>5 DEF IsAnswer
<1> QED BY <1>1, <1>4, <1>5, <1>6, <1>7, QuietOnce

(* Steps of the network, ~rpcc and steps of others: PDUs are lost at most. *)
LEMMA LossOnce ==
    ASSUME RefInv, OnceInv, RefInv',
           UNCHANGED <<servervars, life, xid_, done, xid_rep_window_, calls_, bind_done_, srv_nonce_, pc, req>>,
           \A c \in Conns : /\ req_q'[c] \in {req_q[c], <<>>}
                            /\ rep_q'[c] \in {rep_q[c], <<>>}
    PROVE  OnceInv'
<1>1. wpc' = wpc /\ h' = h /\ jobq' = jobq /\ pc' = pc /\ req' = req
  BY DEF servervars
<1>2. \A c \in Conns : \A m : /\ In(m, req_q'[c]) => In(m, req_q[c])
                              /\ In(m, rep_q'[c]) => In(m, rep_q[c])
  BY InEmpty
<1>3. NoNewRequest
  BY <1>1, <1>2, Zenon DEF NoNewRequest, IsSent
<1>4. \A p \in Replies : IsAnswer(p)' => IsAnswer(p)
  BY <1>2 DEF IsAnswer
<1>5. \A t \in Threads : /\ (Active(t)' <=> Active(t))
                         /\ (pc'[t] = "idle" <=> pc[t] = "idle")
                         /\ (pc'[t] = "bound" <=> pc[t] = "bound")
  BY <1>1 DEF Active
<1> QED BY <1>3, <1>4, <1>5, QuietOnce

LEMMA NetOnce ==
    ASSUME RefInv, OnceInv, RefInv', NEW c \in Conns, Break(c) \/ client_dies(c) \/ server_dies(c),
           UNCHANGED <<clientvars, servervars>>
    PROVE  OnceInv'
<1>1. NetTypes
  BY RefInvParts
<1>2. /\ req_q' = req_q \/ req_q' = [req_q EXCEPT ![c] = <<>>]
      /\ rep_q' = rep_q \/ rep_q' = [rep_q EXCEPT ![c] = <<>>]
      /\ life' = life
  BY DEF Break, client_dies, server_dies
<1>3. \A d \in Conns : req_q'[d] \in {req_q[d], <<>>}
  BY <1>1, <1>2 DEF NetTypes
<1>4. \A d \in Conns : rep_q'[d] \in {rep_q[d], <<>>}
  BY <1>1, <1>2 DEF NetTypes
<1> QED BY <1>2, <1>3, <1>4, LossOnce DEF clientvars

LEMMA DeleteClientOnce ==
    ASSUME RefInv, OnceInv, RefInv', delete_client, UNCHANGED servervars
    PROVE  OnceInv'
<1>1. /\ rep_q' = [c \in Conns |-> IF c = chan_ THEN <<>> ELSE rep_q[c]]
      /\ UNCHANGED <<xid_, bind_done_, srv_nonce_, xid_rep_window_, calls_, done, pc, req, ch, req_q,
                     sobj, srefno, life>>
  BY DEF delete_client
<1>2. \A c \in Conns : /\ req_q'[c] \in {req_q[c], <<>>}
                       /\ rep_q'[c] \in {rep_q[c], <<>>}
  BY <1>1
<1> QED BY <1>1, <1>2, LossOnce

LEMMA StutterOnce ==
    ASSUME RefInv, OnceInv, RefInv', UNCHANGED vars PROVE OnceInv'
<1>1. UNCHANGED <<servervars, life, xid_, done, xid_rep_window_, calls_, bind_done_, srv_nonce_, pc, req,
                  req_q, rep_q>>
  BY DEF vars, clientvars, netvars
<1>2. \A c \in Conns : /\ req_q'[c] \in {req_q[c], <<>>}
                       /\ rep_q'[c] \in {rep_q[c], <<>>}
  BY <1>1
<1> QED BY <1>1, <1>2, LossOnce

(* update_xid_rep(z) for a z that has its reply or is no longer waited for *)
(* leaves the front below every call that has none.                        *)
LEMMA WindowAdvances ==
    ASSUME RefInv, OnceInv, NEW z \in 0 .. MaxXid, z < xid_, xid_' = xid_,
           xid_rep_window_' = UpdateSet(xid_rep_window_, z),
           \A x \in Unanswered' : x \in Unanswered /\ x # z
    PROVE  WindowBelow' /\ Min(xid_rep_window_) <= Min(xid_rep_window_')
<1> DEFINE W == xid_rep_window_
           U == UpdateSet(W, z)
<1>0. WindowBelow
  BY DEF OnceInv
<1>1. W \in SUBSET (0 .. MaxXid) /\ W # {}
  BY RefInvParts DEF ClientPart, ClientTypes, WindowNotEmpty
<1> HIDE DEF W
<1>2. /\ U \subseteq W \cup {z}
      /\ Min(W) <= Min(U)
      /\ \A x \in Nat : Min(W) < x /\ x \notin W /\ x # z => Min(U) < x
  BY <1>1, UpdateSetKeeps, MaxXidAssumption, Zenon
<1> HIDE DEF U
<1>3. xid_rep_window_' = U /\ xid_rep_window_ = W
  BY DEF U, W
<1>4. \A x \in U : x < xid_'
  <2>1. \A x \in W : x < xid_
    BY <1>0, <1>3 DEF WindowBelow
  <2> QED BY <1>2, <2>1
<1>5. ASSUME NEW x \in Unanswered' PROVE Min(U) < x /\ x \notin U
  <2>1. x \in Unanswered /\ x # z
    BY <1>5
  <2>2. x \in Nat
    BY <2>1, MaxXidAssumption, RefInvParts DEF Unanswered, ClientPart, ClientTypes, Xids
  <2>3. Min(W) < x /\ x \notin W
    BY <1>0, <1>3, <2>1 DEF WindowBelow
  <2> QED BY <1>2, <2>1, <2>2, <2>3
<1> QED BY <1>2, <1>3, <1>4, <1>5 DEF WindowBelow

LEMMA LeaveOnce ==
    ASSUME RefInv, OnceInv, RefInv', NEW t \in Threads, leave(t), UNCHANGED servervars
    PROVE  OnceInv'
<1> DEFINE z == req[t].xid
<1>0. BindHonest /\ DistinctXids /\ CallsAreThreads /\ RequestsHonest
  BY DEF OnceInv
<1>1. /\ pc[t] \in {"leaving", "waiting"}
      /\ calls_' = calls_ \ {z}
      /\ xid_rep_window_' = UpdateSet(xid_rep_window_, z)
      /\ UNCHANGED <<xid_, bind_done_, srv_nonce_, done, chan_, deleted, link, req_q, rep_q, cdead,
                     sobj, srefno, life>>
  BY DEF leave
<1>2. \/ done[z].ret = "ok" /\ pc' = [pc EXCEPT ![t] = "bound"] /\ req' = req
      \/ pc' = [pc EXCEPT ![t] = "idle"] /\ req' = [req EXCEPT ![t] = NoReq]
  BY DEF leave
<1>3. pc \in [Threads -> ClientPCs] /\ req \in [Threads -> Requests \cup {NoReq}]
  BY RefInvParts DEF ClientPart, ClientTypes
<1>4. /\ \/ pc'[t] = "bound" /\ req'[t] = req[t] /\ done[z].ret = "ok"
         \/ pc'[t] = "idle" /\ req'[t] = NoReq
      /\ \A u \in Threads : u # t => pc'[u] = pc[u] /\ req'[u] = req[u]
  BY <1>2, <1>3
<1>5. IsSent(req[t]) /\ req[t] \in Requests
  BY <1>1, SentByThread
<1>6. z \in 0 .. MaxXid /\ z < xid_
  BY <1>0, <1>5, MaxXidAssumption DEF RequestsHonest, Requests, Xids
<1> HIDE DEF z
<1>7. wpc' = wpc /\ h' = h /\ jobq' = jobq /\ nonce_' = nonce_ /\ execs' = execs
  BY DEF servervars
<1>8. ThreadsGoOn
  BY <1>0, <1>1, <1>4 DEF ThreadsGoOn, CallsAreThreads
<1>9. NoNewRequest
  BY <1>1, <1>7, <1>8, Zenon DEF NoNewRequest, ThreadsGoOn, IsSent
<1>10. WindowBelow' /\ Min(xid_rep_window_) <= Min(xid_rep_window_')
  <2>1. \A x \in Unanswered' : x \in Unanswered /\ x # z
    BY <1>1 DEF Unanswered
  <2> QED BY <1>1, <1>6, <2>1, WindowAdvances
<1>11. /\ nonce_ \in Nat /\ xid_ \in Nat /\ \A x \in Xids : execs[x] \in Nat
  BY FrontBelow, MaxInstAssumption, RefInvParts DEF ServerPart, ServerTypes
<1>12. RequestsHonest' /\ SameXid' /\ DistinctXids'
  <2>1. nonce_ <= nonce_'
    BY <1>7, <1>11
  <2> QED BY <1>1, <1>8, <1>9, <1>10, <2>1, RequestsStay
<1>13. JobsForThisInstance' /\ ServerHonest' /\ GoneIsIdle'
  <2>1. xid_ <= xid_' /\ xid_' \in Nat
    BY <1>1, <1>11
  <2> QED BY <1>1, <2>1, ServerStays
<1>14. AnswersHonest'
  <2>1. \A p \in Replies : IsAnswer(p)' => IsAnswer(p)
    BY <1>1 DEF IsAnswer
  <2>2. nonce_ <= nonce_' /\ xid_ <= xid_' /\ \A x \in Xids : execs[x] <= execs'[x]
    BY <1>1, <1>7, <1>11
  <2> QED BY <1>1, <2>1, <2>2, AnswersStay
<1>15. BindHonest'
  <2>1. \A u \in Threads : pc'[u] = "bound" => done'[req'[u].xid].ret = "ok"
    BY <1>0, <1>1, <1>4 DEF BindHonest, z
  <2> QED BY <1>0, <1>1, <1>7, <2>1 DEF BindHonest
<1>16. ~Active(t)' /\ Active(t)
       /\ \A u \in Threads : u # t => (Active(u)' <=> Active(u)) /\ req'[u] = req[u]
  BY <1>1, <1>4 DEF Active
<1>17. \A u \in Threads : u # t /\ Active(u) => req[u].xid # z
  BY <1>0, <1>16 DEF DistinctXids, Active, z
<1>18. CallsAreThreads'
  <2>1. \A u \in Threads : Active(u)' => req'[u].xid \in calls_'
    BY <1>0, <1>1, <1>16, <1>17 DEF CallsAreThreads
  <2>2. \A u \in Threads : pc'[u] = "idle" => req'[u] = NoReq
    BY <1>8 DEF ThreadsGoOn
  <2>3. ASSUME NEW x \in calls_' PROVE x < xid_' /\ \E u \in Threads : Active(u)' /\ req'[u].xid = x
    <3>1. x \in calls_ /\ x # z
      BY <1>1, <2>3
    <3>2. PICK u \in Threads : Active(u) /\ req[u].xid = x
      BY <1>0, <3>1 DEF CallsAreThreads
    <3>3. u # t
      BY <3>1, <3>2 DEF z
    <3>4. x < xid_'
      BY <1>0, <1>1, <3>1 DEF CallsAreThreads
    <3> QED BY <1>16, <3>2, <3>3, <3>4
  <2> QED BY <2>1, <2>2, <2>3 DEF CallsAreThreads
<1>19. Once'
  <2>1. \A u \in Threads : Waits(u)' => Waits(u) /\ req'[u] = req[u]
    BY <1>1, <1>16 DEF Waits
  <2> QED BY <1>1, <2>1, OnceStays
<1> QED BY <1>10, <1>12, <1>13, <1>14, <1>15, <1>18, <1>19 DEF OnceInv

LEMMA BindFinishOnce ==
    ASSUME RefInv, OnceInv, RefInv', NEW t \in Threads, bind_finish(t), UNCHANGED servervars
    PROVE  OnceInv'
<1>0. BindHonest /\ CallsAreThreads /\ AnswersHonest /\ WindowBelow
  BY DEF OnceInv
<1>1. /\ pc[t] = "bound" /\ bind_done_' = TRUE /\ srv_nonce_' = done[req[t].xid].r
      /\ pc' = [pc EXCEPT ![t] = "idle"] /\ req' = [req EXCEPT ![t] = NoReq]
      /\ UNCHANGED <<xid_, xid_rep_window_, calls_, done, req_q, rep_q, life>>
  BY DEF bind_finish, netvars
<1>2. pc \in [Threads -> ClientPCs] /\ req \in [Threads -> Requests \cup {NoReq}]
  BY RefInvParts DEF ClientPart, ClientTypes
<1>3. /\ pc'[t] = "idle" /\ req'[t] = NoReq
      /\ \A u \in Threads : u # t => pc'[u] = pc[u] /\ req'[u] = req[u]
  BY <1>1, <1>2
<1>4. wpc' = wpc /\ h' = h /\ jobq' = jobq /\ nonce_' = nonce_ /\ execs' = execs
  BY DEF servervars
<1>5. ThreadsGoOn
  BY <1>0, <1>3 DEF ThreadsGoOn, CallsAreThreads
<1>6. NoNewRequest
  BY <1>1, <1>4, <1>5, Zenon DEF NoNewRequest, ThreadsGoOn, IsSent
<1>7. /\ nonce_ \in Nat /\ xid_ \in Nat /\ Min(xid_rep_window_) \in Nat /\ \A x \in Xids : execs[x] \in Nat
  BY FrontBelow, MaxInstAssumption, RefInvParts DEF ServerPart, ServerTypes
<1>8. RequestsHonest' /\ SameXid' /\ DistinctXids'
  <2>1. nonce_ <= nonce_' /\ Min(xid_rep_window_) <= Min(xid_rep_window_')
    BY <1>1, <1>4, <1>7
  <2> QED BY <1>1, <1>5, <1>6, <2>1, RequestsStay
<1>9. JobsForThisInstance' /\ ServerHonest' /\ GoneIsIdle'
  <2>1. xid_ <= xid_' /\ xid_' \in Nat
    BY <1>1, <1>7
  <2> QED BY <1>1, <2>1, ServerStays
<1>10. AnswersHonest'
  <2>1. \A p \in Replies : IsAnswer(p)' => IsAnswer(p)
    BY <1>1 DEF IsAnswer
  <2>2. nonce_ <= nonce_' /\ xid_ <= xid_' /\ \A x \in Xids : execs[x] <= execs'[x]
    BY <1>1, <1>4, <1>7
  <2> QED BY <1>1, <2>1, <2>2, AnswersStay
<1>11. BindHonest'
  <2>1. \A u \in Threads : pc'[u] = "bound" => done'[req'[u].xid].ret = "ok"
    BY <1>0, <1>1, <1>3 DEF BindHonest
  <2>2. req[t].xid \in Xids
    BY <1>1, RefInvParts DEF ClientPart, CallsHaveRequests, Requests
  <2>3. done[req[t].xid].r \in 1 .. nonce_
    BY <1>0, <1>1, <2>2 DEF BindHonest, AnswersHonest
  <2>4. srv_nonce_' <= nonce_' /\ srv_nonce_' > 0
    BY <1>1, <1>4, <1>7, <2>3
  <2> QED BY <2>1, <2>4 DEF BindHonest
<1>12. WindowBelow'
  BY <1>0, <1>1 DEF WindowBelow, Unanswered
<1>13. \A u \in Threads : /\ Active(u)' => Active(u) /\ req'[u] = req[u]
                          /\ Active(u) => Active(u)' /\ req'[u] = req[u]
  BY <1>1, <1>3 DEF Active
<1>14. CallsAreThreads'
  <2>1. \A u \in Threads : pc'[u] = "idle" => req'[u] = NoReq
    BY <1>5 DEF ThreadsGoOn
  <2>2. \A u \in Threads : Active(u)' => req'[u].xid \in calls_'
    BY <1>0, <1>1, <1>13 DEF CallsAreThreads
  <2>3. \A x \in calls_' : x < xid_' /\ \E u \in Threads : Active(u)' /\ req'[u].xid = x
    BY <1>0, <1>1, <1>13 DEF CallsAreThreads
  <2> QED BY <2>1, <2>2, <2>3 DEF CallsAreThreads
<1>15. Once'
  <2>1. \A u \in Threads : Waits(u)' => Waits(u) /\ req'[u] = req[u]
    BY <1>1, <1>13 DEF Waits
  <2> QED BY <1>1, <2>1, OnceStays
<1> QED BY <1>8, <1>9, <1>10, <1>11, <1>12, <1>14, <1>15 DEF OnceInv

LEMMA ClientGotPduOnce ==
    ASSUME RefInv, OnceInv, RefInv', NEW c \in Conns, client_got_pdu(c), UNCHANGED servervars
    PROVE  OnceInv'
<1> DEFINE p == Head(rep_q[c])
<1>0. BindHonest /\ CallsAreThreads /\ AnswersHonest /\ WindowBelow
  BY DEF OnceInv
<1>1. /\ rep_q[c] # <<>>
      /\ xid_rep_window_' = UpdateSet(xid_rep_window_, p.xid)
      /\ done' = IF p.xid \in calls_ /\ done[p.xid] = NoReply
                 THEN [done EXCEPT ![p.xid] = [ret |-> p.ret, r |-> p.r]] ELSE done
      /\ rep_q' = [rep_q EXCEPT ![c] = Tail(@)]
      /\ UNCHANGED <<xid_, bind_done_, srv_nonce_, calls_, chan_, deleted, pc, req, ch,
                     link, req_q, cdead, crefno, sobj, srefno, life>>
  BY DEF client_got_pdu
<1>2. rep_q \in [Conns -> Seq(Replies)] /\ rep_q[c] \in Seq(Replies)
  BY RefInvParts DEF NetTypes
<1>3. p \in Replies /\ In(p, rep_q[c])
  BY <1>1, <1>2, HeadTailProperties, InHead
<1> HIDE DEF p
<1>4. p.xid \in 0 .. MaxXid /\ p.ret \in Rets /\ p.xid < xid_
      /\ (p.ret = "ok" => p.r \in 1 .. nonce_ /\ (p.xid \in Xids => execs[p.xid] > 0))
  BY <1>0, <1>3 DEF AnswersHonest, IsAnswer, Replies
<1>5. done \in [Xids -> {NoReply} \cup [ret : Rets, r : Nonces]] /\ calls_ \subseteq Xids
  BY RefInvParts DEF ClientPart, ClientTypes
<1>6. \A x \in Xids : \/ done'[x] = done[x] /\ ~(x = p.xid /\ x \in calls_ /\ done[x] = NoReply)
                      \/ x = p.xid /\ done[x] = NoReply /\ done'[x] = [ret |-> p.ret, r |-> p.r]
  BY <1>1, <1>5
<1>7. [ret |-> p.ret, r |-> p.r] # NoReply /\ [ret |-> p.ret, r |-> p.r].ret = p.ret
      /\ [ret |-> p.ret, r |-> p.r].r = p.r
  BY <1>4 DEF NoReply, Rets
<1>8. wpc' = wpc /\ h' = h /\ jobq' = jobq /\ nonce_' = nonce_ /\ execs' = execs
  BY DEF servervars
<1>9. ThreadsGoOn
  BY <1>0, <1>1 DEF ThreadsGoOn, CallsAreThreads
<1>10. NoNewRequest
  BY <1>1, <1>8, Zenon DEF NoNewRequest, IsSent
<1>11. WindowBelow' /\ Min(xid_rep_window_) <= Min(xid_rep_window_')
  <2>1. \A x \in Unanswered' : x \in Unanswered /\ x # p.xid
    BY <1>1, <1>5, <1>6, <1>7 DEF Unanswered
  <2> QED BY <1>1, <1>4, <2>1, WindowAdvances
<1>12. /\ nonce_ \in Nat /\ xid_ \in Nat /\ \A x \in Xids : execs[x] \in Nat
  BY FrontBelow, MaxInstAssumption, RefInvParts DEF ServerPart, ServerTypes
<1>13. RequestsHonest' /\ SameXid' /\ DistinctXids'
  <2>1. nonce_ <= nonce_'
    BY <1>8, <1>12
  <2> QED BY <1>1, <1>9, <1>10, <1>11, <2>1, RequestsStay
<1>14. JobsForThisInstance' /\ ServerHonest' /\ GoneIsIdle'
  <2>1. xid_ <= xid_' /\ xid_' \in Nat
    BY <1>1, <1>12
  <2> QED BY <1>1, <2>1, ServerStays
<1>15. AnswersHonest'
  <2>1. \A q \in Replies : IsAnswer(q)' => IsAnswer(q)
    <3> SUFFICES ASSUME NEW q \in Replies, NEW d \in Conns, In(q, rep_q'[d]) PROVE In(q, rep_q[d])
      BY DEF IsAnswer
    <3>1. CASE d = c
      <4>1. rep_q'[d] = Tail(rep_q[c])
        BY <1>1, <1>2, <3>1
      <4> QED BY <1>1, <1>2, <3>1, <4>1, InTail
    <3>2. CASE d # c
      BY <1>1, <1>2, <3>2
    <3> QED BY <3>1, <3>2
  <2>2. \A x \in Xids : done'[x].ret = "ok" => done'[x].r \in 1 .. nonce_ /\ execs[x] > 0
    BY <1>0, <1>4, <1>6, <1>7 DEF AnswersHonest
  <2> QED BY <1>0, <1>1, <1>8, <2>1, <2>2 DEF AnswersHonest
<1>16. BindHonest'
  <2>1. ASSUME NEW u \in Threads, pc[u] = "bound" PROVE done'[req[u].xid].ret = "ok"
    <3>1. req[u].xid \in Xids /\ done[req[u].xid].ret = "ok"
      BY <1>0, <2>1, RefInvParts DEF BindHonest, ClientPart, CallsHaveRequests, Requests
    <3>2. done[req[u].xid] # NoReply
      BY <3>1 DEF NoReply
    <3> QED BY <1>6, <3>1, <3>2
  <2> QED BY <1>0, <1>1, <1>8, <2>1 DEF BindHonest
<1>17. CallsAreThreads'
  BY <1>0, <1>1 DEF CallsAreThreads, Active
<1>18. Once'
  <2>1. ASSUME NEW u \in Threads, Waits(u)' PROVE Waits(u) /\ req'[u] = req[u]
    <3>1. Active(u) /\ req'[u] = req[u] /\ done'[req[u].xid] = NoReply /\ req[u].srv_nonce # 0
      BY <1>1, <2>1 DEF Waits, Active
    <3>2. req[u].xid \in Xids
      BY <3>1, RefInvParts DEF ClientPart, CallsHaveRequests, Requests, Active
    <3>3. done[req[u].xid] = NoReply
      BY <1>6, <1>7, <3>1, <3>2
    <3> QED BY <3>1, <3>3 DEF Waits
  <2> QED BY <1>1, <2>1, OnceStays
<1> QED BY <1>11, <1>13, <1>14, <1>15, <1>16, <1>17, <1>18 DEF OnceInv

-----------------------------------------------------------------------------
(* The server's steps.                                                     *)

(* What a step of the server cannot change.                                *)
LEMMA ServerStepOnce ==
    ASSUME RefInv, OnceInv, RefInv', UNCHANGED clientvars, NoNewRequest, nonce_ <= nonce_'
    PROVE  /\ RequestsHonest' /\ SameXid' /\ DistinctXids'
           /\ BindHonest' /\ WindowBelow' /\ CallsAreThreads'
<1>0. CallsAreThreads
  BY DEF OnceInv
<1>1. nonce_' \in Nat /\ Min(xid_rep_window_) \in Nat
  BY FrontBelow, MaxInstAssumption, RefInvParts DEF ServerPart, ServerTypes
<1>2. pc' = pc /\ req' = req /\ xid_' = xid_ /\ xid_rep_window_' = xid_rep_window_
  BY DEF clientvars
<1>3. ThreadsGoOn
  BY <1>0, <1>2 DEF ThreadsGoOn, CallsAreThreads
<1>4. Min(xid_rep_window_) <= Min(xid_rep_window_')
  BY <1>1, <1>2
<1> QED BY <1>1, <1>2, <1>3, <1>4, RequestsStay, ClientStays

(* A step of the server that starts or ends no handler and keeps the       *)
(* window, unless it is the one that frees it.                             *)
LEMMA NoRunOnce ==
    ASSUME RefInv, OnceInv, UNCHANGED <<clientvars, nonce_, execs>>,
           \A w \in Workers : \A x \in Xids : Runs(w, x)' => Runs(w, x),
           life' # "gone" => life # "gone" /\ reply_window_' = reply_window_
    PROVE  Once'
<1>0. Once
  BY DEF OnceInv
<1>1. pc' = pc /\ req' = req /\ done' = done /\ execs' = execs /\ nonce_' = nonce_
  BY DEF clientvars
<1> SUFFICES ASSUME NEW t \in Threads, Waits(t)' PROVE OnceFor(req[t].xid, req[t].srv_nonce)'
  BY DEF Once
<1>2. Waits(t) /\ req'[t] = req[t]
  BY <1>1 DEF Waits, Active
<1>3. OnceFor(req[t].xid, req[t].srv_nonce)
  BY <1>0, <1>2 DEF Once
<1>4. req[t].xid \in Xids
  BY <1>2, RefInvParts DEF Waits, Active, ClientPart, CallsHaveRequests, Requests
<1> QED BY <1>1, <1>2, <1>3, <1>4 DEF OnceFor

(* One more answer.                                                        *)
LEMMA OneAnswerOnce ==
    ASSUME RefInv, OnceInv, UNCHANGED <<clientvars, nonce_, execs>>, NEW c \in Conns, NEW p \in Replies,
           rep_q' = ServerSend(c, p), p.xid < xid_,
           p.ret = "ok" => p.r \in 1 .. nonce_ /\ (p.xid \in Xids => execs[p.xid] > 0)
    PROVE  AnswersHonest'
<1>0. AnswersHonest
  BY DEF OnceInv
<1>1. done' = done /\ xid_' = xid_ /\ nonce_' = nonce_ /\ execs' = execs
  BY DEF clientvars
<1>2. rep_q \in [Conns -> Seq(Replies)]
  BY RefInvParts DEF NetTypes
<1>3. ASSUME NEW q \in Replies, IsAnswer(q)' PROVE IsAnswer(q) \/ q = p
  <2>1. PICK d \in Conns : In(q, rep_q'[d])
    BY <1>3 DEF IsAnswer
  <2>2. rep_q'[d] = rep_q[d] \/ rep_q'[d] = Append(rep_q[d], p)
    BY <1>2 DEF ServerSend
  <2>3. CASE rep_q'[d] = rep_q[d]
    BY <2>1, <2>3 DEF IsAnswer
  <2>4. CASE rep_q'[d] = Append(rep_q[d], p)
    <3>1. rep_q[d] \in Seq(Replies)
      BY <1>2
    <3>2. In(q, rep_q[d]) \/ q = p
      BY <2>1, <2>4, <3>1, InAppend
    <3> QED BY <3>2 DEF IsAnswer
  <2> QED BY <2>2, <2>3, <2>4
<1> QED BY <1>0, <1>1, <1>3 DEF AnswersHonest

(* Steps that have to do with connections only: process_accept, save_conn, *)
(* server_got_pdu and the first steps of ~rpcs.                            *)
LEMMA ConnStepOnce ==
    ASSUME RefInv, OnceInv, RefInv', UNCHANGED clientvars,
           UNCHANGED <<nonce_, reply_window_, h, stat, execs, rep_q>>, NoNewRequest,
           \A w \in Workers : /\ (wpc'[w] = "idle" <=> wpc[w] = "idle")
                              /\ wpc'[w] \in {"exec", "send"} => wpc'[w] = wpc[w],
           life # "gone", life' # "gone"
    PROVE  OnceInv'
<1>0. JobsForThisInstance /\ ServerHonest
  BY DEF OnceInv
<1>1. /\ nonce_ \in Nat /\ xid_ \in Nat /\ \A x \in Xids : execs[x] \in Nat
  BY FrontBelow, MaxInstAssumption, RefInvParts DEF ServerPart, ServerTypes
<1>2. done' = done /\ xid_' = xid_
  BY DEF clientvars
<1>3. /\ RequestsHonest' /\ SameXid' /\ DistinctXids'
      /\ BindHonest' /\ WindowBelow' /\ CallsAreThreads'
  <2>1. nonce_ <= nonce_'
    BY <1>1
  <2> QED BY <2>1, ServerStepOnce
<1>4. JobsForThisInstance' /\ GoneIsIdle'
  BY <1>0 DEF JobsForThisInstance, GoneIsIdle
<1>5. ServerHonest'
  BY <1>0, <1>2 DEF ServerHonest
<1>6. AnswersHonest'
  <2>1. \A p \in Replies : IsAnswer(p)' => IsAnswer(p)
    BY DEF IsAnswer
  <2>2. nonce_ <= nonce_' /\ xid_ <= xid_' /\ \A x \in Xids : execs[x] <= execs'[x]
    BY <1>1, <1>2
  <2> QED BY <1>2, <2>1, <2>2, AnswersStay
<1>7. Once'
  <2>1. \A w \in Workers : \A x \in Xids : Runs(w, x)' => Runs(w, x)
    BY DEF Runs
  <2> QED BY <2>1, NoRunOnce
<1> QED BY <1>3, <1>4, <1>5, <1>6, <1>7 DEF OnceInv

LEMMA ProcessAcceptOnce ==
    ASSUME RefInv, OnceInv, RefInv', NEW c \in Conns, process_accept(c), UNCHANGED clientvars
    PROVE  OnceInv'
<1>1. /\ life = "up" /\ life' = life
      /\ UNCHANGED <<nonce_, reply_window_, jobq, wpc, h, stat, execs, req_q, rep_q>>
  BY DEF process_accept
<1>2. pc' = pc /\ req' = req
  BY DEF clientvars
<1>3. NoNewRequest
  BY <1>1, <1>2, Zenon DEF NoNewRequest, IsSent
<1> QED BY <1>1, <1>3, ConnStepOnce

LEMMA ServerGotPduOnce ==
    ASSUME RefInv, OnceInv, RefInv', NEW c \in Conns, server_got_pdu(c), UNCHANGED clientvars
    PROVE  OnceInv'
<1> DEFINE m == Head(req_q[c])
<1>1. /\ sobj[c] = "alive" /\ req_q[c] # <<>> /\ jobq' = Append(jobq, <<c, m>>)
      /\ req_q' = [req_q EXCEPT ![c] = Tail(@)]
      /\ UNCHANGED <<nonce_, reply_window_, wpc, h, stat, execs, rep_q, life>>
  BY DEF server_got_pdu
<1>2. life # "gone"
  BY <1>1, RefInvParts DEF ServerConns, PoolIsLast
<1>3. /\ req_q \in [Conns -> Seq(Requests)] /\ req_q[c] \in Seq(Requests)
      /\ jobq \in Seq(Conns \X Requests)
  BY RefInvParts DEF NetTypes, ServerPart, ServerTypes
<1>4. m \in Requests /\ In(m, req_q[c])
  BY <1>1, <1>3, HeadTailProperties, InHead
<1> HIDE DEF m
<1>5. NoNewRequest
  <2> SUFFICES ASSUME NEW k \in Requests, IsSent(k)' PROVE IsSent(k)
    BY DEF NoNewRequest
  <2>1. pc' = pc /\ req' = req
    BY DEF clientvars
  <2>2. \A d \in Conns : In(k, req_q'[d]) => In(k, req_q[d])
    <3> SUFFICES ASSUME NEW d \in Conns, In(k, req_q'[d]) PROVE In(k, req_q[d])
      OBVIOUS
    <3>1. CASE d = c
      <4>1. req_q'[d] = Tail(req_q[c])
        BY <1>1, <1>3, <3>1
      <4> QED BY <1>1, <1>3, <3>1, <4>1, InTail
    <3>2. CASE d # c
      BY <1>1, <1>3, <3>2
    <3> QED BY <3>1, <3>2
  <2>3. \A d \in Conns : In(<<d, k>>, jobq') => In(<<d, k>>, jobq) \/ k = m
    <3> SUFFICES ASSUME NEW d \in Conns, In(<<d, k>>, jobq') PROVE In(<<d, k>>, jobq) \/ k = m
      OBVIOUS
    <3>1. <<c, m>> \in Conns \X Requests
      BY <1>4
    <3>2. In(<<d, k>>, jobq) \/ <<d, k>> = <<c, m>>
      BY <1>1, <1>3, <3>1, InAppend
    <3> QED BY <3>2
  <2> QED BY <1>1, <1>4, <2>1, <2>2, <2>3, Zenon DEF IsSent
<1> QED BY <1>1, <1>2, <1>5, ConnStepOnce

LEMMA SaveConnOnce ==
    ASSUME RefInv, OnceInv, RefInv', NEW w \in Workers, save_conn(w), UNCHANGED clientvars
    PROVE  OnceInv'
<1>1. /\ wpc[w] = "conns" /\ wpc' = [wpc EXCEPT ![w] = "check"]
      /\ UNCHANGED <<nonce_, reply_window_, jobq, h, stat, execs, req_q, rep_q, life>>
  BY DEF save_conn
<1>2. wpc'[w] = "check" /\ \A v \in Workers : v # w => wpc'[v] = wpc[v]
  BY <1>1, RefInvParts DEF ServerPart, ServerTypes
<1>3. \A v \in Workers : /\ (wpc'[v] = "idle" <=> wpc[v] = "idle")
                         /\ wpc'[v] \in {"exec", "send"} => wpc'[v] = wpc[v]
  BY <1>1, <1>2
<1>4. life # "gone"
  BY <1>1 DEF OnceInv, GoneIsIdle
<1>5. pc' = pc /\ req' = req
  BY DEF clientvars
<1>6. NoNewRequest
  BY <1>1, <1>3, <1>5, Zenon DEF NoNewRequest, IsSent
<1> QED BY <1>1, <1>3, <1>4, <1>6, ConnStepOnce

(* The first steps of ~rpcs.                                               *)
LEMMA ClosingOnce ==
    ASSUME RefInv, OnceInv, RefInv', UNCHANGED clientvars,
           delete_listener \/ delete_pool \/ \E c \in Conns : close_conn(c)
    PROVE  OnceInv'
<1>0. NetTypes
  BY RefInvParts
<1>1. /\ life \in {"up", "closing"} /\ life' \in {"closing", "draining"}
      /\ UNCHANGED <<nonce_, reply_window_, jobq, wpc, h, stat, execs, rep_q>>
  BY DEF delete_listener, delete_pool, close_conn, servervars
<1>2. \A d \in Conns : req_q'[d] = req_q[d] \/ req_q'[d] = <<>>
  BY <1>0 DEF delete_listener, delete_pool, close_conn, NetTypes
<1>3. \A d \in Conns : \A m : In(m, req_q'[d]) => In(m, req_q[d])
  BY <1>2, InEmpty
<1>4. pc' = pc /\ req' = req
  BY DEF clientvars
<1>5. NoNewRequest
  BY <1>1, <1>3, <1>4, Zenon DEF NoNewRequest, IsSent
<1>6. life # "gone" /\ life' # "gone"
  BY <1>1
<1> QED BY <1>1, <1>5, <1>6, ConnStepOnce

(* The first lines of dispatch: a request for an older instance is refused *)
(* without running it.                                                     *)
LEMMA DispatchOnce ==
    ASSUME RefInv, OnceInv, RefInv', NEW w \in Workers, dispatch(w), UNCHANGED clientvars
    PROVE  OnceInv'
<1> DEFINE c == Head(jobq)[1]
           m == Head(jobq)[2]
<1>0. RequestsHonest /\ JobsForThisInstance /\ ServerHonest /\ GoneIsIdle
  BY DEF OnceInv
<1>1. /\ wpc[w] = "idle" /\ jobq # <<>> /\ jobq' = Tail(jobq)
      /\ UNCHANGED <<nonce_, reply_window_, stat, execs, req_q, life>>
  BY DEF dispatch
<1>2. \/ /\ ForOldInstance(m)
         /\ rep_q' = ServerSend(c, Reply(m.xid, "oldsrv_failure"))
         /\ UNCHANGED <<wpc, h>>
      \/ /\ ~ForOldInstance(m)
         /\ wpc' = [wpc EXCEPT ![w] = "conns"]
         /\ h' = [h EXCEPT ![w] = m]
         /\ UNCHANGED rep_q
  BY DEF dispatch
<1>3. jobq \in Seq(Conns \X Requests) /\ wpc \in [Workers -> WorkerPCs]
      /\ h \in [Workers -> Requests \cup {NoReq}]
  BY RefInvParts DEF ServerPart, ServerTypes
<1>4. Head(jobq) \in Conns \X Requests /\ In(Head(jobq), jobq)
  BY <1>1, <1>3, HeadTailProperties, InHead
<1>5. c \in Conns /\ m \in Requests /\ Head(jobq) = <<c, m>>
  BY <1>4
<1> HIDE DEF c, m
<1>6. IsSent(m)
  BY <1>4, <1>5 DEF IsSent
<1>7. life # "gone"
  BY <1>0, <1>1 DEF GoneIsIdle
<1>8. /\ \A v \in Workers : v # w => wpc'[v] = wpc[v] /\ h'[v] = h[v]
      /\ \/ wpc'[w] = "idle"
         \/ wpc'[w] = "conns" /\ h'[w] = m /\ ~ForOldInstance(m)
  BY <1>1, <1>2, <1>3
<1>9. NoNewRequest
  <2> SUFFICES ASSUME NEW k \in Requests, IsSent(k)' PROVE IsSent(k)
    BY DEF NoNewRequest
  <2>1. pc' = pc /\ req' = req
    BY DEF clientvars
  <2>2. \A d \in Conns : In(<<d, k>>, jobq') => In(<<d, k>>, jobq)
    BY <1>1, <1>3, InTail
  <2>3. \A v \in Workers : wpc'[v] # "idle" /\ h'[v] = k => IsSent(k)
    <3> SUFFICES ASSUME NEW v \in Workers, wpc'[v] # "idle", h'[v] = k PROVE IsSent(k)
      OBVIOUS
    <3>1. CASE v = w
      BY <1>6, <1>8, <3>1
    <3>2. CASE v # w
      BY <1>8, <3>2 DEF IsSent
    <3> QED BY <3>1, <3>2
  <2>4. CASE \E v \in Workers : wpc'[v] # "idle" /\ h'[v] = k
    BY <2>3, <2>4
  <2>5. CASE ~\E v \in Workers : wpc'[v] # "idle" /\ h'[v] = k
    BY <1>1, <2>1, <2>2, <2>5, Zenon DEF IsSent
  <2> QED BY <2>4, <2>5
<1>10. /\ nonce_ \in Nat /\ xid_ \in Nat /\ \A x \in Xids : execs[x] \in Nat
  BY FrontBelow, MaxInstAssumption, RefInvParts DEF ServerPart, ServerTypes
<1>11. done' = done /\ xid_' = xid_
  BY DEF clientvars
<1>12. /\ RequestsHonest' /\ SameXid' /\ DistinctXids'
       /\ BindHonest' /\ WindowBelow' /\ CallsAreThreads'
  <2>1. nonce_ <= nonce_'
    BY <1>1, <1>10
  <2> QED BY <1>9, <2>1, ServerStepOnce
<1>13. JobsForThisInstance' /\ GoneIsIdle'
  BY <1>0, <1>1, <1>7, <1>8 DEF JobsForThisInstance, GoneIsIdle, ForOldInstance
<1>14. ServerHonest'
  <2>1. ASSUME NEW v \in Workers, wpc'[v] = "send" PROVE wpc[v] = "send" /\ h'[v] = h[v]
    BY <1>8, <2>1
  <2> QED BY <1>0, <1>1, <1>11, <2>1 DEF ServerHonest
<1>15. AnswersHonest'
  <2>1. CASE rep_q' = rep_q
    <3>1. \A p \in Replies : IsAnswer(p)' => IsAnswer(p)
      BY <2>1 DEF IsAnswer
    <3>2. nonce_ <= nonce_' /\ xid_ <= xid_' /\ \A x \in Xids : execs[x] <= execs'[x]
      BY <1>1, <1>10, <1>11
    <3> QED BY <1>11, <3>1, <3>2, AnswersStay
  <2>2. CASE rep_q' = ServerSend(c, Reply(m.xid, "oldsrv_failure"))
    <3> DEFINE p == Reply(m.xid, "oldsrv_failure")
    <3>1. m.xid \in 0 .. MaxXid /\ m.xid < xid_
      BY <1>0, <1>5, <1>6, MaxXidAssumption DEF RequestsHonest, Requests, Xids
    <3>2. p \in Replies
      BY <3>1, ReplyTypes, RefInvParts DEF ServerPart, Rets
    <3>3. p.xid < xid_ /\ p.ret # "ok"
      BY <3>1 DEF Reply
    <3>4. rep_q' = ServerSend(c, p)
      BY <2>2
    <3> HIDE DEF p
    <3> QED BY <1>1, <1>5, <3>2, <3>3, <3>4, OneAnswerOnce
  <2> QED BY <1>2, <2>1, <2>2
<1>16. Once'
  <2>1. \A v \in Workers : \A x \in Xids : Runs(v, x)' => Runs(v, x)
    BY <1>8 DEF Runs
  <2> QED BY <1>1, <1>7, <2>1, NoRunOnce
<1> QED BY <1>12, <1>13, <1>14, <1>15, <1>16 DEF OnceInv

(* checkduplicate_and_update forgets no entry a caller waits for, and lets *)
(* a handler start only if none runs or has run for that caller.           *)
LEMMA CheckOnce ==
    ASSUME RefInv, OnceInv, RefInv', NEW w \in Workers, checkduplicate_and_update(w),
           UNCHANGED clientvars
    PROVE  OnceInv'
<1> DEFINE m == h[w]
           x == m.xid
           old == IF x <= m.xid_rep THEN {} ELSE Confirmed(m.xid_rep)
           win == [y \in Xids |-> IF y \in old THEN "absent" ELSE reply_window_[y]]
           s == Lookup(m, win)
<1>0. /\ RequestsHonest /\ SameXid /\ JobsForThisInstance /\ ServerHonest /\ GoneIsIdle
      /\ WindowBelow /\ CallsAreThreads /\ Once
  BY DEF OnceInv
<1>1. /\ wpc[w] = "check"
      /\ stat' = [stat EXCEPT ![w] = IF s = "INPROGRESS" THEN "NEW" ELSE s]
      /\ reply_window_' = IF s = "NEW" THEN [win EXCEPT ![x] = "inprogress"] ELSE win
      /\ UNCHANGED <<nonce_, jobq, execs, req_q, rep_q, life>>
  BY DEF checkduplicate_and_update
<1>2. \/ /\ wpc' = [wpc EXCEPT ![w] = "idle"]
         /\ h' = [h EXCEPT ![w] = NoReq]
      \/ /\ s # "INPROGRESS"
         /\ wpc' = [wpc EXCEPT ![w] = IF s = "NEW" THEN "exec" ELSE "send"]
         /\ UNCHANGED h
  BY DEF checkduplicate_and_update
<1>3. IsSent(m) /\ m \in Requests
  BY <1>1, SentByWorker
<1>4. /\ x < xid_ /\ m.xid_rep < x /\ m.xid_rep <= Min(xid_rep_window_)
      /\ x \in Xids /\ x \in Nat /\ m.xid_rep \in Nat
  BY <1>0, <1>3, MaxXidAssumption DEF RequestsHonest, Requests, Xids
<1>5. /\ wpc \in [Workers -> WorkerPCs] /\ h \in [Workers -> Requests \cup {NoReq}]
      /\ stat \in [Workers -> Stats] /\ nonce_ \in Nat /\ \A y \in Xids : execs[y] \in Nat
      /\ reply_window_ \in [Xids -> {"absent", "inprogress", "done"}]
  BY MaxInstAssumption, RefInvParts DEF ServerPart, ServerTypes
<1>6. win \in [Xids -> {"absent", "inprogress", "done"}]
  BY <1>5
<1>7. \A y \in Xids : win[y] = IF y < m.xid_rep THEN "absent" ELSE reply_window_[y]
  BY <1>4 DEF Confirmed
<1>8. win[x] = reply_window_[x]
  BY <1>4, <1>7
<1>9. /\ s \in {"NEW", "INPROGRESS", "DONE"}
      /\ (s = "NEW" <=> reply_window_[x] = "absent")
      /\ (s = "DONE" <=> reply_window_[x] = "done")
  BY <1>3, <1>4, <1>6, <1>8, LookupTypes DEF Stats
<1> HIDE DEF old, win, s
<1>10. \A y \in Xids : \/ reply_window_'[y] = "absent" /\ (y < m.xid_rep \/ reply_window_[y] = "absent")
                       \/ reply_window_'[y] = reply_window_[y]
                       \/ y = x /\ reply_window_'[y] = "inprogress"
  BY <1>1, <1>6, <1>7
<1>11. reply_window_[x] = "absent" => reply_window_'[x] = "inprogress"
  BY <1>1, <1>4, <1>6, <1>9
<1> DEFINE W == wpc'[w]
<1>12. /\ W \in {"idle", "exec", "send"}
       /\ W # "idle" => h'[w] = m
       /\ W = "exec" => reply_window_[x] = "absent"
       /\ W = "send" => reply_window_[x] = "done"
       /\ \A v \in Workers : v # w => wpc'[v] = wpc[v] /\ h'[v] = h[v] /\ stat'[v] = stat[v]
  BY <1>1, <1>2, <1>5, <1>9
<1> HIDE DEF x, m, W
<1>13. life # "gone"
  BY <1>0, <1>1 DEF GoneIsIdle
<1>14. NoNewRequest
  <2>1. pc' = pc /\ req' = req
    BY DEF clientvars
  <2>2. \A v \in Workers : wpc'[v] # "idle" => wpc[v] # "idle" /\ h'[v] = h[v]
    BY <1>1, <1>12 DEF W, m
  <2> QED BY <1>1, <2>1, <2>2, Zenon DEF NoNewRequest, IsSent
<1>15. done' = done /\ xid_' = xid_ /\ pc' = pc /\ req' = req
  BY DEF clientvars
<1>16. xid_ \in Nat
  BY FrontBelow
<1>17. /\ RequestsHonest' /\ SameXid' /\ DistinctXids'
       /\ BindHonest' /\ WindowBelow' /\ CallsAreThreads'
  <2>1. nonce_ <= nonce_'
    BY <1>1, <1>5
  <2> QED BY <1>14, <2>1, ServerStepOnce
<1>18. JobsForThisInstance' /\ GoneIsIdle'
  <2>1. \A v \in Workers : wpc'[v] # "idle" => wpc[v] # "idle" /\ h'[v] = h[v]
    BY <1>1, <1>12 DEF W, m
  <2> QED BY <1>0, <1>1, <1>13, <2>1 DEF JobsForThisInstance, GoneIsIdle
<1>19. ServerHonest'
  <2>1. ASSUME NEW y \in Xids
        PROVE  /\ reply_window_'[y] = "done" => execs[y] > 0
               /\ reply_window_'[y] # "absent" => y < xid_
               /\ execs[y] > 0 => y < xid_
    BY <1>0, <1>4, <1>10, <2>1 DEF ServerHonest
  <2>2. ASSUME NEW v \in Workers, wpc'[v] = "send", stat'[v] # "FORGOTTEN" PROVE execs[h'[v].xid] > 0
    <3>1. CASE v = w
      <4>1. reply_window_[x] = "done" /\ h'[w] = m
        BY <1>12, <2>2, <3>1 DEF W
      <4>2. execs[x] > 0
        BY <1>0, <1>4, <4>1 DEF ServerHonest
      <4> QED BY <3>1, <4>1, <4>2 DEF x
    <3>2. CASE v # w
      BY <1>0, <1>12, <2>2, <3>2 DEF ServerHonest
    <3> QED BY <3>1, <3>2
  <2> QED BY <1>1, <1>15, <2>1, <2>2 DEF ServerHonest
<1>20. AnswersHonest'
  <2>1. \A p \in Replies : IsAnswer(p)' => IsAnswer(p)
    BY <1>1 DEF IsAnswer
  <2>2. nonce_ <= nonce_' /\ xid_ <= xid_' /\ \A y \in Xids : execs[y] <= execs'[y]
    BY <1>1, <1>5, <1>15, <1>16
  <2> QED BY <1>15, <2>1, <2>2, AnswersStay
<1>21. Once'
  <2> SUFFICES ASSUME NEW t \in Threads, Waits(t)' PROVE OnceFor(req[t].xid, req[t].srv_nonce)'
    BY DEF Once
  <2> DEFINE z == req[t].xid
             n == req[t].srv_nonce
  <2>1. Waits(t) /\ req'[t] = req[t]
    BY <1>15 DEF Waits, Active
  <2>2. OnceFor(z, n)
    BY <1>0, <2>1 DEF Once
  <2>3. /\ pc[t] # "idle" /\ z \in Unanswered /\ n # 0
    BY <1>0, <2>1 DEF Waits, Active, CallsAreThreads, Unanswered
  <2>4. z \in Xids /\ z \in Nat /\ Min(xid_rep_window_) < z /\ Min(xid_rep_window_) \in Nat
    BY <1>0, <2>3, FrontBelow, RefInvParts, MaxXidAssumption
       DEF WindowBelow, ClientPart, CallsHaveRequests, Requests, Xids
  <2>5. ~(z < m.xid_rep)
    BY <1>4, <2>4
  <2>6. reply_window_[z] # "absent" => reply_window_'[z] # "absent"
    BY <1>10, <2>4, <2>5
  <2>7. ASSUME W = "exec", z = x
        PROVE  /\ reply_window_'[z] # "absent" /\ execs[z] = 0
               /\ \A v \in Workers : ~Runs(v, z)
    <3>1. m = req[t]
      BY <1>0, <1>3, <2>3, <2>7 DEF SameXid, x
    <3>2. n = nonce_
      BY <1>0, <1>1, <2>3, <3>1 DEF JobsForThisInstance, m
    <3>3. reply_window_[z] = "absent" /\ reply_window_'[z] = "inprogress"
      BY <1>11, <1>12, <2>7
    <3>4. ~(execs[z] > 0) /\ \A v \in Workers : ~Runs(v, z)
      BY <1>13, <2>2, <3>2, <3>3 DEF OnceFor
    <3>5. execs[z] = 0
      BY <1>5, <2>4, <3>4
    <3> QED BY <3>3, <3>4, <3>5
  <2>8. \A v \in Workers : Runs(v, z)' => Runs(v, z) \/ (v = w /\ W = "exec" /\ z = x)
    <3> SUFFICES ASSUME NEW v \in Workers, wpc'[v] = "exec", h'[v].xid = z
                 PROVE  Runs(v, z) \/ (v = w /\ W = "exec" /\ z = x)
      BY <2>1 DEF Runs
    <3>1. CASE v = w
      BY <1>12, <3>1 DEF W, x
    <3>2. CASE v # w
      BY <1>12, <3>2 DEF Runs
    <3> QED BY <3>1, <3>2
  <2> HIDE DEF z, n
  <2>9. /\ execs[z] <= 1
        /\ \A v \in Workers : Runs(v, z)' => execs[z] = 0
        /\ \A u, v \in Workers : Runs(u, z)' /\ Runs(v, z)' => u = v
        /\ (n = nonce_ /\ life # "gone" /\ (execs[z] > 0 \/ \E v \in Workers : Runs(v, z)'))
           => reply_window_'[z] # "absent"
    BY <2>2, <2>6, <2>7, <2>8 DEF OnceFor
  <2>10. OnceFor(z, n)'
    BY <1>1, <2>1, <2>9 DEF OnceFor, z, n
  <2> QED BY <2>10 DEF z, n
<1> QED BY <1>17, <1>18, <1>19, <1>20, <1>21 DEF OnceInv

(* The handler runs to its end: it was the only one to run for its caller, *)
(* and add_reply finds the entry if the caller is still waiting.           *)
LEMMA ExecOnce ==
    ASSUME RefInv, OnceInv, RefInv', NEW w \in Workers, exec(w), UNCHANGED clientvars
    PROVE  OnceInv'
<1> DEFINE x == h[w].xid
<1>0. /\ RequestsHonest /\ JobsForThisInstance /\ ServerHonest /\ GoneIsIdle /\ Once
  BY DEF OnceInv
<1>1. /\ wpc[w] = "exec" /\ execs' = [execs EXCEPT ![x] = @ + 1]
      /\ reply_window_' = IF HasEntry(x) THEN [reply_window_ EXCEPT ![x] = "done"] ELSE reply_window_
      /\ wpc' = [wpc EXCEPT ![w] = "send"]
      /\ UNCHANGED <<nonce_, jobq, h, stat, req_q, rep_q, life>>
  BY DEF exec, add_reply, netvars
<1>2. IsSent(h[w]) /\ h[w] \in Requests
  BY <1>1, SentByWorker
<1>3. x \in Xids /\ x < xid_
  BY <1>0, <1>2 DEF RequestsHonest, Requests
<1>4. /\ wpc \in [Workers -> WorkerPCs] /\ nonce_ \in Nat /\ execs \in [Xids -> Nat]
      /\ reply_window_ \in [Xids -> {"absent", "inprogress", "done"}]
  BY MaxInstAssumption, RefInvParts DEF ServerPart, ServerTypes
<1> HIDE DEF x
<1>5. wpc'[w] = "send" /\ \A v \in Workers : v # w => wpc'[v] = wpc[v]
  BY <1>1, <1>4
<1>6. /\ execs'[x] = execs[x] + 1 /\ execs[x] \in Nat /\ execs'[x] > 0
      /\ \A y \in Xids : execs[y] \in Nat /\ (y # x => execs'[y] = execs[y])
  BY <1>1, <1>3, <1>4
<1>7. /\ reply_window_[x] # "absent" => reply_window_'[x] = "done"
      /\ reply_window_[x] = "absent" => reply_window_'[x] = "absent"
      /\ \A y \in Xids : y # x => reply_window_'[y] = reply_window_[y]
  BY <1>1, <1>3, <1>4 DEF HasEntry
<1>8. life # "gone"
  BY <1>0, <1>1 DEF GoneIsIdle
<1>9. pc' = pc /\ req' = req /\ done' = done /\ xid_' = xid_ /\ xid_ \in Nat
  BY FrontBelow DEF clientvars
<1>10. \A v \in Workers : wpc'[v] # "idle" <=> wpc[v] # "idle"
  BY <1>1, <1>5
<1>11. NoNewRequest
  BY <1>1, <1>9, <1>10, Zenon DEF NoNewRequest, IsSent
<1>12. /\ RequestsHonest' /\ SameXid' /\ DistinctXids'
       /\ BindHonest' /\ WindowBelow' /\ CallsAreThreads'
  <2>1. nonce_ <= nonce_'
    BY <1>1, <1>4
  <2> QED BY <1>11, <2>1, ServerStepOnce
<1>13. JobsForThisInstance' /\ GoneIsIdle'
  BY <1>0, <1>1, <1>8, <1>10 DEF JobsForThisInstance, GoneIsIdle
<1>14. \A y \in Xids : execs[y] <= execs'[y] /\ execs[y] \in Nat /\ execs'[y] \in Nat
  BY <1>6
<1>15. ServerHonest'
  <2>1. ASSUME NEW y \in Xids
        PROVE  /\ reply_window_'[y] = "done" => execs'[y] > 0
               /\ reply_window_'[y] # "absent" => y < xid_
               /\ execs'[y] > 0 => y < xid_
    <3>1. CASE y = x
      BY <1>3, <1>6, <3>1
    <3>2. CASE y # x
      BY <1>0, <1>6, <1>7, <3>2 DEF ServerHonest
    <3> QED BY <3>1, <3>2
  <2>2. ASSUME NEW v \in Workers, wpc'[v] = "send", stat[v] # "FORGOTTEN" PROVE execs'[h[v].xid] > 0
    <3>1. CASE v = w
      BY <1>6, <3>1 DEF x
    <3>2. CASE v # w
      <4>1. wpc[v] = "send"
        BY <1>5, <2>2, <3>2
      <4>2. h[v].xid \in Xids
        BY <4>1, SentByWorker DEF Requests
      <4>3. execs[h[v].xid] > 0
        BY <1>0, <2>2, <4>1 DEF ServerHonest
      <4> QED BY <1>14, <4>2, <4>3
    <3> QED BY <3>1, <3>2
  <2> QED BY <1>1, <1>9, <2>1, <2>2 DEF ServerHonest
<1>16. AnswersHonest'
  <2>1. \A p \in Replies : IsAnswer(p)' => IsAnswer(p)
    BY <1>1 DEF IsAnswer
  <2>2. nonce_ <= nonce_' /\ xid_ <= xid_'
    BY <1>1, <1>4, <1>9
  <2> QED BY <1>9, <1>14, <2>1, <2>2, AnswersStay
<1>17. Once'
  <2> SUFFICES ASSUME NEW t \in Threads, Waits(t)' PROVE OnceFor(req[t].xid, req[t].srv_nonce)'
    BY DEF Once
  <2> DEFINE z == req[t].xid
             n == req[t].srv_nonce
  <2>1. Waits(t) /\ req'[t] = req[t]
    BY <1>9 DEF Waits, Active
  <2>2. OnceFor(z, n)
    BY <1>0, <2>1 DEF Once
  <2>3. z \in Xids
    BY <2>1, RefInvParts DEF Waits, Active, ClientPart, CallsHaveRequests, Requests
  <2>4. \A v \in Workers : Runs(v, z)' => Runs(v, z) /\ v # w
    BY <1>1, <1>5, <2>1 DEF Runs
  <2>5. z = x => Runs(w, z)
    BY <1>1 DEF Runs, x
  <2> HIDE DEF z, n
  <2>6. /\ execs'[z] <= 1
        /\ \A v \in Workers : Runs(v, z)' => execs'[z] = 0
        /\ \A u, v \in Workers : Runs(u, z)' /\ Runs(v, z)' => u = v
        /\ (n = nonce_ /\ life # "gone" /\ (execs'[z] > 0 \/ \E v \in Workers : Runs(v, z)'))
           => reply_window_'[z] # "absent"
    <3>1. CASE z = x
      <4>1. execs[z] = 0 /\ Runs(w, z)
        BY <2>2, <2>5, <3>1 DEF OnceFor
      <4>2. execs'[z] <= 1
        BY <1>6, <3>1, <4>1
      <4>3. \A v \in Workers : ~Runs(v, z)'
        BY <2>2, <2>4, <4>1 DEF OnceFor
      <4>4. n = nonce_ /\ life # "gone" => reply_window_'[z] # "absent"
        BY <1>7, <2>2, <3>1, <4>1 DEF OnceFor
      <4> QED BY <4>2, <4>3, <4>4
    <3>2. CASE z # x
      BY <1>6, <1>7, <2>2, <2>3, <2>4, <3>2 DEF OnceFor
    <3> QED BY <3>1, <3>2
  <2>7. OnceFor(z, n)'
    BY <1>1, <2>1, <2>6 DEF OnceFor, z, n
  <2> QED BY <2>7 DEF z, n
<1> QED BY <1>12, <1>13, <1>15, <1>16, <1>17 DEF OnceInv

(* The replies send may put on the wire, as long as it does not send from  *)
(* a freed buffer, only say what is true.                                  *)
LEMMA PdusHonest ==
    ASSUME RefInv, OnceInv, ResponseStillHeld, NEW w \in Workers, wpc[w] = "send", NEW p \in Pdus(w)
    PROVE  /\ p \in Replies /\ p.xid < xid_
           /\ p.ret = "ok" => p.r \in 1 .. nonce_ /\ (p.xid \in Xids => execs[p.xid] > 0)
<1> DEFINE x == h[w].xid
           own == Reply(x, IF stat[w] = "FORGOTTEN" THEN "atmostonce_failure" ELSE "ok")
<1>0. ServerHonest /\ RequestsHonest
  BY DEF OnceInv
<1>1. IsSent(h[w]) /\ h[w] \in Requests
  BY SentByWorker
<1>2. p \in Replies
  BY <1>1, PduTypes, RefInvParts DEF ServerPart
<1>3. nonce_ \in 1 .. nonce_
  <2>1. nonce_ \in Nat /\ nonce_ >= 1
    BY MaxInstAssumption, RefInvParts DEF ServerPart, ServerTypes
  <2> QED BY <2>1
<1>4. /\ \A y : Reply(y, "ok").xid = y /\ Reply(y, "ok").r = nonce_
      /\ \A y : Reply(y, "atmostonce_failure").xid = y /\ Reply(y, "atmostonce_failure").ret # "ok"
  BY DEF Reply
<1>5. x < xid_
  BY <1>0, <1>1 DEF RequestsHonest
<1>6. p = own
  BY DEF Pdus, ResponseStillHeld
<1>7. CASE stat[w] = "FORGOTTEN"
  BY <1>2, <1>4, <1>5, <1>6, <1>7
<1>8. CASE stat[w] # "FORGOTTEN"
  <2>1. execs[x] > 0
    BY <1>0, <1>8 DEF ServerHonest
  <2>2. p.xid = x /\ p.r = nonce_
    BY <1>4, <1>6, <1>8
  <2> QED BY <1>2, <1>3, <1>5, <2>1, <2>2
<1> QED BY <1>7, <1>8

LEMMA SendOnce ==
    ASSUME RefInv, OnceInv, ResponseStillHeld, RefInv', NEW w \in Workers, send(w),
           UNCHANGED clientvars
    PROVE  OnceInv'
<1>0. /\ JobsForThisInstance /\ ServerHonest /\ GoneIsIdle
  BY DEF OnceInv
<1>1. /\ wpc[w] = "send" /\ wpc' = [wpc EXCEPT ![w] = "idle"] /\ h' = [h EXCEPT ![w] = NoReq]
      /\ stat' = [stat EXCEPT ![w] = "NEW"]
      /\ UNCHANGED <<nonce_, reply_window_, jobq, execs, req_q, life>>
  BY DEF send
<1>2. PICK p \in Pdus(w) : rep_q' = ServerSend(ReplyConn(w), p)
  BY DEF send
<1>3. ReplyConn(w) \in Conns
  <2>1. wc[w] \in Conns /\ conns_ \in Conns
    BY <1>1, RefInvParts DEF ServerPart, WorkersHaveJobs
  <2> QED BY <2>1 DEF ReplyConn
<1>4. AnswersHonest'
  <2>1. /\ p \in Replies /\ p.xid < xid_
        /\ p.ret = "ok" => p.r \in 1 .. nonce_ /\ (p.xid \in Xids => execs[p.xid] > 0)
    BY <1>1, PdusHonest
  <2> QED BY <1>1, <1>2, <1>3, <2>1, OneAnswerOnce
<1>5. wpc'[w] = "idle" /\ \A v \in Workers : v # w => wpc'[v] = wpc[v] /\ h'[v] = h[v] /\ stat'[v] = stat[v]
  BY <1>1, RefInvParts DEF ServerPart, ServerTypes
<1>6. life # "gone"
  BY <1>0, <1>1 DEF GoneIsIdle
<1>7. pc' = pc /\ req' = req /\ xid_' = xid_
  BY DEF clientvars
<1>8. \A v \in Workers : wpc'[v] # "idle" => wpc[v] = wpc'[v] /\ h'[v] = h[v] /\ stat'[v] = stat[v]
  BY <1>5
<1>9. NoNewRequest
  BY <1>1, <1>7, <1>8, Zenon DEF NoNewRequest, IsSent
<1>10. /\ RequestsHonest' /\ SameXid' /\ DistinctXids'
       /\ BindHonest' /\ WindowBelow' /\ CallsAreThreads'
  <2>1. nonce_ \in Nat
    BY MaxInstAssumption, RefInvParts DEF ServerPart, ServerTypes
  <2>2. nonce_ <= nonce_'
    BY <1>1, <2>1
  <2> QED BY <1>9, <2>2, ServerStepOnce
<1>11. JobsForThisInstance' /\ GoneIsIdle'
  BY <1>0, <1>1, <1>6, <1>8 DEF JobsForThisInstance, GoneIsIdle
<1>12. ServerHonest'
  BY <1>0, <1>1, <1>7, <1>8 DEF ServerHonest
<1>13. Once'
  <2>1. \A v \in Workers : \A x \in Xids : Runs(v, x)' => Runs(v, x)
    BY <1>8 DEF Runs
  <2> QED BY <1>1, <1>6, <2>1, NoRunOnce
<1> QED BY <1>4, <1>10, <1>11, <1>12, <1>13 DEF OnceInv

(* ~rpcs frees the reply window only when every job is done.               *)
LEMMA FreeWindowOnce ==
    ASSUME RefInv, OnceInv, RefInv', free_reply_window, UNCHANGED clientvars
    PROVE  OnceInv'
<1>0. JobsForThisInstance /\ ServerHonest
  BY DEF OnceInv
<1>1. /\ jobq = <<>> /\ \A w \in Workers : wpc[w] = "idle"
      /\ reply_window_' = [x \in Xids |-> "absent"] /\ life' = "gone"
      /\ UNCHANGED <<nonce_, jobq, wpc, h, stat, execs, req_q, rep_q>>
  BY DEF free_reply_window
<1>2. pc' = pc /\ req' = req /\ done' = done /\ xid_' = xid_
  BY DEF clientvars
<1>3. /\ nonce_ \in Nat /\ xid_ \in Nat /\ \A x \in Xids : execs[x] \in Nat
  BY FrontBelow, MaxInstAssumption, RefInvParts DEF ServerPart, ServerTypes
<1>4. nonce_ <= nonce_' /\ xid_ <= xid_' /\ \A x \in Xids : execs[x] <= execs'[x]
  BY <1>1, <1>2, <1>3
<1>5. NoNewRequest
  BY <1>1, <1>2, Zenon DEF NoNewRequest, IsSent
<1>6. /\ RequestsHonest' /\ SameXid' /\ DistinctXids'
      /\ BindHonest' /\ WindowBelow' /\ CallsAreThreads'
  BY <1>4, <1>5, ServerStepOnce
<1>7. JobsForThisInstance' /\ GoneIsIdle'
  BY <1>1 DEF JobsForThisInstance, GoneIsIdle
<1>8. ServerHonest'
  BY <1>0, <1>1, <1>2 DEF ServerHonest
<1>9. AnswersHonest'
  <2>1. \A p \in Replies : IsAnswer(p)' => IsAnswer(p)
    BY <1>1 DEF IsAnswer
  <2> QED BY <1>2, <1>4, <2>1, AnswersStay
<1>10. Once'
  <2>1. \A w \in Workers : \A x \in Xids : Runs(w, x)' => Runs(w, x)
    BY <1>1 DEF Runs
  <2> QED BY <1>1, <2>1, NoRunOnce
<1> QED BY <1>6, <1>7, <1>8, <1>9, <1>10 DEF OnceInv

(* A new instance has a nonce of its own, so it refuses every request that *)
(* was packed before: what the old one has run is not run again.           *)
LEMMA RestartOnce ==
    ASSUME RefInv, OnceInv, RefInv', restart, UNCHANGED clientvars
    PROVE  OnceInv'
<1>0. RequestsHonest /\ ServerHonest /\ Once
  BY DEF OnceInv
<1>1. /\ life' = "up" /\ nonce_' = nonce_ + 1 /\ reply_window_' = [x \in Xids |-> "absent"]
      /\ jobq' = <<>> /\ wpc' = [w \in Workers |-> "idle"] /\ req_q' = [c \in Conns |-> <<>>]
      /\ execs' = execs /\ rep_q' = rep_q
  BY DEF restart
<1>2. pc' = pc /\ req' = req /\ done' = done /\ xid_' = xid_
  BY DEF clientvars
<1>3. /\ nonce_ \in Nat /\ xid_ \in Nat /\ \A x \in Xids : execs[x] \in Nat
  BY FrontBelow, MaxInstAssumption, RefInvParts DEF ServerPart, ServerTypes
<1>4. nonce_ <= nonce_' /\ xid_ <= xid_' /\ \A x \in Xids : execs[x] <= execs'[x]
  BY <1>1, <1>2, <1>3
<1>5. NoNewRequest
  <2>1. /\ \A w \in Workers : wpc'[w] = "idle"
        /\ \A c \in Conns : \A m : ~In(m, req_q'[c]) /\ ~In(<<c, m>>, jobq')
    BY <1>1, InEmpty
  <2> QED BY <1>2, <2>1, Zenon DEF NoNewRequest, IsSent
<1>6. /\ RequestsHonest' /\ SameXid' /\ DistinctXids'
      /\ BindHonest' /\ WindowBelow' /\ CallsAreThreads'
  BY <1>4, <1>5, ServerStepOnce
<1>7. JobsForThisInstance' /\ GoneIsIdle'
  BY <1>1 DEF JobsForThisInstance, GoneIsIdle
<1>8. ServerHonest'
  BY <1>0, <1>1, <1>2 DEF ServerHonest
<1>9. AnswersHonest'
  <2>1. \A p \in Replies : IsAnswer(p)' => IsAnswer(p)
    BY <1>1 DEF IsAnswer
  <2> QED BY <1>2, <1>4, <2>1, AnswersStay
<1>10. Once'
  <2> SUFFICES ASSUME NEW t \in Threads, Waits(t)' PROVE OnceFor(req[t].xid, req[t].srv_nonce)'
    BY DEF Once
  <2>1. Waits(t) /\ req'[t] = req[t]
    BY <1>2 DEF Waits, Active
  <2>2. OnceFor(req[t].xid, req[t].srv_nonce)
    BY <1>0, <2>1 DEF Once
  <2>3. pc[t] # "idle"
    BY <2>1 DEF Waits, Active
  <2>4. req[t].srv_nonce <= nonce_ /\ req[t].srv_nonce \in Nat
    BY <1>0, <2>3, SentByThread, MaxInstAssumption DEF RequestsHonest, Requests, Nonces
  <2>5. req[t].srv_nonce # nonce_'
    BY <1>1, <1>3, <2>4
  <2>6. \A w \in Workers : \A x : ~Runs(w, x)'
    BY <1>1 DEF Runs
  <2> QED BY <1>1, <2>1, <2>2, <2>5, <2>6 DEF OnceFor
<1> QED BY <1>6, <1>7, <1>8, <1>9, <1>10 DEF OnceInv

-----------------------------------------------------------------------------
LEMMA InitOnce == Init => OnceInv
<1> SUFFICES ASSUME Init PROVE OnceInv
  OBVIOUS
<1>0. NetInit /\ ClientInit /\ ServerInit
  BY DEF Init
<1>1. /\ pc = [t \in Threads |-> "idle"] /\ req = [t \in Threads |-> NoReq]
      /\ wpc = [w \in Workers |-> "idle"] /\ jobq = <<>> /\ calls_ = {}
      /\ rep_q = [c \in Conns |-> <<>>] /\ req_q = [c \in Conns |-> <<>>] /\ life = "up"
      /\ xid_ = 1 /\ bind_done_ = FALSE /\ srv_nonce_ = 0 /\ xid_rep_window_ = {0}
      /\ done = [x \in Xids |-> NoReply] /\ nonce_ = 1
      /\ reply_window_ = [x \in Xids |-> "absent"] /\ execs = [x \in Xids |-> 0]
  BY <1>0 DEF NetInit, ClientInit, ServerInit
<1>2. \A m \in Requests : ~IsSent(m)
  BY <1>1, InEmpty DEF IsSent
<1>3. \A p \in Replies : ~IsAnswer(p)
  BY <1>1, InEmpty DEF IsAnswer
<1>4. RequestsHonest /\ SameXid /\ DistinctXids /\ JobsForThisInstance
  BY <1>1, <1>2 DEF RequestsHonest, SameXid, DistinctXids, JobsForThisInstance
<1>5. AnswersHonest /\ BindHonest /\ ServerHonest
  BY <1>1, <1>3 DEF AnswersHonest, BindHonest, ServerHonest, NoReply
<1>6. WindowBelow /\ CallsAreThreads /\ GoneIsIdle /\ Once
  BY <1>1 DEF WindowBelow, CallsAreThreads, GoneIsIdle, Once, Waits, Active, Unanswered
<1> QED BY <1>4, <1>5, <1>6 DEF OnceInv

LEMMA NextOnce == RefInv /\ OnceInv /\ ResponseStillHeld /\ RefInv' /\ [Next]_vars => OnceInv'
<1> SUFFICES ASSUME RefInv, OnceInv, ResponseStillHeld, RefInv', [Next]_vars PROVE OnceInv'
  OBVIOUS
<1>1. CASE ClientNext /\ UNCHANGED servervars
  BY <1>1, Call1Once, TransmitOnce, TimeoutOnce, LeaveOnce, BindFinishOnce, ClientGotPduOnce,
     DeleteClientOnce DEF ClientNext
<1>2. CASE ServerNext /\ UNCHANGED clientvars
  BY <1>2, ProcessAcceptOnce, ServerGotPduOnce, DispatchOnce, SaveConnOnce, CheckOnce, ExecOnce,
     SendOnce, ClosingOnce, FreeWindowOnce, RestartOnce DEF ServerNext
<1>3. CASE NetNext /\ UNCHANGED <<clientvars, servervars>>
  BY <1>3, NetOnce DEF NetNext
<1>4. CASE UNCHANGED vars
  BY <1>4, StutterOnce
<1> QED BY <1>1, <1>2, <1>3, <1>4 DEF Next

LEMMA OnceInvHolds == Spec /\ []ResponseStillHeld => [](RefInv /\ OnceInv)
<1>1. Init => RefInv /\ OnceInv
  BY InitKeeps, InitOnce
<1>2. RefInv /\ OnceInv /\ ResponseStillHeld /\ [Next]_vars => RefInv' /\ OnceInv'
  BY NextKeeps, NextOnce
<1> QED BY <1>1, <1>2, PTL DEF Spec

(* A thread that waits for a reply is in call1's loop.                     *)
LEMMA UnansweredWaits ==
    ASSUME RefInv, OnceInv, NEW t \in Threads, req[t].xid \in Unanswered PROVE Active(t)
<1>0. BindHonest /\ CallsAreThreads
  BY DEF OnceInv
<1>1. req[t].xid \in calls_ /\ done[req[t].xid] = NoReply /\ req[t].xid \in Xids
  BY RefInvParts DEF Unanswered, ClientPart, ClientTypes
<1>2. pc[t] # "idle"
  <2>1. 0 \notin Xids
    BY MaxXidAssumption DEF Xids
  <2> QED BY <1>0, <1>1, <2>1 DEF CallsAreThreads, NoReq
<1>3. pc[t] # "bound"
  BY <1>0, <1>1 DEF BindHonest, NoReply
<1> QED BY <1>2, <1>3, RefInvParts DEF ClientPart, ClientTypes, ClientPCs, Active

(* Until its reply reaches the client, the handler of a call runs at most  *)
(* once: not again for a copy that call1 sends on another connection or    *)
(* that comes late, not while another dispatch thread still runs it, and   *)
(* not on the instance that is started after a crash.  As the next two, it *)
(* holds as long as dispatch sends from no buffer that was freed under it. *)
THEOREM RunsAtMostOnceUntilAnswered == Spec /\ []ResponseStillHeld => []UnansweredRunsAtMostOnce
<1>1. RefInv /\ OnceInv => UnansweredRunsAtMostOnce
  <2> SUFFICES ASSUME RefInv, OnceInv, NEW x \in Unanswered, ~IsBind(x) PROVE execs[x] <= 1
    BY DEF UnansweredRunsAtMostOnce
  <2>0. RequestsHonest /\ CallsAreThreads /\ Once
    BY DEF OnceInv
  <2>1. x \in calls_ /\ done[x] = NoReply
    BY DEF Unanswered
  <2>2. PICK t \in Threads : Active(t) /\ req[t].xid = x
    BY <2>0, <2>1 DEF CallsAreThreads
  <2>3. IsSent(req[t]) /\ req[t] \in Requests
    BY <2>2, SentByThread DEF Active
  <2>4. req[t].proc = "call"
    BY <2>2, <2>3 DEF IsBind, Requests, Procs
  <2>5. req[t].srv_nonce # 0
    BY <2>0, <2>3, <2>4 DEF RequestsHonest
  <2>6. Waits(t)
    BY <2>1, <2>2, <2>5 DEF Waits
  <2> QED BY <2>0, <2>2, <2>6 DEF Once, OnceFor
<1> QED BY <1>1, OnceInvHolds, PTL

(* What xid_rep confirms, the client has: checkduplicate_and_update never  *)
(* removes the reply of a call that its client may still retransmit to     *)
(* this instance.                                                          *)
THEOREM NeededReplyIsKept == Spec /\ []ResponseStillHeld => []NeededReplyKept
<1>1. RefInv /\ OnceInv => NeededReplyKept
  <2> SUFFICES ASSUME RefInv, OnceInv, NEW t \in Threads, life # "gone", req[t].xid \in Unanswered,
                      req[t].srv_nonce = nonce_, execs[req[t].xid] > 0
               PROVE  reply_window_[req[t].xid] # "absent"
    BY DEF NeededReplyKept
  <2>1. Active(t)
    BY UnansweredWaits
  <2>2. req[t].srv_nonce # 0
    BY MaxInstAssumption, RefInvParts DEF ServerPart, ServerTypes
  <2>3. Waits(t)
    BY <2>1, <2>2 DEF Waits, Unanswered
  <2> QED BY <2>3 DEF OnceInv, Once, OnceFor
<1> QED BY <1>1, OnceInvHolds, PTL

(* A call returns ok to its caller only if its handler has run, as long as *)
(* dispatch does not send from a buffer that was freed under it: the bytes *)
(* of another call's request there would pass for its ok.                  *)
THEOREM OkIsTrue == Spec /\ []ResponseStillHeld => []OkMeansExecuted
<1>1. OnceInv => OkMeansExecuted
  BY DEF OnceInv, AnswersHonest, OkMeansExecuted
<1> QED BY <1>1, OnceInvHolds, PTL

(* The hypothesis of the last three theorems is met where one thread alone *)
(* dispatches: it takes two for one to free the reply the other is sending *)
(* on.                                                                     *)
THEOREM OneWorkerHoldsResponses ==
    ASSUME \A v, w \in Workers : v = w
    PROVE  Spec => []ResponseStillHeld
<1> DEFINE Held == buf \in [Workers -> {"own", "window"}]
<1>1. Init => Held
  BY DEF Init, ServerInit
<1>2. Held /\ [Next]_vars => Held'
  <2> SUFFICES ASSUME Held, [Next]_vars PROVE Held'
    OBVIOUS
  <2>1. CASE UNCHANGED buf
    BY <2>1
  <2>2. ASSUME NEW w \in Workers, checkduplicate_and_update(w) PROVE Held'
    BY <2>2 DEF checkduplicate_and_update
  <2>3. ASSUME NEW w \in Workers, exec(w) PROVE Held'
    BY <2>3 DEF exec, add_reply
  <2>4. ASSUME NEW w \in Workers, send(w) PROVE Held'
    BY <2>4 DEF send
  <2>5. CASE restart
    BY <2>5 DEF restart
  <2>6. CASE ServerNext
    BY <2>1, <2>2, <2>3, <2>4, <2>5, <2>6
       DEF ServerNext, process_accept, server_got_pdu, dispatch, save_conn, close_conn, delete_listener,
           delete_pool, free_reply_window, servervars
  <2> QED BY <2>1, <2>6 DEF Next, vars, servervars
<1>3. Held => ResponseStillHeld
  BY DEF ResponseStillHeld
<1> QED BY <1>1, <1>2, <1>3, PTL DEF Spec
=============================================================================
