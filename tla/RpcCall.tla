------------------------------ MODULE RpcCall ------------------------------
(***************************************************************************)
(* One rpcc::call from its arguments to its return value: the marshalling  *)
(* templates of rpc.h, call1's loop with its clock and deadlines, dispatch *)
(* with the handler's unmarshalling, and the reply's way back.  What other *)
(* calls, other connections and duplicates do is the business of Rpc; here *)
(* the server runs a request once and sends its saved reply again.         *)
(*                                                                         *)
(* Time passes while the caller waits.  It runs at most Late after its     *)
(* deadline; connecting and its own steps take no time.                    *)
(***************************************************************************)
EXTENDS Marshall, Deadline

CONSTANTS Calls,     \* the calls that may be made: see call below
          Ids,       \* xids and client nonces for their headers
          nonce_,    \* the server instance
          Starts,    \* times, in nanoseconds, at which call1 may start
          Statuses,  \* what handlers return
          ToMin,     \* rpcc::to_min, in milliseconds
          Late,      \* bound on how late a waiting thread runs
          MaxNow     \* bound on the clock

(* tv_sec = 0 is call1's mark for "no deadline left".                      *)
ASSUME StartsAssumption == Starts \subseteq Nat /\ \A s \in Starts : s >= NsPerSec

(* The values of int and unsigned int: what the fields of a header hold.   *)
Int32 == -(Power[SizeOfInt] \div 2) .. Power[SizeOfInt] \div 2 - 1

Uint32 == 0 .. Power[SizeOfInt] - 1

(* A handler's status is never negative: that is how call1 tells its own   *)
(* failures.  The nonce is a value of random().                            *)
ASSUME StatusesAssumption == Statuses \subseteq Int32 \cap Nat /\ nonce_ \in Int32 \cap Nat

(* The fields of a req_header are what their C++ types hold.               *)
ASSUME IdsAssumption == Ids \subseteq [xid : Int32, clt_nonce : Uint32, xid_rep : Int32]

(* What an integer of type t may be.                                       *)
ValuesOf(t) == LET n == Power[Width[t]]
               IN  IF t \in SignedTypes THEN -(n \div 2) .. n \div 2 - 1 ELSE 0 .. n - 1

(* A string of bytes, or an integer with the operator its type chooses.    *)
IsValue(v) == \/ v.type = "string" /\ v.val \in Seq(0 .. Byte - 1)
              \/ v.type \in DOMAIN Width /\ v.val \in Seq(Int) /\ Len(v.val) = 1
                   /\ v.val[1] \in ValuesOf(v.type)

(* The bytes that marshalling the values vs produces.                      *)
Bytes(vs) ==
    LET f[i \in 0 .. Len(vs)] == IF i = 0 THEN marshall ELSE put(f[i - 1], vs[i])
        b == take_buf(f[Len(vs)])
    IN  SubSeq(b, RPC_HEADER_SZ + 1, Len(b))

(* A caller passes values of types that << is defined for, and a timeout   *)
(* that is not negative; its r has a type that >> is defined for.          *)
ASSUME CallsAssumption ==
    \A c \in Calls : /\ c.proc \in Int32 /\ c.to \in Nat
                     /\ c.args \in Seq({c.args[i] : i \in DOMAIN c.args})
                     /\ \A i \in DOMAIN c.args : IsValue(c.args[i])
                     /\ c.rtype \in DOMAIN Width \cup {"string"}

(* The size of a request is an int.                                        *)
ASSUME SizesAssumption == \A c \in Calls : RPC_HEADER_SZ + Len(Bytes(c.args)) \in Int32

ASSUME TimingAssumption == ToMin \in Nat \ {0} /\ Late \in Nat /\ MaxNow \in Nat

VARIABLES now,       \* the clock, in nanoseconds
          call,      \* proc, args, rtype (the type of r) and to
          h,         \* the req_header of the call
          pc,        \* where the caller is
          todo,      \* the arguments still to be marshalled
          req,       \* the request: a marshall object
          transmit,  \* the loop's flag of that name
          up,        \* ch is there and not dead
          wire,      \* which of "req" and "rep" are on their way
          final, next, curr_to,  \* call1's finaldeadline, nextdeadline, curr_to
          start,     \* history: when call1 started
          ca,        \* the caller object: done, intret and un
          srv,       \* the server: what it decoded, what it ran, the reply it saved
          out        \* what call returns, and its r

vars == <<now, call, h, pc, todo, req, transmit, up, wire, final, next, curr_to, start, ca, srv, out>>

timeout_failure == -1

unmarshal_args_failure == -2

unmarshal_reply_failure == -3

Time0 == [sec |-> 0, nsec |-> 0]

-----------------------------------------------------------------------------
(* The handlers of rpctest.cc, bind, and lock_server::stat, whose number   *)
(* 0x7004 is 74 here to fit an int of small bytes: their argument types    *)
(* and the type of r.                                                      *)
procs_ == [p \in {1, 22, 23, 24, 25, 74} |->
             CASE p = 22 -> [args |-> <<"string", "string">>, r |-> "string"]
               [] p = 25 -> [args |-> <<"int">>, r |-> "string"]
               [] p = 74 -> [args |-> <<"int", "ull">>, r |-> "int"]
               [] p \in {1, 23, 24} -> [args |-> <<"int">>, r |-> "int"]]

(* What they put into r; a sum that is too large for an int wraps.  For a  *)
(* negative length handle_bigrep's string throws, which ends the server's  *)
(* process; no caller asks for one, and that is left out.                  *)
meth(p, a) == CASE p = 1 -> <<nonce_>>
                [] p = 22 -> a[1] \o a[2]
                [] p = 23 -> <<AsSigned((a[1][1] + 1) % Power[SizeOfInt], SizeOfInt)>>
                [] p = 24 -> <<AsSigned((a[1][1] + 2) % Power[SizeOfInt], SizeOfInt)>>
                [] p = 25 -> [i \in 1 .. a[1][1] |-> 1]
                [] p = 74 -> <<2>>

(* args >> a1; args >> a2; ...                                             *)
GetArgs(u, types) ==
    LET f[i \in 0 .. Len(types)] ==
          IF i = 0 THEN [vals |-> <<>>, u |-> u]
          ELSE LET g == get(f[i - 1].u, types[i])
               IN  [vals |-> Append(f[i - 1].vals, g.val), u |-> g.u]
    IN  f[Len(types)]

(* dispatch of a request with header hd whose arguments are in u: what the *)
(* handler's fn does, and the reply with its header.                       *)
Dispatched(hd, u, status) ==
    LET types == procs_[hd.proc]
        g == GetArgs(u, types.args)
        r == meth(hd.proc, g.vals)
        reply(ret, m) == pack_reply_header(m, [xid |-> hd.xid, ret |-> ret])
    IN  IF okdone(g.u)
        THEN [seen |-> TRUE, h |-> hd, ran |-> TRUE, args |-> g.vals, ret |-> status, r |-> r,
              rep |-> reply(status, put(marshall, [type |-> types.r, val |-> r]))]
        ELSE [seen |-> TRUE, h |-> hd, ran |-> FALSE, args |-> <<>>, ret |-> unmarshal_args_failure, r |-> <<>>,
              rep |-> reply(unmarshal_args_failure, marshall)]

(* The server before the request has come.                                 *)
NotServed == [seen |-> FALSE, h |-> h, ran |-> FALSE, args |-> <<>>, ret |-> 0, r |-> <<>>, rep |-> marshall]

-----------------------------------------------------------------------------
Init == /\ now \in Starts
        /\ call \in Calls
        /\ \E id \in Ids : h = [xid |-> id.xid, proc |-> call.proc, clt_nonce |-> id.clt_nonce,
                                srv_nonce |-> IF call.proc = 1 THEN 0 ELSE nonce_,
                                xid_rep |-> id.xid_rep]
        /\ pc = "args"
        /\ todo = call.args
        /\ req = marshall
        /\ transmit = FALSE
        /\ up = FALSE
        /\ wire = {}
        /\ final = Time0 /\ next = Time0
        /\ curr_to = 0
        /\ start = now
        /\ ca = [done |-> FALSE, intret |-> 0, un |-> unmarshall(<<>>)]
        /\ srv = NotServed
        /\ out = [ret |-> 0, val |-> <<>>]

(* call: m << a1, m << a2, ... one after the other.                        *)
marshall_arg ==
    /\ pc = "args"
    /\ todo # <<>>
    /\ req' = put(req, Head(todo))
    /\ todo' = Tail(todo)
    /\ UNCHANGED <<now, call, h, pc, transmit, up, wire, final, next, curr_to, start, ca, srv, out>>

(* call1 up to its loop.                                                   *)
call1 ==
    /\ pc = "args"
    /\ todo = <<>>
    /\ req' = pack_req_header(req, h)
    /\ final' = add_timespec(clock_gettime(now), call.to)
    /\ curr_to' = ToMin
    /\ transmit' = TRUE
    /\ pc' = "top"
    /\ UNCHANGED <<now, call, h, todo, up, wire, next, start, ca, srv, out>>

(* The top of the loop: get_refconn, which may fail to connect, and send.  *)
(* After that there may be no deadline left to wait for.                   *)
loop_top ==
    /\ pc = "top"
    /\ transmit' = FALSE
    /\ IF transmit
       THEN \E connected \in IF up THEN {TRUE} ELSE BOOLEAN :
               /\ up' = connected
               /\ wire' = IF connected THEN wire \cup {"req"} ELSE wire
       ELSE UNCHANGED <<up, wire>>
    /\ pc' = IF final.sec = 0 THEN "out" ELSE "set"
    /\ UNCHANGED <<now, call, h, todo, req, final, next, curr_to, start, ca, srv, out>>

(* Mutant: the final deadline does not cut a wait short before it has      *)
(* passed.                                                                 *)
CutOffLate(d) == cmp_timespec(d, final) > 0 /\ now >= Total(final)

(* Whether the next deadline is after the final one.                       *)
CutOff(d) == cmp_timespec(d, final) > 0

(* The deadline of the next wait.                                          *)
set_deadline ==
    /\ pc = "set"
    /\ LET d == add_timespec(clock_gettime(now), curr_to)
       IN  /\ next' = IF CutOff(d) THEN final ELSE d
           /\ final' = IF CutOff(d) THEN [final EXCEPT !.sec = 0] ELSE final
    /\ pc' = "waiting"
    /\ UNCHANGED <<now, call, h, todo, req, transmit, up, wire, curr_to, start, ca, srv, out>>

(* pthread_cond_timedwait returns ETIMEDOUT for deadline d.  For a d it    *)
(* does not accept it returns EINVAL at once, without letting go of ca.m,  *)
(* and the loop around it calls it again, for ever.                        *)
HasPassed(d) == IsValid(d) /\ now >= Total(d)

timed_out ==
    /\ pc = "waiting"
    /\ ~ca.done
    /\ HasPassed(next)
    /\ transmit' = ~up
    /\ curr_to' = 2 * curr_to
    /\ pc' = "top"
    /\ UNCHANGED <<now, call, h, todo, req, up, wire, final, next, start, ca, srv, out>>

(* The wait ends with the reply.                                           *)
woken == /\ pc = "waiting"
         /\ ca.done
         /\ pc' = "out"
         /\ UNCHANGED <<now, call, h, todo, req, transmit, up, wire, final, next, curr_to, start,
                        ca, srv, out>>

(* call1 after its loop, and call_m: the caller's r is read from the reply *)
(* only if the call succeeded.                                             *)
call_m ==
    /\ pc = "out"
    /\ LET intret == IF ca.done THEN ca.intret ELSE timeout_failure
           g == get(ca.un, call.rtype)
       IN  out' = IF intret < 0 THEN [ret |-> intret, val |-> <<>>]
                  ELSE [ret |-> IF okdone(g.u) THEN intret ELSE unmarshal_reply_failure,
                        val |-> g.val]
    /\ pc' = "returned"
    /\ UNCHANGED <<now, call, h, todo, req, transmit, up, wire, final, next, curr_to, start, ca, srv>>

-----------------------------------------------------------------------------
(* The server: dispatch, for a request that is new or has been run before. *)
(* A request for a procedure that is not registered has no reply.          *)
dispatch ==
    /\ "req" \in wire
    /\ LET u == unpack_req_header(unmarshall(take_buf(req)))
       IN  IF u.h.proc \in DOMAIN procs_
           THEN /\ wire' = (wire \ {"req"}) \cup {"rep"}
                /\ IF srv.seen
                   THEN UNCHANGED srv
                   ELSE \E status \in Statuses : srv' = Dispatched(u.h, u.u, status)
           ELSE /\ wire' = wire \ {"req"}
                /\ UNCHANGED srv
    /\ UNCHANGED <<now, call, h, pc, todo, req, transmit, up, final, next, curr_to, start, ca, out>>

(* The call is in calls_, which call1 takes it out of after its loop.      *)
Pending == pc \in {"top", "set", "waiting", "out"}

(* rpcc::got_pdu for a call that is still in calls_; ca.m is free unless   *)
(* the caller goes round and round with a deadline that is not accepted.   *)
got_pdu ==
    /\ "rep" \in wire
    /\ Pending
    /\ pc = "waiting" => IsValid(next)
    /\ LET b == take_buf(srv.rep)
           rh == unpack_reply_header(unmarshall(b)).h
       IN  ca' = IF rh.xid = h.xid /\ ~ca.done
                 THEN [done |-> TRUE, intret |-> rh.ret, un |-> take_in(b)]
                 ELSE ca
    /\ wire' = wire \ {"rep"}
    /\ UNCHANGED <<now, call, h, pc, todo, req, transmit, up, final, next, curr_to, start, srv, out>>

(* The connection dies, and what is on it is lost.                         *)
Break == /\ up
         /\ Pending
         /\ up' = FALSE
         /\ wire' = {}
         /\ UNCHANGED <<now, call, h, pc, todo, req, transmit, final, next, curr_to, start, ca,
                        srv, out>>

Tick == /\ pc = "waiting"
        /\ ~ca.done
        /\ IsValid(next) => now < Total(next) + Late
        /\ now < MaxNow
        /\ now' = now + 1
        /\ UNCHANGED <<call, h, pc, todo, req, transmit, up, wire, final, next, curr_to, start, ca,
                       srv, out>>

Caller == marshall_arg \/ call1 \/ loop_top \/ set_deadline \/ timed_out \/ woken \/ call_m

Next == Caller \/ dispatch \/ got_pdu \/ Break \/ Tick

(* The caller's thread is scheduled and time passes.  Nothing else is      *)
(* needed for a call to return.                                            *)
Spec == Init /\ [][Next]_vars /\ WF_vars(Caller) /\ WF_vars(Tick)
-----------------------------------------------------------------------------
(* rpctest.cc, simple_tests: calls with strings and integers cut down, and *)
(* what the test asserts of each: that it fails, or the r it returns.      *)
IntVal(x) == [type |-> "int", val |-> <<x>>]

StrVal(s) == [type |-> "string", val |-> s]

Test(proc, args, rtype, fails, r) ==
    [call |-> [proc |-> proc, args |-> args, rtype |-> rtype, to |-> 3 * MsPerSec],
     fails |-> fails, r |-> r]

(* A string that does not fit the buffer even when its capacity doubles.   *)
Big == [i \in 1 .. DefaultSz + 4 |-> 1]

simple_tests ==
    {Test(22, <<StrVal(<<1, 2>>), StrVal(<<3>>)>>, "string", FALSE, <<1, 2, 3>>),
     Test(25, <<IntVal(5)>>, "string", FALSE, <<1, 1, 1, 1, 1>>),
     Test(22, <<StrVal(<<1, 2>>)>>, "string", TRUE, <<>>),
     Test(23, <<IntVal(101), IntVal(102)>>, "string", TRUE, <<>>),
     Test(23, <<StrVal(<<1, 2>>), StrVal(<<3>>)>>, "int", TRUE, <<>>),
     Test(23, <<IntVal(77)>>, "int", FALSE, <<78>>),
     Test(22, <<StrVal(Big), StrVal(<<1>>)>>, "string", FALSE, Big \o <<1>>)}

(* The calls of its concurrent clients, for a few arguments: strings of a  *)
(* given length, and replies that may overtake each other.                 *)
client1 ==
    {Test(25, <<IntVal(n)>>, "string", FALSE, [i \in 1 .. n |-> 1]) : n \in {0, 7}}
    \cup {Test(23, <<IntVal(3)>>, "int", FALSE, <<4>>)}

client3 == {Test(24, <<IntVal(i)>>, "int", FALSE, <<i + 2>>) : i \in 0 .. 3}

rpctest == simple_tests \cup client1 \cup client3

-----------------------------------------------------------------------------
(* marshall writes inside its buffer: whatever is marshalled, in whatever  *)
(* order, _capa is grown before the bytes go in (rawbyte, rawbytes), and   *)
(* what goes in are bytes.                                                 *)
BuffersHold == \A m \in {req, srv.rep} :
                  /\ m.ind <= m.capa /\ Len(m.buf) <= m.capa
                  /\ \A i \in DOMAIN m.buf : m.buf[i] \in 0 .. Junk

TypesOf(vs) == [i \in DOMAIN vs |-> vs[i].type]

ValsOf(vs) == [i \in DOMAIN vs |-> vs[i].val]

Typed(types, vals) == [i \in DOMAIN types |-> [type |-> types[i], val |-> vals[i]]]

(* A handler runs only on the caller's own header and on arguments that    *)
(* are, byte for byte, the ones marshalled: neither too few nor too many   *)
(* (okdone).  When the caller used the handler's types it does run, and    *)
(* sees the caller's values.                                               *)
ArgumentsArrive ==
    srv.seen =>
       LET types == procs_[h.proc].args
       IN  /\ srv.h = h
           /\ srv.ran => Bytes(Typed(types, srv.args)) = Bytes(call.args)
           /\ TypesOf(call.args) = types => srv.ran /\ srv.args = ValsOf(call.args)

(* A call that returns success got the handler's own status, and its r is, *)
(* byte for byte, the handler's.  A reply to a caller that used the right  *)
(* types is never turned into a failure.                                   *)
ResultArrives ==
    pc = "returned" =>
       /\ out.ret >= 0 =>
             /\ srv.ran /\ out.ret = srv.ret
             /\ Bytes(<<[type |-> call.rtype, val |-> out.val]>>)
                  = Bytes(<<[type |-> procs_[h.proc].r, val |-> srv.r]>>)
       /\ ca.done /\ srv.ran /\ call.rtype = procs_[h.proc].r =>
             out.ret = srv.ret /\ out.val = srv.r

(* The asserts of rpctest.cc hold for every call that does not time out.   *)
RpcTestsPass ==
    pc = "returned" /\ out.ret # timeout_failure =>
       \A t \in rpctest : t.call = call =>
          IF t.fails THEN out.ret < 0 ELSE out.ret = srv.ret /\ out.val = t.r

Elapsed == now - start

(* "no spurious timeout": a call that returns timeout_failure has waited   *)
(* for its whole timeout, however its waits were doubled and cut off, and  *)
(* no longer than its thread is late, as the test of a bind to a server    *)
(* that is not there asserts.                                              *)
TimeoutInTime ==
    pc = "returned" /\ out.ret = timeout_failure =>
       Elapsed \in call.to * NsPerMs .. call.to * NsPerMs + Late

(* Every call returns, by its reply or by its deadline, with one           *)
(* exception: a deadline of exactly NsPerSec nanoseconds, which            *)
(* add_timespec may produce when the timeout is no whole number of         *)
(* seconds, and with which the wait never ends.                            *)
CallReturns ==
    (pc = "args") ~> \/ pc = "returned"
                     \/ next.nsec = NsPerSec /\ call.to % MsPerSec # 0
=============================================================================
