----------------------------- MODULE MCRpcCall -----------------------------
(* A small instance of RpcCall for TLC.                                    *)
EXTENDS RpcCall

Call(proc, args, rtype, to) == [proc |-> proc, args |-> args, rtype |-> rtype, to |-> to]

Value(type, x) == [type |-> type, val |-> <<x>>]

(* Right and wrong argument and result types, values at the ends of their  *)
(* ranges, and an unregistered procedure, all with a timeout of three      *)
(* seconds.                                                                *)
TypedCalls ==
    LET max == Power[4] \div 2 - 1
    IN  {Call(1, <<IntVal(0)>>, "int", 3 * MsPerSec),
         Call(23, <<IntVal(-1)>>, "int", 3 * MsPerSec),
         Call(23, <<IntVal(max)>>, "int", 3 * MsPerSec),
         Call(23, <<IntVal(-1)>>, "string", 3 * MsPerSec),
         Call(23, <<Value("short", -2), Value("ushort", 1)>>, "int", 3 * MsPerSec),
         Call(23, <<Value("char", -1), Value("uchar", 2), Value("short", -1)>>, "uint", 3 * MsPerSec),
         Call(22, <<IntVal(1), Value("char", 1), StrVal(<<>>)>>, "string", 3 * MsPerSec),
         Call(25, <<IntVal(DefaultSz)>>, "string", 3 * MsPerSec),
         Call(25, <<IntVal(0)>>, "int", 3 * MsPerSec),
         Call(25, <<IntVal(2)>>, "int", 3 * MsPerSec),
         Call(74, <<Value("uint", max), Value("ull", Power[8] - 1)>>, "int", 3 * MsPerSec),
         Call(74, <<IntVal(-max), IntVal(0), IntVal(1)>>, "ull", 3 * MsPerSec),
         Call(26, <<IntVal(1)>>, "int", 3 * MsPerSec)}

(* Timeouts from nothing to more than three seconds, whole or not.         *)
TimedCalls == {Call(24, <<IntVal(3)>>, "int", to) : to \in {0, 1, MsPerSec, MsPerSec + 2, 3 * MsPerSec + 1}}

MCCalls == TypedCalls \cup TimedCalls \cup {t.call : t \in rpctest}

MCIds == {[xid |-> 9, clt_nonce |-> Power[4] \div 2 - 1, xid_rep |-> 8]}

MCStarts == NsPerSec .. (2 * NsPerSec - 1)
=============================================================================
