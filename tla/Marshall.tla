------------------------------ MODULE Marshall ------------------------------
(***************************************************************************)
(* marshall and unmarshall (marshall.h, rpc.cc): the buffer a request or a *)
(* reply is written to and read from, byte by byte.  Widths are those of   *)
(* the code; how many values a byte has is a constant.  A marshall object  *)
(* is a record of _buf (as far as it has been written), _capa and _ind, an *)
(* unmarshall object one of _buf (_sz is its length), _ind and _ok.        *)
(*                                                                         *)
(* A value carries the C++ type the << or >> operator is chosen by and is  *)
(* a sequence of numbers: a string's bytes, or the one number an integer   *)
(* is.                                                                     *)
(***************************************************************************)
EXTENDS Integers, Sequences

CONSTANTS Byte,      \* how many values a byte has: 256
          DefaultSz  \* DEFAULT_RPC_SZ, the capacity a buffer starts with

SizeOfInt == 4

(* Room for the size of the PDU and the five integers of a req_header.     *)
RPC_HEADER_SZ == SizeOfInt + 5 * SizeOfInt

ASSUME ByteAssumption == Byte \in Nat \ {0} /\ Byte % 2 = 0

ASSUME DefaultSzAssumption == DefaultSz \in Nat /\ DefaultSz >= RPC_HEADER_SZ

Width == [char |-> 1, uchar |-> 1, short |-> 2, ushort |-> 2, int |-> 4, uint |-> 4, ull |-> 8]

SignedTypes == {"char", "short", "int"}

(* What malloc leaves in the buffer, told apart from every byte.           *)
Junk == Byte

(* How many values k bytes have.                                           *)
Power[k \in 0 .. 8] == IF k = 0 THEN 1 ELSE Power[k - 1] * Byte

(* (x >> 8 * k) & 0xff                                                     *)
ByteOf(x, k) == (x \div Power[k]) % Byte

(* The signed integer of n bytes with the bits of x.                       *)
AsSigned(x, n) == IF 2 * x >= Power[n] THEN x - Power[n] ELSE x

-----------------------------------------------------------------------------
marshall == [buf |-> [i \in 1 .. RPC_HEADER_SZ |-> Junk], capa |-> DefaultSz, ind |-> RPC_HEADER_SZ]

(* The bytes of an integer of n bytes, in network order.                   *)
BigEndian(x, n) == [i \in 1 .. n |-> ByteOf(x, n - i)]

(* Whether one of the next n bytes finds _ind >= _capa.                    *)
Full(m, n) == m.ind + n > m.capa

(* rawbyte for each byte of s in turn.  The buffer doubles when it is      *)
(* full, at most once since s is never longer than the buffer is.          *)
rawbyte(m, s) ==
    [buf |-> SubSeq(m.buf, 1, m.ind) \o s \o SubSeq(m.buf, m.ind + Len(s) + 1, Len(m.buf)),
     capa |-> IF Full(m, Len(s)) THEN 2 * m.capa ELSE m.capa,
     ind |-> m.ind + Len(s)]

(* Mutant: doubling is taken to be enough for any string.                  *)
GrownTwice(capa, n) == 2 * capa

(* The capacity rawbytes grows to when n more bytes do not fit.            *)
Grown(capa, n) == IF capa > n THEN 2 * capa ELSE capa + n

(* A string's bytes, always at the end of what has been written.           *)
rawbytes(m, s) ==
    [buf |-> SubSeq(m.buf, 1, m.ind) \o s,
     capa |-> IF m.ind + Len(s) > m.capa THEN Grown(m.capa, Len(s)) ELSE m.capa,
     ind |-> m.ind + Len(s)]

(* m << v                                                                  *)
put(m, v) ==
    IF v.type = "string" THEN rawbytes(rawbyte(m, BigEndian(Len(v.val), SizeOfInt)), v.val)
    ELSE rawbyte(m, BigEndian(v.val[1], Width[v.type]))

(* The header's integers, packed in front of what has been marshalled.     *)
PackHeader(m, ints) ==
    [rawbyte([m EXCEPT !.ind = SizeOfInt], ints) EXCEPT !.ind = m.ind]

pack_req_header(m, h) ==
    PackHeader(m, BigEndian(h.xid, SizeOfInt) \o BigEndian(h.proc, SizeOfInt)
                  \o BigEndian(h.clt_nonce, SizeOfInt) \o BigEndian(h.srv_nonce, SizeOfInt)
                  \o BigEndian(h.xid_rep, SizeOfInt))

(* Mutant: _ind is left behind the header.                                 *)
pack_reply_headerNoRestore(m, h) ==
    [PackHeader(m, BigEndian(h.xid, SizeOfInt) \o BigEndian(h.ret, SizeOfInt))
       EXCEPT !.ind = RPC_HEADER_SZ]

pack_reply_header(m, h) ==
    PackHeader(m, BigEndian(h.xid, SizeOfInt) \o BigEndian(h.ret, SizeOfInt))

(* The bytes that are sent: cstr() and size(), or take_buf.                *)
take_buf(m) == SubSeq(m.buf, 1, m.ind)

-----------------------------------------------------------------------------
unmarshall(b) == [buf |-> b, ind |-> 0, ok |-> TRUE]

(* rawbyte n times, n being the width of an integer: the bytes it returns, *)
(* zero past the end, as an unsigned number, and what it leaves.  The two  *)
(* halves of an ull are eight bytes in the same order.                     *)
GetBytes(u, n) ==
    LET left == Len(u.buf) - u.ind
        number[i \in 0 .. n] == IF i = 0 THEN 0
                                ELSE number[i - 1] * Byte + (IF i <= left THEN u.buf[u.ind + i] ELSE 0)
    IN  [val |-> number[n],
         u |-> IF n <= left THEN [u EXCEPT !.ind = @ + n]
               ELSE [u EXCEPT !.ind = IF left > 0 THEN Len(u.buf) ELSE @, !.ok = FALSE]]

(* unmarshall::rawbytes for a string of n bytes.  An unreadable string is  *)
(* left as it was, empty.  The sum is unsigned: for an n that makes it     *)
(* wrap, memory behind the buffer is read, and what is found there is      *)
(* Junk.                                                                   *)
GetString(u, n) ==
    LET end == (u.ind + n) % Power[SizeOfInt]
        at(i) == IF i <= Len(u.buf) THEN u.buf[i] ELSE Junk
    IN  IF end > Len(u.buf) THEN [val |-> <<>>, u |-> [u EXCEPT !.ok = FALSE]]
        ELSE [val |-> [i \in 1 .. n |-> at(u.ind + i)], u |-> [u EXCEPT !.ind = end]]

(* u >> x for an x of the given type.                                      *)
get(u, type) ==
    IF type = "string"
    THEN LET g == GetBytes(u, SizeOfInt)
         IN  IF g.u.ok THEN GetString(g.u, g.val) ELSE [val |-> <<>>, u |-> g.u]
    ELSE LET g == GetBytes(u, Width[type])
         IN  [val |-> <<IF type \in SignedTypes THEN AsSigned(g.val, Width[type]) ELSE g.val>>,
              u |-> g.u]

(* unpack_req_header and unpack_reply_header: the header, and u after it.  *)
unpack_req_header(u) ==
    LET f1 == get([u EXCEPT !.ind = SizeOfInt], "int")
        f2 == get(f1.u, "int")
        f3 == get(f2.u, "uint")
        f4 == get(f3.u, "uint")
        f5 == get(f4.u, "int")
    IN  [h |-> [xid |-> f1.val[1], proc |-> f2.val[1], clt_nonce |-> f3.val[1],
                srv_nonce |-> f4.val[1], xid_rep |-> f5.val[1]],
         u |-> [f5.u EXCEPT !.ind = RPC_HEADER_SZ]]

unpack_reply_header(u) ==
    LET f1 == get([u EXCEPT !.ind = SizeOfInt], "int")
        f2 == get(f1.u, "int")
    IN  [h |-> [xid |-> f1.val[1], ret |-> f2.val[1]], u |-> [f2.u EXCEPT !.ind = RPC_HEADER_SZ]]

(* What an unmarshall object is after take_in from one with buffer b.      *)
take_in(b) == [buf |-> b, ind |-> RPC_HEADER_SZ, ok |-> Len(b) >= RPC_HEADER_SZ]

(* Mutant: bytes that are left over are ignored.                           *)
okdoneOk(u) == u.ok

okdone(u) == u.ok /\ u.ind = Len(u.buf)
=============================================================================
