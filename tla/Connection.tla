----------------------------- MODULE Connection -----------------------------
(***************************************************************************)
(* connection (connection.cc) at one end of a socket: threads that send,   *)
(* PollMgr's thread that reads and finishes what a send could not write at *)
(* once, and a thread that closes the connection.  Every method holds the  *)
(* connection's m_ except in its waits and around block_remove_fd, so a    *)
(* step is one stretch of code between two points where m_ is free.        *)
(*                                                                         *)
(* A PDU is Size units: a header, which holds the size, and a body.  The   *)
(* socket's buffer takes Cap units.                                        *)
(***************************************************************************)
EXTENDS PollMgr, Sequences

CONSTANTS Senders,  \* threads that call send
          Closers,  \* threads that call closeconn
          Nobody,   \* no sender
          Size,     \* units of a PDU
          Cap,      \* units the socket's send buffer takes
          MaxSends, \* bound on the sends
          MaxIn     \* bound on the units the peer sends

ASSUME ThreadsAssumption == Senders \cap Closers = {} /\ Removers = Senders \cup Closers

ASSUME NobodyAssumption == Nobody \notin Senders

ASSUME SizeAssumption == Size \in Nat \ {0, 1} /\ Cap \in Nat \ {0}

ASSUME BoundsAssumption == MaxSends \in Nat /\ MaxIn \in Nat

VARIABLES dead_,
          wbuf,     \* wpdu_.buf: the sender whose PDU it is, or Nobody
          wsz,      \* wpdu_.sz
          wlong,    \* wpdu_.solong
          rlong,    \* rpdu_.solong; 0 when rpdu_.buf is NULL
          pc,       \* where each sender and closer is
          left,     \* how many sends are left
          link,     \* the socket is "up", or "down": broken or shut down
          out,      \* units in the socket's send buffer
          in,       \* units that have arrived and are not read
          toCome,   \* units the peer may still send
          wire      \* history: the units of the last PDU written, <<sender, position in it>>

connvars == <<dead_, wbuf, wsz, wlong, rlong, pc, left, link, out, in, toCome, wire>>

vars == <<pollvars, connvars>>

(* "send_wait", "complete": in the wait on send_wait_, on send_complete_;  *)
(* "send_woken", "complete_woken": about to re-take m_.  "remove": about   *)
(* to call block_remove_fd; "removing": in it.  "closed": out of closeconn *)
ConnPCs == {"idle", "send_wait", "send_woken", "complete", "complete_woken",
            "remove", "removing", "closed"}

Init == /\ PollInit
        /\ dead_ = FALSE
        /\ wbuf = Nobody
        /\ wsz = 0
        /\ wlong = 0
        /\ rlong = 0
        /\ pc = [t \in Removers |-> "idle"]
        /\ left = MaxSends
        /\ link = "up"
        /\ out = 0
        /\ in = 0
        /\ toCome = MaxIn
        /\ wire = <<>>

Min2(a, b) == IF a < b THEN a ELSE b

-----------------------------------------------------------------------------
(* Mutant: more than the socket takes counts as written.                   *)
FitsAll(n) == Size - n

(* writepdu of sender s's PDU, of which n units are written: the units the *)
(* socket takes.  None is EAGAIN.                                          *)
Fits(n) == Min2(Cap - out, Size - n)

Written(s, n) == /\ out' = out + Fits(n)
                 /\ wire' = (IF Len(wire) = Size THEN <<>> ELSE wire)
                            \o [i \in 1 .. Fits(n) |-> <<s, n + i>>]

(* pthread_cond_signal(&send_complete_): one sender at most waits there.   *)
SignalComplete == pc' = [t \in Removers |-> IF pc[t] = "complete" THEN "complete_woken" ELSE pc[t]]

(* Mutant: the broadcast is forgotten.                                     *)
WokenNone(p) == p

(* The threads, as in p, after a broadcast on send_wait_.                  *)
Woken(p) == [t \in Removers |-> IF p[t] = "send_wait" THEN "send_woken" ELSE p[t]]

(* The last lines of send.                                                 *)
SendDone(s) == /\ wbuf' = Nobody
               /\ wsz' = 0
               /\ wlong' = 0
               /\ pc' = Woken([pc EXCEPT ![s] = "idle"])

(* Mutant: a sender does not wait for the one before it.                   *)
MustWaitNever == FALSE

(* while (!dead_ && wpdu_.buf)                                             *)
MustWait == ~dead_ /\ wbuf # Nobody

(* send from its first wait loop on.                                       *)
SendBody(s) ==
    \/ /\ MustWait
       /\ pc' = [pc EXCEPT ![s] = "send_wait"]
       /\ UNCHANGED <<dead_, wbuf, wsz, wlong, out, wire, pollvars>>
    \/ /\ dead_
       /\ pc' = [pc EXCEPT ![s] = "idle"]
       /\ UNCHANGED <<dead_, wbuf, wsz, wlong, out, wire, pollvars>>
    \/ /\ ~dead_ /\ ~MustWait
       /\ link = "down"                     \* writepdu fails
       /\ dead_' = TRUE
       /\ wbuf' = s /\ wsz' = 0 /\ wlong' = -1
       /\ pc' = [pc EXCEPT ![s] = "remove"]
       /\ UNCHANGED <<out, wire, pollvars>>
    \/ /\ ~dead_ /\ ~MustWait
       /\ link = "up" /\ Fits(0) = Size     \* all of it is written
       /\ Written(s, 0)
       /\ SendDone(s)
       /\ UNCHANGED <<dead_, pollvars>>
    \/ /\ ~dead_ /\ ~MustWait
       /\ link = "up" /\ Fits(0) < Size
       /\ Written(s, 0)
       /\ wbuf' = s /\ wsz' = Size /\ wlong' = Fits(0)
       /\ add_callback("w")
       /\ pc' = [pc EXCEPT ![s] = "complete"]
       /\ UNCHANGED <<dead_, lpc, fds>>

send(s) == /\ pc[s] = "idle"
           /\ left > 0
           /\ left' = left - 1
           /\ SendBody(s)
           /\ UNCHANGED <<rlong, link, in, toCome>>

(* A sender's wait on send_wait_ ends; any wakeup may be spurious.         *)
send_resume(s) == /\ pc[s] = "send_woken"
                  /\ SendBody(s)
                  /\ UNCHANGED <<rlong, left, link, in, toCome>>

(* A sender's wait on send_complete_ ends.                                 *)
send_complete(s) ==
    /\ pc[s] = "complete_woken"
    /\ IF ~dead_ /\ wlong >= 0 /\ wlong < wsz
       THEN pc' = [pc EXCEPT ![s] = "complete"] /\ UNCHANGED <<wbuf, wsz, wlong>>
       ELSE SendDone(s)
    /\ UNCHANGED <<dead_, rlong, left, link, out, in, toCome, wire, pollvars>>

spurious_wakeup(s) ==
    /\ pc[s] \in {"send_wait", "complete"}
    /\ pc' = [pc EXCEPT ![s] = IF @ = "complete" THEN "complete_woken" ELSE "send_woken"]
    /\ UNCHANGED <<dead_, wbuf, wsz, wlong, rlong, left, link, out, in, toCome, wire, pollvars>>

-----------------------------------------------------------------------------
(* closeconn: the second call, or one on a dead connection, does nothing.  *)
closeconn(c) ==
    /\ pc[c] = "idle"
    /\ dead_' = TRUE
    /\ link' = IF dead_ THEN link ELSE "down"
    /\ pc' = [pc EXCEPT ![c] = IF dead_ THEN "closed" ELSE "remove"]
    /\ UNCHANGED <<wbuf, wsz, wlong, rlong, left, out, in, toCome, wire, pollvars>>

(* The call of block_remove_fd by closeconn or by a send that failed.      *)
remove(t) == /\ pc[t] = "remove"
             /\ block_remove_fd(t)
             /\ pc' = [pc EXCEPT ![t] = "removing"]
             /\ UNCHANGED <<dead_, wbuf, wsz, wlong, rlong, left, link, out, in, toCome, wire>>

(* Its return; send then goes through its last lines.                      *)
remove_return(t) ==
    /\ pc[t] = "removing"
    /\ block_remove_fd_return(t)
    /\ IF t \in Senders THEN SendDone(t)
       ELSE pc' = [pc EXCEPT ![t] = "closed"] /\ UNCHANGED <<wbuf, wsz, wlong>>
    /\ UNCHANGED <<dead_, rlong, left, link, out, in, toCome, wire>>

-----------------------------------------------------------------------------
(* Mutant: the callback is unregistered after every write.                 *)
KeepsCallbackNever == FALSE

(* if (wpdu_.sz == 0) del_callback                                         *)
KeepsCallback == wsz # 0

(* write_cb, called by the loop.  Its assert(!dead_) ends the process.     *)
write_cb ==
    /\ lpc = "write_cb"
    /\ lpc' = IF dead_ THEN "aborted" ELSE "top"
    /\ \/ /\ dead_
          /\ UNCHANGED <<dead_, wsz, wlong, pc, out, wire, watched, callback, pipe,
                         pending_change_, removing, removed>>
       \/ /\ ~dead_ /\ ~KeepsCallback
          /\ del_callback({"w"})
          /\ UNCHANGED <<dead_, wsz, wlong, pc, out, wire>>
       \/ /\ ~dead_ /\ KeepsCallback
          /\ link = "down" /\ wlong < wsz   \* writepdu fails
          /\ del_callback(Modes)
          /\ dead_' = TRUE
          /\ wsz' = 0 /\ wlong' = -1
          /\ SignalComplete
          /\ UNCHANGED <<out, wire>>
       \/ /\ ~dead_ /\ KeepsCallback
          /\ link = "up" \/ wlong = wsz
          /\ Written(wbuf, wlong)
          /\ wlong' = wlong + Fits(wlong)
          /\ IF wlong' < wsz THEN UNCHANGED pc ELSE SignalComplete
          /\ UNCHANGED <<dead_, wsz, watched, callback, pipe, pending_change_, removing, removed>>
    /\ UNCHANGED <<fds, wbuf, rlong, left, link, in, toCome>>

(* Mutant: an end of file in the place of a header is no failure.          *)
AtEofNever == FALSE

(* read returns 0: everything that came has been read, no more will come.  *)
AtEof == in = 0 /\ link = "down"

(* What readpdu does: the new rlong, the units it reads and what it        *)
(* returns.  A header that is too large or has come in part only (short)   *)
(* is a failure.  At an end of file inside a PDU errno is what an earlier  *)
(* call on PollMgr's thread left, for this connection or another, and      *)
(* EAGAIN (stale) passes for success.                                      *)
readpdu(short, stale) ==
    LET hd == IF rlong = 0 THEN 1 ELSE 0
        n == Min2(in - hd, Size - rlong - hd)
        noHeader == rlong = 0 /\ (AtEof \/ short)
    IN  CASE noHeader -> [rlong |-> 0, n |-> 0, ok |-> FALSE]
          [] ~noHeader /\ n > 0 -> [rlong |-> rlong + hd + n, n |-> hd + n, ok |-> TRUE]
          [] ~noHeader /\ n <= 0 /\ (link = "up" \/ stale) ->
               [rlong |-> rlong + hd, n |-> Min2(in, hd), ok |-> TRUE]
          [] OTHER -> [rlong |-> 0, n |-> Min2(in, hd), ok |-> FALSE]

(* got_pdu is called with a whole PDU, also with one it refused before;    *)
(* takes is what it returns.                                               *)
AfterGotPdu(rl, takes) == IF rl = Size /\ takes THEN 0 ELSE rl

(* read_cb, called by the loop.                                            *)
read_cb(short, stale, takes) ==
    /\ lpc = "read_cb"
    /\ lpc' = "writes"
    /\ LET rd == IF dead_ \/ rlong = Size
                 THEN [rlong |-> rlong, n |-> 0, ok |-> TRUE]
                 ELSE readpdu(short, stale)
       IN  /\ in' = in - rd.n
           /\ rlong' = IF dead_ THEN rlong ELSE AfterGotPdu(rd.rlong, takes)
           /\ dead_' = (dead_ \/ ~rd.ok)
           /\ IF rd.ok
              THEN UNCHANGED <<pc, watched, callback, pipe, pending_change_, removing, removed>>
              ELSE del_callback(Modes) /\ SignalComplete
    /\ UNCHANGED <<fds, wbuf, wsz, wlong, left, link, out, toCome, wire>>

(* What select finds the socket ready for.                                 *)
Ready == {m \in Modes : \/ link = "down"
                        \/ m = "r" /\ in > 0
                        \/ m = "w" /\ out < Cap}

-----------------------------------------------------------------------------
(* The other end and the network.                                          *)
peer_sends == /\ link = "up"
              /\ toCome > 0
              /\ in' = in + 1
              /\ toCome' = toCome - 1
              /\ UNCHANGED <<dead_, wbuf, wsz, wlong, rlong, pc, left, link, out, wire, pollvars>>

peer_reads == /\ link = "up"
              /\ out > 0
              /\ out' = out - 1
              /\ UNCHANGED <<dead_, wbuf, wsz, wlong, rlong, pc, left, link, in, toCome, wire,
                             pollvars>>

Break == /\ link = "up"
         /\ link' = "down"
         /\ UNCHANGED <<dead_, wbuf, wsz, wlong, rlong, pc, left, out, in, toCome, wire, pollvars>>

(* The loop's steps between callbacks.                                     *)
loop == (PollStep \/ wait_ready(Ready)) /\ UNCHANGED connvars

(* No thread takes a step once an assert has ended the process.            *)
Alive == lpc # "aborted"

Next == /\ Alive
        /\ \/ \E s \in Senders : send(s) \/ send_resume(s) \/ send_complete(s) \/ spurious_wakeup(s)
           \/ \E c \in Closers : closeconn(c)
           \/ \E t \in Removers : remove(t) \/ remove_return(t)
           \/ write_cb
           \/ \E short, stale, takes \in BOOLEAN : read_cb(short, stale, takes)
           \/ loop
           \/ peer_sends \/ peer_reads \/ Break

Spec == Init /\ [][Next]_vars

(* Threads are scheduled, a wait that is signalled ends, but none need end *)
(* spuriously, the other end reads what it is sent, and a job   *)
(* queue that is asked again and again has room at some time.              *)
FairSpec ==
    /\ Spec
    /\ \A s \in Senders : WF_vars(Alive /\ (send_resume(s) \/ send_complete(s)))
    /\ \A t \in Removers : WF_vars(Alive /\ (remove(t) \/ (removing[t] = "woken" /\ remove_return(t))))
    /\ WF_vars(Alive /\ (loop \/ write_cb \/ \E short, stale, takes \in BOOLEAN : read_cb(short, stale, takes)))
    /\ SF_vars(Alive /\ \E short, stale \in BOOLEAN : read_cb(short, stale, TRUE))
    /\ WF_vars(Alive /\ peer_reads)
-----------------------------------------------------------------------------
(* The variables have the types of connection.h and pollmgr.h.             *)
TypeOK == /\ PollTypeOK
          /\ dead_ \in BOOLEAN
          /\ wbuf \in Senders \cup {Nobody}
          /\ wsz \in {0, Size}
          /\ wlong \in -1 .. Size
          /\ rlong \in 0 .. Size
          /\ pc \in [Removers -> ConnPCs]
          /\ left \in 0 .. MaxSends
          /\ link \in {"up", "down"}
          /\ out \in 0 .. Cap
          /\ in \in 0 .. MaxIn
          /\ toCome \in 0 .. MaxIn
          /\ wire \in Seq(Senders \X (1 .. Size))

(* PDUs leave whole: however sends, partial writes and write callbacks     *)
(* interleave, a PDU's units follow one another on the wire, all of them   *)
(* before the next PDU's, which the other end relies on to find headers.   *)
PdusAreWhole == \A i \in DOMAIN wire : wire[i] = <<wire[1][1], i>>

(* A sender that waits for the rest of its PDU to be written has a write   *)
(* callback registered, although write_cb removes it on its own account.   *)
SenderHasCallback ==
    (\E s \in Senders : pc[s] = "complete") /\ ~dead_ /\ wlong < wsz => "w" \in watched

(* A sender that waits for its turn waits for another that still has the   *)
(* connection, and whose last lines will wake it: a failed send or a dead  *)
(* connection does not make the writer forget the broadcast.               *)
WaitersHaveWriter == (\E s \in Senders : pc[s] = "send_wait") => wbuf # Nobody

(* readpdu: assert(errno!=EAGAIN).  What select found readable is still    *)
(* readable when read_cb looks for a header.                               *)
HeaderIsThere == lpc = "read_cb" /\ ~dead_ /\ rlong = 0 => in > 0 \/ link = "down"

Sending(s) == pc[s] \notin {"idle", "closed"}

(* Every send returns, on a connection that nobody closes from this end,   *)
(* whether it stays up or breaks.                                          *)
SendReturns == \A s \in Senders :
    Sending(s) ~> (~Sending(s) \/ ~Alive \/ \E c \in Closers : pc[c] # "idle")

(* A connection that breaks between two PDUs is found dead, upon which     *)
(* rpcc's retransmission depends.                                          *)
CleanBreakIsNoticed == (link = "down" /\ (in + rlong) % Size = 0) ~> (dead_ \/ ~Alive)

(* connection::closeconn: "after block_remove_fd, select will never wait   *)
(* on fd_ and no callbacks will be active".  What that comes to: one that  *)
(* PollMgr's own thread finds dead is not called back again, and one that  *)
(* closeconn or a failed send has marked dead, where the assert in         *)
(* write_cb then fails, is called back only until the broadcast answers    *)
(* its block_remove_fd, or where the wait for the broadcast ended without. *)
DeadIsCalledOnlyInRemoval ==
    dead_ /\ Calling => \/ removed = "spurious"
                        \/ \E t \in Removers : pc[t] = "remove" \/ removing[t] = "waiting"
=============================================================================
