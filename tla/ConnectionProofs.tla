-------------------------- MODULE ConnectionProofs --------------------------
(***************************************************************************)
(* Theorems about Connection over PollMgr for any senders and closers, any *)
(* PDU size and any capacity of the socket.  The inductive invariant says  *)
(* who owns the connection's write state, where the loop can be once a     *)
(* removal has been acknowledged, and what is on the wire.                 *)
(***************************************************************************)
EXTENDS Connection, SequenceTheorems, TLAPS

(* closeconn and send use disjoint parts of ConnPCs.                       *)
ThreadStates ==
    /\ \A c \in Closers : pc[c] \in {"idle", "remove", "removing", "closed"}
    /\ \A s \in Senders : pc[s] # "closed"

(* A thread in block_remove_fd has made the connection dead before, and    *)
(* the loop is told of it.                                                 *)
RemoversMatch ==
    \A t \in Removers : /\ removing[t] # "no" <=> pc[t] = "removing"
                        /\ pc[t] \in {"remove", "removing"} => dead_
                        /\ removing[t] = "waiting" => pending_change_

(* The loop has no descriptor to call back for until it copies the sets.   *)
LoopIsQuiet == \/ lpc \in {"top", "copy"}
               \/ lpc = "select" /\ fds = {}

(* What block_remove_fd has achieved when it is called, when the loop has  *)
(* acknowledged it and when it has returned.                               *)
RemovalHolds ==
    /\ \A t \in Removers : /\ removing[t] # "no" => watched = {}
                           /\ removing[t] = "woken" => LoopIsQuiet
    /\ removed # "no" => dead_ /\ watched = {} /\ ~callback
    /\ removed = "broadcast" => LoopIsQuiet

(* A connection that is dead and that no thread removes was found dead by  *)
(* the loop's thread, which took its callback away and does not call it.   *)
LeftAlone ==
    dead_ /\ removed = "no" /\ (\A t \in Removers : pc[t] \notin {"remove", "removing"})
    => ~callback /\ ~Calling

Holds(s) == pc[s] \in {"complete", "complete_woken", "remove", "removing"}

(* wpdu_ belongs to one sender from where it takes it to its last lines.   *)
WriterOwnsPdu ==
    /\ \A s \in Senders : Holds(s) => wbuf = s
    /\ wbuf # Nobody => Holds(wbuf)
    /\ ~dead_ => IF wbuf = Nobody THEN wsz = 0 /\ wlong = 0 ELSE wsz = Size /\ wlong >= 0

(* As SenderHasCallback, of every writer, asleep or not.                   *)
WriterHasCallback == ~dead_ /\ wbuf # Nobody /\ wlong < wsz => "w" \in watched

(* What the wire holds of the PDU being written is what wpdu_ says.        *)
WireAgrees ==
    /\ Len(wire) <= Size
    /\ ~dead_ => IF wbuf # Nobody /\ 0 < wlong /\ wlong < Size
                 THEN Len(wire) = wlong /\ wire[1][1] = wbuf
                 ELSE Len(wire) \in {0, Size}

(* select's answer holds until read_cb, which alone reads the socket.      *)
ReadableStays == /\ lpc \in {"reads", "read_cb"} /\ "r" \in fds => in > 0 \/ link = "down"
                 /\ lpc = "read_cb" => "r" \in fds

(* The peer sends MaxIn units at most.                                     *)
InputBound == in + toCome <= MaxIn

RemoveInv == TypeOK /\ ThreadStates /\ RemoversMatch /\ LeftAlone /\ RemovalHolds

IInv == /\ RemoveInv
        /\ WriterOwnsPdu /\ WriterHasCallback /\ WaitersHaveWriter
        /\ WireAgrees /\ PdusAreWhole /\ ReadableStays /\ InputBound

-----------------------------------------------------------------------------
(* How much a write takes.                                                 *)
LEMMA FitsBounds ==
    ASSUME TypeOK, NEW n \in 0 .. Size
    PROVE  /\ Fits(n) \in 0 .. Size - n /\ out + Fits(n) \in 0 .. Cap
           /\ Fits(n) \in Nat /\ n + Fits(n) \in 0 .. Size
  BY SizeAssumption DEF TypeOK, Fits, Min2

(* writepdu, called where the PDU before has left the wire: it puts units  *)
(* there that go on where the last ones ended.                             *)
LEMMA WrittenWire ==
    ASSUME TypeOK, PdusAreWhole, NEW s \in Senders, NEW n \in 0 .. Size, Written(s, n),
           Len(wire) <= Size,
           0 < n /\ n < Size => Len(wire) = n /\ wire[1][1] = s,
           n \in {0, Size} => Len(wire) \in {0, Size}
    PROVE  /\ out' \in 0 .. Cap
           /\ wire' \in Seq(Senders \X (1 .. Size))
           /\ PdusAreWhole'
           /\ Len(wire') <= Size
           /\ IF 0 < n + Fits(n) /\ n + Fits(n) < Size
              THEN Len(wire') = n + Fits(n) /\ wire'[1][1] = s
              ELSE Len(wire') \in {0, Size}
<1> DEFINE U == Senders \X (1 .. Size)
           k == Fits(n)
           new == [i \in 1 .. k |-> <<s, n + i>>]
           old == IF Len(wire) = Size THEN <<>> ELSE wire
<1>1. k \in 0 .. Size - n /\ n + k \in 0 .. Size /\ k \in Nat /\ out + k \in 0 .. Cap
  BY FitsBounds
<1>2. wire \in Seq(U) /\ Len(wire) \in Nat /\ DOMAIN wire = 1 .. Len(wire)
  BY LenProperties DEF TypeOK
<1>3. out' = out + k /\ wire' = old \o new
  BY DEF Written
<1> HIDE DEF k
<1>4. \A i \in 1 .. k : <<s, n + i>> \in U
  BY <1>1, SizeAssumption
<1>5. new \in Seq(U) /\ Len(new) = k
  BY <1>1, <1>4, IsASeq
<1>6. old \in Seq(U) /\ Len(old) \in Nat
  BY <1>2, EmptySeq, SizeAssumption
<1>7. Len(old) = IF n = Size THEN 0 ELSE n
  <2>1. n = 0 \/ n = Size \/ (0 < n /\ n < Size)
    BY SizeAssumption
  <2>2. CASE Len(wire) = Size
    <3>1. Len(old) = 0
      BY <2>2
    <3> QED BY <2>1, <2>2, <3>1, SizeAssumption
  <2>3. CASE Len(wire) # Size
    BY <2>1, <2>3, SizeAssumption
  <2> QED BY <2>2, <2>3
<1>8. \A i \in 1 .. Len(old) : old[i] = <<s, i>>
  <2> SUFFICES ASSUME NEW i \in 1 .. Len(old) PROVE old[i] = <<s, i>>
    OBVIOUS
  <2>0. Len(old) # 0 /\ Len(<<>>) = 0
    BY <1>6
  <2>1. old = wire /\ 0 < n /\ n < Size
    BY <1>7, <2>0, SizeAssumption
  <2>2. wire[i] = <<wire[1][1], i>> /\ wire[1][1] = s
    BY <1>2, <2>1 DEF PdusAreWhole
  <2> QED BY <2>1, <2>2
<1> DEFINE m == Len(old)
<1>9. m \in Nat /\ (m = n \/ (m = 0 /\ n = Size /\ k = 0))
  BY <1>1, <1>6, <1>7, SizeAssumption
<1>a. new = [i \in 1 .. k |-> <<s, n + i>>]
  OBVIOUS
<1> HIDE DEF new, old, U
<1>10. wire' \in Seq(U) /\ Len(wire') = m + k /\ m + k \in Nat
       /\ \A i \in 1 .. m + k : wire'[i] = IF i <= m THEN old[i] ELSE new[i - m]
  BY <1>3, <1>5, <1>6, <1>1, ConcatProperties
<1> HIDE DEF m
<1>11. \A i \in 1 .. m + k : wire'[i] = <<s, i>>
  <2> SUFFICES ASSUME NEW i \in 1 .. m + k PROVE wire'[i] = <<s, i>>
    OBVIOUS
  <2>1. CASE i <= m
    BY <1>8, <1>9, <1>10, <2>1 DEF m
  <2>2. CASE ~(i <= m)
    <3>1. i - m \in 1 .. k /\ m = n
      BY <1>1, <1>9, <2>2
    <3>2. new[i - m] = <<s, n + (i - m)>>
      BY <1>a, <3>1
    <3>3. wire'[i] = new[i - m]
      BY <1>10, <2>2
    <3>4. n + (i - m) = i
      BY <3>1
    <3> QED BY <3>2, <3>3, <3>4
  <2> QED BY <2>1, <2>2
<1>12. DOMAIN wire' = 1 .. m + k
  BY <1>10, LenProperties
<1>13. PdusAreWhole'
  <2> SUFFICES ASSUME NEW i \in 1 .. m + k PROVE wire'[i] = <<wire'[1][1], i>>
    BY <1>12 DEF PdusAreWhole
  <2>1. 1 \in 1 .. m + k
    BY <1>10
  <2>2. wire'[1] = <<s, 1>> /\ wire'[i] = <<s, i>>
    BY <1>11, <2>1
  <2> QED BY <2>2
<1>14. Len(wire') <= Size
  BY <1>1, <1>9, <1>10, SizeAssumption
<1>15. IF 0 < n + k /\ n + k < Size THEN Len(wire') = n + k /\ wire'[1][1] = s
       ELSE Len(wire') \in {0, Size}
  <2>1. CASE 0 < n + k /\ n + k < Size
    <3>1. m = n /\ 1 \in 1 .. m + k
      BY <1>1, <1>9, <2>1, SizeAssumption
    <3> QED BY <1>10, <1>11, <2>1, <3>1
  <2>2. CASE ~(0 < n + k /\ n + k < Size)
    BY <1>1, <1>9, <1>10, <2>2, SizeAssumption
  <2> QED BY <2>1, <2>2
<1> QED BY <1>1, <1>3, <1>10, <1>13, <1>14, <1>15 DEF k, U

(* The step relation, one disjunct per stretch of code.                    *)
LEMMA NextCases ==
    ASSUME TypeOK, [Next]_vars
    PROVE  \/ \E s \in Senders : /\ pc[s] \in {"idle", "send_woken"} /\ SendBody(s)
                                 /\ left' \in 0 .. MaxSends /\ UNCHANGED <<rlong, link, in, toCome>>
           \/ \E s \in Senders : send_complete(s)
           \/ \E s \in Senders : spurious_wakeup(s)
           \/ \E c \in Closers : closeconn(c)
           \/ \E t \in Removers : remove(t)
           \/ \E t \in Removers : remove_return(t)
           \/ Alive /\ write_cb
           \/ \E short, stale, takes \in BOOLEAN : read_cb(short, stale, takes)
           \/ loop_top /\ UNCHANGED connvars
           \/ wait_ready_copy /\ UNCHANGED connvars
           \/ loop_reads /\ UNCHANGED connvars
           \/ loop_writes /\ UNCHANGED connvars
           \/ wait_ready(Ready) /\ UNCHANGED connvars
           \/ peer_sends
           \/ peer_reads \/ Break
           \/ UNCHANGED vars
<1>1. ASSUME NEW s \in Senders, send(s) \/ send_resume(s)
      PROVE  /\ pc[s] \in {"idle", "send_woken"} /\ SendBody(s)
             /\ left' \in 0 .. MaxSends /\ UNCHANGED <<rlong, link, in, toCome>>
  <2>1. left' \in 0 .. MaxSends
    BY <1>1, BoundsAssumption DEF TypeOK, send, send_resume
  <2> QED BY <1>1, <2>1 DEF send, send_resume
<1> QED BY <1>1 DEF Next, loop, PollStep

(* A step that leaves PollMgr's variables alone.                           *)
LEMMA PollTypeSame == PollTypeOK /\ UNCHANGED pollvars => PollTypeOK'
  BY DEF PollTypeOK, pollvars

(* The threads woken by a broadcast on send_wait_.                         *)
LEMMA WokenThreads ==
    ASSUME NEW p \in [Removers -> ConnPCs]
    PROVE  /\ Woken(p) \in [Removers -> ConnPCs]
           /\ \A t \in Removers : /\ p[t] # "send_wait" => Woken(p)[t] = p[t]
                                  /\ Woken(p)[t] # "send_wait"
                                  /\ p[t] = "send_wait" => Woken(p)[t] = "send_woken"
  BY DEF Woken, ConnPCs

(* Each way through send up to where it releases m_.                       *)
LEMMA SendKeeps ==
    ASSUME IInv, NEW s \in Senders, pc[s] \in {"idle", "send_woken"}, SendBody(s),
           left' \in 0 .. MaxSends, UNCHANGED <<rlong, link, in, toCome>>
    PROVE  IInv'
<1> USE ThreadsAssumption, NobodyAssumption
<1>0. s \in Removers /\ s # Nobody /\ pc \in [Removers -> ConnPCs] /\ TypeOK
  BY DEF IInv, RemoveInv, TypeOK
<1>1. CASE /\ \/ MustWait /\ pc' = [pc EXCEPT ![s] = "send_wait"]
              \/ dead_ /\ pc' = [pc EXCEPT ![s] = "idle"]
           /\ UNCHANGED <<dead_, wbuf, wsz, wlong, out, wire, pollvars>>
  <2>1. TypeOK'
    BY <1>0, <1>1, PollTypeSame DEF TypeOK, ConnPCs
  <2>2. ThreadStates' /\ RemoversMatch' /\ LeftAlone' /\ RemovalHolds'
    BY <1>0, <1>1 DEF IInv, RemoveInv, ThreadStates, RemoversMatch, LeftAlone, Calling, RemovalHolds, LoopIsQuiet, pollvars
  <2>3. WriterOwnsPdu' /\ WriterHasCallback' /\ WaitersHaveWriter'
    BY <1>0, <1>1 DEF IInv, WriterOwnsPdu, WriterHasCallback, WaitersHaveWriter, Holds, MustWait, pollvars, TypeOK
  <2>4. WireAgrees' /\ PdusAreWhole' /\ ReadableStays' /\ InputBound'
    BY <1>1 DEF IInv, WireAgrees, PdusAreWhole, ReadableStays, InputBound, pollvars
  <2> QED BY <2>1, <2>2, <2>3, <2>4 DEF IInv, RemoveInv
<1>2. CASE /\ ~dead_ /\ ~MustWait
           /\ dead_' = TRUE
           /\ wbuf' = s /\ wsz' = 0 /\ wlong' = -1
           /\ pc' = [pc EXCEPT ![s] = "remove"]
           /\ UNCHANGED <<out, wire, pollvars>>
  <2>1. TypeOK'
    BY <1>0, <1>2, PollTypeSame, SizeAssumption DEF TypeOK, ConnPCs
  <2>2. ThreadStates' /\ RemoversMatch' /\ LeftAlone' /\ RemovalHolds'
    BY <1>0, <1>2 DEF IInv, RemoveInv, ThreadStates, RemoversMatch, LeftAlone, Calling, RemovalHolds, LoopIsQuiet, pollvars
  <2>3. WriterOwnsPdu' /\ WriterHasCallback' /\ WaitersHaveWriter'
    BY <1>0, <1>2 DEF IInv, WriterOwnsPdu, WriterHasCallback, WaitersHaveWriter, Holds, MustWait
  <2>4. WireAgrees' /\ PdusAreWhole' /\ ReadableStays' /\ InputBound'
    BY <1>2 DEF IInv, WireAgrees, PdusAreWhole, ReadableStays, InputBound, pollvars
  <2> QED BY <2>1, <2>2, <2>3, <2>4 DEF IInv, RemoveInv
<1>w. ASSUME ~dead_, ~MustWait, Written(s, 0)
      PROVE  /\ wbuf = Nobody
             /\ out' \in 0 .. Cap /\ wire' \in Seq(Senders \X (1 .. Size)) /\ PdusAreWhole'
             /\ Fits(0) \in 0 .. Size /\ Len(wire') <= Size
             /\ IF 0 < Fits(0) /\ Fits(0) < Size
                THEN Len(wire') = Fits(0) /\ wire'[1][1] = s
                ELSE Len(wire') \in {0, Size}
  <2>1. wbuf = Nobody /\ Len(wire) \in {0, Size} /\ Len(wire) <= Size /\ PdusAreWhole
    BY <1>w DEF MustWait, IInv, WireAgrees
  <2>2. 0 \in 0 .. Size /\ Fits(0) \in 0 .. Size - 0 /\ Fits(0) \in Nat
    BY <1>0, FitsBounds, SizeAssumption
  <2>3. /\ out' \in 0 .. Cap /\ wire' \in Seq(Senders \X (1 .. Size)) /\ PdusAreWhole'
        /\ Len(wire') <= Size
        /\ IF 0 < 0 + Fits(0) /\ 0 + Fits(0) < Size
           THEN Len(wire') = 0 + Fits(0) /\ wire'[1][1] = s
           ELSE Len(wire') \in {0, Size}
    BY <1>0, <1>w, <2>1, <2>2, WrittenWire
  <2> QED BY <2>1, <2>2, <2>3, SizeAssumption
<1>3. CASE /\ ~dead_ /\ ~MustWait
           /\ Fits(0) = Size
           /\ Written(s, 0)
           /\ SendDone(s)
           /\ UNCHANGED <<dead_, pollvars>>
  <2> DEFINE p == [pc EXCEPT ![s] = "idle"]
  <2>0. /\ pc' \in [Removers -> ConnPCs] /\ wbuf' = Nobody /\ wsz' = 0 /\ wlong' = 0
        /\ \A t \in Removers : /\ pc'[t] # "send_wait"
                               /\ t # s /\ pc[t] # "send_wait" => pc'[t] = pc[t]
                               /\ pc[t] = "send_wait" => pc'[t] = "send_woken"
        /\ pc'[s] = "idle"
    <3>1. p \in [Removers -> ConnPCs]
      BY <1>0 DEF ConnPCs
    <3> QED BY <1>0, <1>3, <3>1, WokenThreads DEF SendDone
  <2>1. TypeOK'
    BY <1>0, <1>3, <1>w, <2>0, PollTypeSame, SizeAssumption DEF TypeOK
  <2>2. ThreadStates' /\ RemoversMatch' /\ LeftAlone' /\ RemovalHolds'
    BY <1>0, <1>3, <2>0 DEF IInv, RemoveInv, ThreadStates, RemoversMatch, LeftAlone, Calling, RemovalHolds, LoopIsQuiet, pollvars
  <2>3. WriterOwnsPdu' /\ WriterHasCallback' /\ WaitersHaveWriter'
    BY <1>0, <1>3, <1>w, <2>0 DEF IInv, WriterOwnsPdu, WriterHasCallback, WaitersHaveWriter, Holds
  <2>4. WireAgrees' /\ PdusAreWhole'
    BY <1>3, <1>w, <2>0, SizeAssumption DEF WireAgrees
  <2>5. ReadableStays' /\ InputBound'
    BY <1>3 DEF IInv, ReadableStays, InputBound, pollvars
  <2> QED BY <2>1, <2>2, <2>3, <2>4, <2>5 DEF IInv, RemoveInv
<1>4. CASE /\ ~dead_ /\ ~MustWait
           /\ Fits(0) < Size
           /\ Written(s, 0)
           /\ wbuf' = s /\ wsz' = Size /\ wlong' = Fits(0)
           /\ add_callback("w")
           /\ pc' = [pc EXCEPT ![s] = "complete"]
           /\ UNCHANGED <<dead_, lpc, fds>>
  <2>0. /\ watched' = watched \cup {"w"} /\ pipe' = pipe + 1 /\ callback' = TRUE
        /\ UNCHANGED <<pending_change_, removing, removed>>
    BY <1>4 DEF add_callback, watch_fd
  <2>1. PollTypeOK'
    BY <1>0, <1>4, <2>0 DEF TypeOK, PollTypeOK, Modes
  <2>2. TypeOK'
    BY <1>0, <1>4, <1>w, <2>1, SizeAssumption DEF TypeOK, ConnPCs
  <2>3. ThreadStates' /\ RemoversMatch' /\ LeftAlone' /\ RemovalHolds'
    BY <1>0, <1>4, <2>0 DEF IInv, RemoveInv, ThreadStates, RemoversMatch, LeftAlone, Calling, RemovalHolds, LoopIsQuiet
  <2>4. WriterOwnsPdu' /\ WriterHasCallback' /\ WaitersHaveWriter'
    BY <1>0, <1>4, <1>w, <2>0, SizeAssumption
       DEF IInv, WriterOwnsPdu, WriterHasCallback, WaitersHaveWriter, Holds
  <2>5. WireAgrees' /\ PdusAreWhole'
    BY <1>0, <1>4, <1>w, SizeAssumption DEF WireAgrees
  <2>6. ReadableStays' /\ InputBound'
    BY <1>4 DEF IInv, ReadableStays, InputBound
  <2> QED BY <2>2, <2>3, <2>4, <2>5, <2>6 DEF IInv, RemoveInv
<1> QED BY <1>1, <1>2, <1>3, <1>4 DEF SendBody

(* The last lines of send, for a sender that has the connection.           *)
LEMMA SendDoneKeeps ==
    ASSUME IInv, NEW s \in Senders, Holds(s), SendDone(s), UNCHANGED <<dead_, rlong, left, link, out, in, toCome, wire>>,
           dead_ \/ wlong = Size,
           PollTypeOK', RemovalHolds', ReadableStays', UNCHANGED watched,
           \A t \in Removers \ {s} : removing'[t] = removing[t],
           removing'[s] = "no", UNCHANGED pending_change_,
           removed' # "no" \/ (pc[s] = "complete_woken" /\ UNCHANGED <<removed, callback, lpc>>)
    PROVE  IInv'
<1> USE ThreadsAssumption, NobodyAssumption
<1> DEFINE p == [pc EXCEPT ![s] = "idle"]
<1>0. s \in Removers /\ s # Nobody /\ pc \in [Removers -> ConnPCs] /\ TypeOK /\ wbuf = s
  BY DEF IInv, RemoveInv, TypeOK, WriterOwnsPdu
<1>1. /\ pc' \in [Removers -> ConnPCs] /\ wbuf' = Nobody /\ wsz' = 0 /\ wlong' = 0
      /\ \A t \in Removers : /\ pc'[t] # "send_wait"
                             /\ t # s /\ pc[t] # "send_wait" => pc'[t] = pc[t]
                             /\ pc[t] = "send_wait" => pc'[t] = "send_woken"
      /\ pc'[s] = "idle"
  <2>1. p \in [Removers -> ConnPCs] /\ p[s] = "idle"
    BY <1>0 DEF ConnPCs
  <2>2. \A t \in Removers : t # s => p[t] = pc[t]
    BY <1>0
  <2>3. pc' = Woken(p) /\ wbuf' = Nobody /\ wsz' = 0 /\ wlong' = 0
    BY DEF SendDone
  <2>4. pc[s] # "send_wait"
    BY DEF Holds
  <2> HIDE DEF p
  <2>5. /\ Woken(p) \in [Removers -> ConnPCs]
        /\ \A t \in Removers : /\ p[t] # "send_wait" => Woken(p)[t] = p[t]
                               /\ Woken(p)[t] # "send_wait"
                               /\ p[t] = "send_wait" => Woken(p)[t] = "send_woken"
    BY <2>1, WokenThreads
  <2> QED BY <1>0, <2>1, <2>2, <2>3, <2>4, <2>5
<1>2. TypeOK'
  BY <1>0, <1>1, SizeAssumption DEF TypeOK
<1>3. ThreadStates' /\ RemoversMatch' /\ LeftAlone'
  BY <1>0, <1>1 DEF IInv, RemoveInv, ThreadStates, RemoversMatch, LeftAlone, Calling
<1>4. WriterOwnsPdu' /\ WriterHasCallback' /\ WaitersHaveWriter'
  BY <1>0, <1>1 DEF IInv, WriterOwnsPdu, WriterHasCallback, WaitersHaveWriter, Holds
<1>5. WireAgrees' /\ PdusAreWhole'
  BY <1>0, <1>1 DEF IInv, WireAgrees, PdusAreWhole
<1>6. InputBound'
  BY DEF IInv, InputBound
<1> QED BY <1>2, <1>3, <1>4, <1>5, <1>6 DEF IInv, RemoveInv

(* A sender that wakes from its wait on send_complete_.                    *)
LEMMA CompleteKeeps ==
    ASSUME IInv, NEW s \in Senders, send_complete(s)
    PROVE  IInv'
<1> USE ThreadsAssumption, NobodyAssumption
<1>0. s \in Removers /\ s # Nobody /\ pc \in [Removers -> ConnPCs] /\ TypeOK /\ wbuf = s /\ Holds(s)
  BY DEF IInv, RemoveInv, TypeOK, WriterOwnsPdu, send_complete, Holds
<1>u. UNCHANGED <<dead_, rlong, left, link, out, in, toCome, wire, pollvars>>
  BY DEF send_complete
<1>1. CASE ~dead_ /\ wlong >= 0 /\ wlong < wsz
  <2>0. pc' = [pc EXCEPT ![s] = "complete"] /\ UNCHANGED <<wbuf, wsz, wlong>>
    BY <1>1 DEF send_complete
  <2>1. TypeOK'
    BY <1>0, <1>u, <2>0, PollTypeSame DEF TypeOK, ConnPCs
  <2>2. ThreadStates' /\ RemoversMatch' /\ LeftAlone' /\ RemovalHolds'
    BY <1>0, <1>u, <2>0
       DEF IInv, RemoveInv, ThreadStates, RemoversMatch, LeftAlone, Calling, RemovalHolds, LoopIsQuiet, pollvars, send_complete
  <2>3. WriterOwnsPdu' /\ WriterHasCallback' /\ WaitersHaveWriter'
    BY <1>0, <1>u, <2>0
       DEF IInv, WriterOwnsPdu, WriterHasCallback, WaitersHaveWriter, Holds, pollvars
  <2>4. WireAgrees' /\ PdusAreWhole' /\ ReadableStays' /\ InputBound'
    BY <1>u, <2>0 DEF IInv, WireAgrees, PdusAreWhole, ReadableStays, InputBound, pollvars
  <2> QED BY <2>1, <2>2, <2>3, <2>4 DEF IInv, RemoveInv
<1>2. CASE ~(~dead_ /\ wlong >= 0 /\ wlong < wsz)
  <2>1. SendDone(s)
    BY <1>2 DEF send_complete
  <2>2. dead_ \/ wlong = Size
    BY <1>0, <1>2, SizeAssumption DEF IInv, WriterOwnsPdu, TypeOK
  <2>3. PollTypeOK' /\ ReadableStays' /\ RemovalHolds' /\ UNCHANGED <<removing, watched, pending_change_>>
    BY <1>0, <1>u, PollTypeSame
       DEF IInv, RemoveInv, TypeOK, RemovalHolds, LoopIsQuiet, ReadableStays, pollvars
  <2>4. removing[s] = "no" /\ pc[s] = "complete_woken" /\ UNCHANGED <<removed, callback, lpc>>
    BY <1>0, <1>u DEF IInv, RemoveInv, RemoversMatch, send_complete, pollvars
  <2> QED BY <1>0, <1>u, <2>1, <2>2, <2>3, <2>4, SendDoneKeeps
<1> QED BY <1>1, <1>2

(* A wait that ends without a signal.                                      *)
LEMMA SpuriousKeeps ==
    ASSUME IInv, NEW s \in Senders, spurious_wakeup(s)
    PROVE  IInv'
<1> USE ThreadsAssumption, NobodyAssumption
<1>0. s \in Removers /\ s # Nobody /\ pc \in [Removers -> ConnPCs] /\ TypeOK
  BY DEF IInv, RemoveInv, TypeOK
<1>u. UNCHANGED <<dead_, wbuf, wsz, wlong, rlong, left, link, out, in, toCome, wire, pollvars>>
  BY DEF spurious_wakeup
<1>p. /\ \/ pc[s] = "complete" /\ pc' = [pc EXCEPT ![s] = "complete_woken"]
         \/ pc[s] = "send_wait" /\ pc' = [pc EXCEPT ![s] = "send_woken"]
  BY <1>0 DEF spurious_wakeup
<1>1. TypeOK'
  BY <1>0, <1>u, <1>p, PollTypeSame DEF TypeOK, ConnPCs
<1>2. ThreadStates' /\ RemoversMatch' /\ LeftAlone' /\ RemovalHolds'
  BY <1>0, <1>u, <1>p
     DEF IInv, RemoveInv, ThreadStates, RemoversMatch, LeftAlone, Calling, RemovalHolds, LoopIsQuiet, pollvars
<1>3. WriterOwnsPdu' /\ WriterHasCallback' /\ WaitersHaveWriter'
  BY <1>0, <1>u, <1>p
     DEF IInv, WriterOwnsPdu, WriterHasCallback, WaitersHaveWriter, Holds, pollvars, TypeOK
<1>4. WireAgrees' /\ PdusAreWhole' /\ ReadableStays' /\ InputBound'
  BY <1>u DEF IInv, WireAgrees, PdusAreWhole, ReadableStays, InputBound, pollvars
<1> QED BY <1>1, <1>2, <1>3, <1>4 DEF IInv, RemoveInv

(* closeconn: dead_ is set before the call of block_remove_fd.             *)
LEMMA CloseKeeps ==
    ASSUME IInv, NEW c \in Closers, closeconn(c)
    PROVE  IInv'
<1> USE ThreadsAssumption, NobodyAssumption
<1>0. c \in Removers /\ c \notin Senders /\ pc \in [Removers -> ConnPCs] /\ TypeOK
  BY DEF IInv, RemoveInv, TypeOK
<1>u. /\ UNCHANGED <<wbuf, wsz, wlong, rlong, left, out, in, toCome, wire, pollvars>>
      /\ dead_' = TRUE /\ pc[c] = "idle"
      /\ pc' = [pc EXCEPT ![c] = IF dead_ THEN "closed" ELSE "remove"]
      /\ link' \in {"up", "down"} /\ (link = "down" => link' = "down")
  BY <1>0 DEF closeconn, TypeOK
<1>1. TypeOK'
  BY <1>0, <1>u, PollTypeSame DEF TypeOK, ConnPCs
<1>2. ThreadStates' /\ RemoversMatch' /\ LeftAlone' /\ RemovalHolds'
  BY <1>0, <1>u
     DEF IInv, RemoveInv, ThreadStates, RemoversMatch, LeftAlone, Calling, RemovalHolds, LoopIsQuiet, pollvars
<1>3. WriterOwnsPdu' /\ WriterHasCallback' /\ WaitersHaveWriter'
  BY <1>0, <1>u
     DEF IInv, WriterOwnsPdu, WriterHasCallback, WaitersHaveWriter, Holds, pollvars, TypeOK
<1>4. WireAgrees' /\ PdusAreWhole' /\ ReadableStays' /\ InputBound'
  BY <1>u DEF IInv, WireAgrees, PdusAreWhole, ReadableStays, InputBound, pollvars
<1> QED BY <1>1, <1>2, <1>3, <1>4 DEF IInv, RemoveInv

(* block_remove_fd up to its wait.                                         *)
LEMMA RemoveKeeps ==
    ASSUME IInv, NEW t \in Removers, remove(t)
    PROVE  IInv'
<1> USE ThreadsAssumption, NobodyAssumption
<1>0. pc \in [Removers -> ConnPCs] /\ TypeOK /\ PollTypeOK /\ dead_ /\ removing \in [Removers -> RemoverPCs]
  BY DEF IInv, RemoveInv, TypeOK, PollTypeOK, RemoversMatch, remove
<1>u. /\ UNCHANGED <<dead_, wbuf, wsz, wlong, rlong, left, link, out, in, toCome, wire>>
      /\ pc[t] = "remove" /\ pc' = [pc EXCEPT ![t] = "removing"]
      /\ removing' = [removing EXCEPT ![t] = "waiting"] /\ pending_change_' = TRUE
      /\ watched' = {} /\ pipe' = pipe + 1 /\ UNCHANGED <<callback, lpc, fds, removed>>
  BY <1>0 DEF remove, block_remove_fd, unwatch_fd, PollTypeOK
<1>1. PollTypeOK'
  BY <1>0, <1>u DEF PollTypeOK, RemoverPCs, Modes
<1>2. TypeOK'
  BY <1>0, <1>u, <1>1 DEF TypeOK, ConnPCs
<1>3. ThreadStates' /\ RemoversMatch' /\ LeftAlone' /\ RemovalHolds'
  BY <1>0, <1>u
     DEF IInv, RemoveInv, ThreadStates, RemoversMatch, LeftAlone, Calling, RemovalHolds, LoopIsQuiet
<1>4. WriterOwnsPdu' /\ WriterHasCallback' /\ WaitersHaveWriter'
  BY <1>0, <1>u
     DEF IInv, WriterOwnsPdu, WriterHasCallback, WaitersHaveWriter, Holds, TypeOK
<1>5. WireAgrees' /\ PdusAreWhole' /\ ReadableStays' /\ InputBound'
  BY <1>u DEF IInv, WireAgrees, PdusAreWhole, ReadableStays, InputBound
<1> QED BY <1>2, <1>3, <1>4, <1>5 DEF IInv, RemoveInv

(* Its return: the loop has been to its top since and has nothing to call  *)
(* back for, unless the wakeup was spurious.                               *)
LEMMA RemoveReturnKeeps ==
    ASSUME IInv, NEW t \in Removers, remove_return(t)
    PROVE  IInv'
<1> USE ThreadsAssumption, NobodyAssumption
<1>0. /\ pc \in [Removers -> ConnPCs] /\ TypeOK /\ PollTypeOK /\ dead_
      /\ removing \in [Removers -> RemoverPCs] /\ watched = {}
      /\ removed' = "broadcast" => LoopIsQuiet
  BY DEF IInv, RemoveInv, TypeOK, PollTypeOK, RemoversMatch, RemovalHolds, remove_return,
         block_remove_fd_return
<1>u. /\ UNCHANGED <<dead_, rlong, left, link, out, in, toCome, wire>>
      /\ pc[t] = "removing"
      /\ removing' = [removing EXCEPT ![t] = "no"] /\ callback' = FALSE /\ removed' \in {"broadcast", "spurious"}
      /\ UNCHANGED <<watched, pipe, pending_change_, lpc, fds>>
  BY DEF remove_return, block_remove_fd_return
<1>1. PollTypeOK'
  BY <1>0, <1>u DEF PollTypeOK, RemoverPCs
<1>2. RemovalHolds' /\ ReadableStays' /\ InputBound'
  BY <1>0, <1>u DEF IInv, RemoveInv, RemovalHolds, LoopIsQuiet, ReadableStays, InputBound
<1>3. CASE t \in Senders
  <2>1. SendDone(t) /\ Holds(t)
    BY <1>3, <1>u DEF remove_return, Holds
  <2>2. removing'[t] = "no" /\ \A b \in Removers \ {t} : removing'[b] = removing[b]
    BY <1>0, <1>u
  <2> QED BY <1>0, <1>u, <1>1, <1>2, <1>3, <2>1, <2>2, SendDoneKeeps
<1>4. CASE t \notin Senders
  <2>0. pc' = [pc EXCEPT ![t] = "closed"] /\ UNCHANGED <<wbuf, wsz, wlong>>
    BY <1>4 DEF remove_return
  <2>1. TypeOK'
    BY <1>0, <1>u, <1>1, <2>0 DEF TypeOK, ConnPCs
  <2>2. ThreadStates' /\ RemoversMatch' /\ LeftAlone'
    BY <1>0, <1>u, <1>4, <2>0 DEF IInv, RemoveInv, ThreadStates, RemoversMatch, LeftAlone, Calling
  <2>3. WriterOwnsPdu' /\ WriterHasCallback' /\ WaitersHaveWriter'
    BY <1>0, <1>u, <1>4, <2>0
       DEF IInv, WriterOwnsPdu, WriterHasCallback, WaitersHaveWriter, Holds, TypeOK
  <2>4. WireAgrees' /\ PdusAreWhole'
    BY <1>0, <1>u, <2>0 DEF IInv, WireAgrees, PdusAreWhole
  <2> QED BY <1>2, <2>1, <2>2, <2>3, <2>4 DEF IInv, RemoveInv
<1> QED BY <1>3, <1>4

(* A signal on send_complete_ reaches the sender that waits there.         *)
LEMMA SignalledThreads ==
    ASSUME pc \in [Removers -> ConnPCs], SignalComplete
    PROVE  /\ pc' \in [Removers -> ConnPCs]
           /\ \A t \in Removers : \/ pc'[t] = pc[t]
                                  \/ pc[t] = "complete" /\ pc'[t] = "complete_woken"
  BY DEF SignalComplete, ConnPCs

(* Reading leaves no more units than there were.                           *)
LEMMA LessInput ==
    ASSUME NEW a \in 0 .. MaxIn, NEW b \in 0 .. MaxIn, a + b <= MaxIn, NEW c \in Nat, c <= a
    PROVE  c \in 0 .. MaxIn /\ c + b <= MaxIn
  BY BoundsAssumption

(* A callback that finds the connection broken: it is dead, nothing is     *)
(* watched any more and the sender that waits, if there is one, is woken.  *)
LEMMA DyingKeeps ==
    ASSUME IInv, ~dead_, dead_' = TRUE, SignalComplete, del_callback(Modes),
           UNCHANGED <<wbuf, left, link, out, toCome, wire, fds>>,
           lpc \in {"read_cb", "write_cb"}, lpc' \in {"top", "writes"},
           wsz' \in {0, Size}, wlong' \in -1 .. Size, rlong' \in 0 .. Size, in' \in 0 .. in
    PROVE  IInv'
<1> USE ThreadsAssumption, NobodyAssumption
<1>0. TypeOK /\ PollTypeOK /\ pc \in [Removers -> ConnPCs]
  BY DEF IInv, RemoveInv, TypeOK
<1>1. /\ pc' \in [Removers -> ConnPCs]
      /\ \A t \in Removers : \/ pc'[t] = pc[t]
                             \/ pc[t] = "complete" /\ pc'[t] = "complete_woken"
  BY <1>0, SignalledThreads
<1>2. /\ watched' = {} /\ pipe' = pipe + 1 /\ callback' = FALSE
      /\ UNCHANGED <<pending_change_, removing, removed>>
  BY <1>0 DEF del_callback, unwatch_fd, PollTypeOK
<1>3. PollTypeOK'
  <2>1. /\ watched' \in SUBSET Modes /\ callback' \in BOOLEAN /\ lpc' \in LoopPCs
    BY <1>2 DEF LoopPCs
  <2>2. pipe' \in Nat
    BY <1>0, <1>2 DEF PollTypeOK
  <2> QED BY <1>0, <1>2, <2>1, <2>2 DEF PollTypeOK
<1>4. TypeOK' /\ InputBound'
  <2>0. in \in 0 .. MaxIn /\ toCome \in 0 .. MaxIn /\ in + toCome <= MaxIn /\ toCome' = toCome
    BY <1>0 DEF TypeOK, IInv, InputBound
  <2>1. in' \in Nat /\ in' <= in
    BY <2>0, BoundsAssumption
  <2>2. in' \in 0 .. MaxIn /\ in' + toCome <= MaxIn
    BY <2>0, <2>1, LessInput
  <2> QED BY <1>0, <1>1, <1>3, <2>0, <2>2 DEF TypeOK, InputBound
<1>5. ThreadStates' /\ RemoversMatch' /\ LeftAlone'
  BY <1>0, <1>1, <1>2 DEF IInv, RemoveInv, ThreadStates, RemoversMatch, LeftAlone, Calling
<1>6. RemovalHolds'
  BY <1>0, <1>2 DEF IInv, RemoveInv, RemovalHolds, RemoversMatch, LoopIsQuiet
<1>7. WriterOwnsPdu' /\ WriterHasCallback' /\ WaitersHaveWriter'
  BY <1>0, <1>1 DEF IInv, WriterOwnsPdu, WriterHasCallback, WaitersHaveWriter, Holds, TypeOK
<1>8. WireAgrees' /\ PdusAreWhole' /\ ReadableStays'
  BY DEF IInv, WireAgrees, PdusAreWhole, ReadableStays
<1> QED BY <1>4, <1>5, <1>6, <1>7, <1>8 DEF IInv, RemoveInv

(* write_cb.                                                               *)
LEMMA WriteCbKeeps ==
    ASSUME IInv, write_cb
    PROVE  IInv'
<1> USE ThreadsAssumption, NobodyAssumption
<1>0. TypeOK /\ PollTypeOK /\ pc \in [Removers -> ConnPCs]
  BY DEF IInv, RemoveInv, TypeOK
<1>u. lpc = "write_cb" /\ UNCHANGED <<fds, wbuf, rlong, left, link, in, toCome>>
      /\ lpc' = IF dead_ THEN "aborted" ELSE "top"
  BY DEF write_cb
<1>1. CASE /\ dead_
           /\ UNCHANGED <<dead_, wsz, wlong, pc, out, wire, watched, callback, pipe,
                          pending_change_, removing, removed>>
  <2>1. PollTypeOK'
    BY <1>0, <1>u, <1>1 DEF PollTypeOK, LoopPCs
  <2>2. TypeOK'
    BY <1>0, <1>u, <1>1, <2>1 DEF TypeOK
  <2>3. ThreadStates' /\ RemoversMatch' /\ LeftAlone' /\ RemovalHolds'
    BY <1>0, <1>u, <1>1 DEF IInv, RemoveInv, ThreadStates, RemoversMatch, LeftAlone, Calling, RemovalHolds, LoopIsQuiet
  <2>4. WriterOwnsPdu' /\ WriterHasCallback' /\ WaitersHaveWriter'
    BY <1>u, <1>1 DEF IInv, WriterOwnsPdu, WriterHasCallback, WaitersHaveWriter, Holds
  <2>5. WireAgrees' /\ PdusAreWhole' /\ ReadableStays' /\ InputBound'
    BY <1>u, <1>1 DEF IInv, WireAgrees, PdusAreWhole, ReadableStays, InputBound
  <2> QED BY <2>2, <2>3, <2>4, <2>5 DEF IInv, RemoveInv
<1>2. CASE /\ ~dead_ /\ ~KeepsCallback
           /\ del_callback({"w"})
           /\ UNCHANGED <<dead_, wsz, wlong, pc, out, wire>>
  <2>0. /\ watched' \subseteq watched /\ pipe' \in Nat /\ callback' \in BOOLEAN
        /\ UNCHANGED <<pending_change_, removing, removed>>
    BY <1>0, <1>2 DEF del_callback, unwatch_fd, PollTypeOK
  <2>1. PollTypeOK'
    BY <1>0, <1>u, <1>2, <2>0 DEF PollTypeOK, LoopPCs
  <2>2. TypeOK'
    BY <1>0, <1>u, <1>2, <2>1 DEF TypeOK
  <2>3. ThreadStates' /\ RemoversMatch' /\ LeftAlone'
    BY <1>0, <1>u, <1>2, <2>0 DEF IInv, RemoveInv, ThreadStates, RemoversMatch, LeftAlone, Calling
  <2>4. RemovalHolds'
    BY <1>0, <1>u, <1>2, <2>0 DEF IInv, RemoveInv, RemovalHolds, RemoversMatch, LoopIsQuiet
  <2>5. WriterOwnsPdu' /\ WaitersHaveWriter'
    BY <1>u, <1>2 DEF IInv, WriterOwnsPdu, WaitersHaveWriter, Holds
  <2>6. WriterHasCallback'
    BY <1>u, <1>2, SizeAssumption DEF IInv, WriterOwnsPdu, WriterHasCallback, KeepsCallback
  <2>7. WireAgrees' /\ PdusAreWhole' /\ ReadableStays' /\ InputBound'
    BY <1>u, <1>2 DEF IInv, WireAgrees, PdusAreWhole, ReadableStays, InputBound
  <2> QED BY <2>2, <2>3, <2>4, <2>5, <2>6, <2>7 DEF IInv, RemoveInv
<1>3. CASE /\ ~dead_ /\ KeepsCallback
           /\ del_callback(Modes)
           /\ dead_' = TRUE
           /\ wsz' = 0 /\ wlong' = -1
           /\ SignalComplete
           /\ UNCHANGED <<out, wire>>
  <2>1. in' \in 0 .. in /\ rlong' \in 0 .. Size
    BY <1>0, <1>u DEF TypeOK
  <2>2. wsz' \in {0, Size} /\ wlong' \in -1 .. Size
    BY <1>3, SizeAssumption
  <2> QED BY <1>u, <1>3, <2>1, <2>2, DyingKeeps
<1>4. CASE /\ ~dead_ /\ KeepsCallback
           /\ Written(wbuf, wlong)
           /\ wlong' = wlong + Fits(wlong)
           /\ IF wlong' < wsz THEN UNCHANGED pc ELSE SignalComplete
           /\ UNCHANGED <<dead_, wsz, watched, callback, pipe, pending_change_, removing, removed>>
  <2>0. wbuf \in Senders /\ wbuf # Nobody /\ wsz = Size /\ wlong \in 0 .. Size
    BY <1>0, <1>4, SizeAssumption DEF IInv, TypeOK, WriterOwnsPdu, KeepsCallback
  <2>1. wlong + Fits(wlong) \in 0 .. Size
    BY <1>0, <2>0, FitsBounds
  <2>2. /\ Len(wire) <= Size
        /\ 0 < wlong /\ wlong < Size => Len(wire) = wlong /\ wire[1][1] = wbuf
        /\ wlong \in {0, Size} => Len(wire) \in {0, Size}
    BY <1>4, <2>0, SizeAssumption DEF IInv, WireAgrees
  <2>3. /\ out' \in 0 .. Cap
        /\ wire' \in Seq(Senders \X (1 .. Size))
        /\ PdusAreWhole'
        /\ Len(wire') <= Size
        /\ IF 0 < wlong + Fits(wlong) /\ wlong + Fits(wlong) < Size
           THEN Len(wire') = wlong + Fits(wlong) /\ wire'[1][1] = wbuf
           ELSE Len(wire') \in {0, Size}
    BY <1>0, <1>4, <2>0, <2>2, WrittenWire DEF IInv
  <2>4. /\ pc' \in [Removers -> ConnPCs]
        /\ \A t \in Removers : \/ pc'[t] = pc[t]
                               \/ pc[t] = "complete" /\ pc'[t] = "complete_woken"
    BY <1>0, <1>4, SignalledThreads
  <2>5. PollTypeOK'
    BY <1>0, <1>u, <1>4 DEF PollTypeOK, LoopPCs
  <2>6. TypeOK'
    BY <1>0, <1>u, <1>4, <2>1, <2>3, <2>4, <2>5 DEF TypeOK
  <2>7. ThreadStates' /\ RemoversMatch' /\ LeftAlone'
    BY <1>0, <1>u, <1>4, <2>4 DEF IInv, RemoveInv, ThreadStates, RemoversMatch, LeftAlone, Calling
  <2>8. RemovalHolds'
    BY <1>0, <1>u, <1>4 DEF IInv, RemoveInv, RemovalHolds, RemoversMatch, LoopIsQuiet
  <2>9. WriterOwnsPdu' /\ WaitersHaveWriter'
    BY <1>u, <1>4, <2>0, <2>1, <2>4 DEF IInv, WriterOwnsPdu, WaitersHaveWriter, Holds
  <2>10. WriterHasCallback'
    <3>1. wlong' < wsz' => wlong < wsz
      BY <1>0, <1>4, <2>0, FitsBounds, SizeAssumption
    <3> QED BY <1>u, <1>4, <3>1 DEF IInv, WriterHasCallback
  <2>11. WireAgrees'
    BY <1>u, <1>4, <2>0, <2>3 DEF WireAgrees
  <2>12. ReadableStays' /\ InputBound'
    BY <1>u, <1>4 DEF IInv, ReadableStays, InputBound
  <2> QED BY <2>3, <2>6, <2>7, <2>8, <2>9, <2>10, <2>11, <2>12 DEF IInv, RemoveInv
<1> QED BY <1>1, <1>2, <1>3, <1>4 DEF write_cb

(* What readpdu leaves of the units that have come, and in rpdu_.          *)
LEMMA ReadpduBounds ==
    ASSUME TypeOK, NEW short \in BOOLEAN, NEW stale \in BOOLEAN, rlong # Size,
           rlong = 0 => in > 0 \/ link = "down"
    PROVE  /\ readpdu(short, stale).rlong \in 0 .. Size
           /\ readpdu(short, stale).n \in 0 .. in
           /\ readpdu(short, stale).ok \in BOOLEAN
<1> DEFINE hd == IF rlong = 0 THEN 1 ELSE 0
           n == Min2(in - hd, Size - rlong - hd)
           noHeader == rlong = 0 /\ (AtEof \/ short)
<1>0. in \in Nat /\ rlong \in 0 .. Size /\ Size \in Nat /\ Size > 1 /\ link \in {"up", "down"}
  BY SizeAssumption DEF TypeOK
<1>1. ~noHeader => hd <= in
  BY <1>0 DEF AtEof
<1>2. CASE noHeader
  BY <1>0, <1>2 DEF readpdu
<1>3. CASE ~noHeader /\ n > 0
  <2>1. readpdu(short, stale) = [rlong |-> rlong + hd + n, n |-> hd + n, ok |-> TRUE]
    <3>1. n \in Int
      BY <1>0 DEF Min2
    <3>2. ~(n <= 0)
      BY <1>3, <3>1
    <3> QED BY <1>3, <3>2 DEF readpdu
  <2> QED BY <1>0, <1>3, <2>1 DEF Min2
<1>4. CASE ~noHeader /\ ~(n > 0)
  <2>1. Min2(in, hd) \in 0 .. in
    BY <1>0 DEF Min2
  <2>2. n \in Int
    BY <1>0 DEF Min2
  <2>3. n <= 0
    BY <1>4, <2>2
  <2>4. \/ readpdu(short, stale) = [rlong |-> rlong + hd, n |-> Min2(in, hd), ok |-> TRUE]
        \/ readpdu(short, stale) = [rlong |-> 0, n |-> Min2(in, hd), ok |-> FALSE]
    BY <1>4, <2>3 DEF readpdu
  <2>5. rlong + hd \in 0 .. Size
    BY <1>0
  <2> HIDE DEF hd
  <2>6. CASE readpdu(short, stale) = [rlong |-> rlong + hd, n |-> Min2(in, hd), ok |-> TRUE]
    BY <2>1, <2>5, <2>6
  <2>7. CASE readpdu(short, stale) = [rlong |-> 0, n |-> Min2(in, hd), ok |-> FALSE]
    BY <1>0, <2>1, <2>7
  <2> QED BY <2>4, <2>6, <2>7
<1> QED BY <1>2, <1>3, <1>4

(* read_cb.                                                                *)
LEMMA ReadCbKeeps ==
    ASSUME IInv, NEW short \in BOOLEAN, NEW stale \in BOOLEAN, NEW takes \in BOOLEAN,
           read_cb(short, stale, takes)
    PROVE  IInv'
<1> USE ThreadsAssumption, NobodyAssumption
<1> DEFINE rd == IF dead_ \/ rlong = Size THEN [rlong |-> rlong, n |-> 0, ok |-> TRUE]
                 ELSE readpdu(short, stale)
<1>0. TypeOK /\ PollTypeOK /\ pc \in [Removers -> ConnPCs] /\ in \in Nat /\ rlong \in 0 .. Size
  BY DEF IInv, RemoveInv, TypeOK
<1>u. /\ lpc = "read_cb" /\ lpc' = "writes"
      /\ in' = in - rd.n
      /\ rlong' = IF dead_ THEN rlong ELSE AfterGotPdu(rd.rlong, takes)
      /\ dead_' = (dead_ \/ ~rd.ok)
      /\ IF rd.ok
         THEN UNCHANGED <<pc, watched, callback, pipe, pending_change_, removing, removed>>
         ELSE del_callback(Modes) /\ SignalComplete
      /\ UNCHANGED <<fds, wbuf, wsz, wlong, left, link, out, toCome, wire>>
  BY DEF read_cb
<1>1. rd.rlong \in 0 .. Size /\ rd.n \in 0 .. in /\ rd.ok \in BOOLEAN /\ (dead_ => rd.ok)
  <2>1. CASE dead_ \/ rlong = Size
    <3>1. rd = [rlong |-> rlong, n |-> 0, ok |-> TRUE]
      BY <2>1
    <3> HIDE DEF rd
    <3> QED BY <1>0, <3>1
  <2>2. CASE ~(dead_ \/ rlong = Size)
    <3>1. in > 0 \/ link = "down"
      BY <1>u DEF IInv, ReadableStays
    <3>2. rd = readpdu(short, stale)
      BY <2>2
    <3> QED BY <1>0, <2>2, <3>1, <3>2, ReadpduBounds
  <2> QED BY <2>1, <2>2
<1> HIDE DEF rd
<1>2. in' \in 0 .. in /\ rlong' \in 0 .. Size
  BY <1>0, <1>u, <1>1, SizeAssumption DEF AfterGotPdu
<1>3. CASE ~rd.ok
  <2>1. ~dead_ /\ dead_' = TRUE /\ SignalComplete /\ del_callback(Modes)
    BY <1>u, <1>1, <1>3
  <2>2. wsz' \in {0, Size} /\ wlong' \in -1 .. Size
    BY <1>0, <1>u DEF TypeOK
  <2> QED BY <1>u, <1>2, <2>1, <2>2, DyingKeeps
<1>4. CASE rd.ok
  <2>0. UNCHANGED <<pc, watched, callback, pipe, pending_change_, removing, removed>> /\ dead_' = dead_
    BY <1>0, <1>u, <1>4 DEF TypeOK
  <2>1. PollTypeOK'
    BY <1>0, <1>u, <2>0 DEF PollTypeOK, LoopPCs
  <2>2. TypeOK' /\ InputBound'
    <3>1. in' \in 0 .. MaxIn /\ in' + toCome' <= MaxIn
      BY <1>0, <1>2, <1>u, BoundsAssumption DEF TypeOK, IInv, InputBound
    <3> QED BY <1>0, <1>u, <1>2, <2>0, <2>1, <3>1 DEF TypeOK, InputBound
  <2>3. ThreadStates' /\ RemoversMatch' /\ LeftAlone'
    BY <1>u, <2>0 DEF IInv, RemoveInv, ThreadStates, RemoversMatch, LeftAlone, Calling
  <2>4. RemovalHolds'
    BY <1>0, <1>u, <2>0 DEF IInv, RemoveInv, RemovalHolds, RemoversMatch, LoopIsQuiet
  <2>5. WriterOwnsPdu' /\ WriterHasCallback' /\ WaitersHaveWriter'
    BY <1>u, <2>0 DEF IInv, WriterOwnsPdu, WriterHasCallback, WaitersHaveWriter, Holds
  <2>6. WireAgrees' /\ PdusAreWhole' /\ ReadableStays'
    BY <1>u, <2>0 DEF IInv, WireAgrees, PdusAreWhole, ReadableStays
  <2> QED BY <2>2, <2>3, <2>4, <2>5, <2>6 DEF IInv, RemoveInv
<1> QED BY <1>3, <1>4

(* The loop's own steps: it acknowledges removals at its top only, and     *)
(* copies the sets after that.                                             *)
LEMMA LoopKeeps ==
    ASSUME IInv, UNCHANGED connvars,
           loop_top \/ wait_ready_copy \/ loop_reads \/ loop_writes \/ wait_ready(Ready)
    PROVE  IInv'
<1>0. TypeOK /\ PollTypeOK
  BY DEF IInv, RemoveInv, TypeOK
<1>1. PollTypeOK' /\ watched' = watched /\ callback' = callback /\ removed' = removed
  <2>1. watched' = watched /\ callback' = callback /\ removed' = removed
    BY DEF loop_top, wait_ready_copy, loop_reads, loop_writes, wait_ready
  <2>2. lpc' \in LoopPCs
    BY DEF loop_top, wait_ready_copy, loop_reads, loop_writes, wait_ready, LoopPCs
  <2>3. removing' \in [Removers -> RemoverPCs] /\ pending_change_' \in BOOLEAN
    BY <1>0 DEF loop_top, wait_ready_copy, loop_reads, loop_writes, wait_ready, RemoverPCs, PollTypeOK
  <2>4. pipe' \in Nat /\ fds' \in SUBSET Modes
    BY <1>0 DEF loop_top, wait_ready_copy, loop_reads, loop_writes, wait_ready, PollTypeOK
  <2> QED BY <1>0, <2>1, <2>2, <2>3, <2>4 DEF PollTypeOK
<1>2. TypeOK'
  BY <1>0, <1>1 DEF TypeOK, connvars
<1>3. ThreadStates' /\ RemoversMatch' /\ LeftAlone'
  BY <1>0 DEF IInv, RemoveInv, PollTypeOK, ThreadStates, RemoversMatch, LeftAlone, Calling, connvars, loop_top,
              wait_ready_copy, loop_reads, loop_writes, wait_ready
<1>4. RemovalHolds'
  BY <1>0 DEF IInv, RemoveInv, PollTypeOK, RemoversMatch, RemovalHolds, LoopIsQuiet, connvars,
              loop_top, wait_ready_copy, loop_reads, loop_writes, wait_ready, RemoverPCs
<1>5. WriterOwnsPdu' /\ WriterHasCallback' /\ WaitersHaveWriter'
  BY <1>1 DEF IInv, WriterOwnsPdu, WriterHasCallback, WaitersHaveWriter, Holds, connvars
<1>6. WireAgrees' /\ PdusAreWhole' /\ InputBound'
  BY DEF IInv, WireAgrees, PdusAreWhole, InputBound, connvars
<1>7. ReadableStays'
  BY <1>0 DEF IInv, ReadableStays, connvars, loop_top, wait_ready_copy, loop_reads, loop_writes,
              wait_ready, Ready, PollTypeOK
<1> QED BY <1>2, <1>3, <1>4, <1>5, <1>6, <1>7 DEF IInv, RemoveInv

(* The other end and the network.                                          *)
LEMMA PeerKeeps ==
    ASSUME IInv, peer_sends \/ peer_reads \/ Break
    PROVE  IInv'
<1>u. UNCHANGED <<dead_, wbuf, wsz, wlong, rlong, pc, left, wire, pollvars>>
      /\ (link = "down" => link' = "down")
  BY DEF peer_sends, peer_reads, Break
<1>1. TypeOK' /\ InputBound'
  <2>1. PollTypeOK'
    BY <1>u, PollTypeSame DEF IInv, RemoveInv, TypeOK
  <2>2. /\ link' \in {"up", "down"} /\ out' \in 0 .. Cap /\ in' \in 0 .. MaxIn
        /\ toCome' \in 0 .. MaxIn /\ in' + toCome' <= MaxIn
    BY BoundsAssumption, SizeAssumption
       DEF IInv, RemoveInv, TypeOK, InputBound, peer_sends, peer_reads, Break
  <2> QED BY <1>u, <2>1, <2>2 DEF IInv, RemoveInv, TypeOK, InputBound
<1>2. ThreadStates' /\ RemoversMatch' /\ LeftAlone' /\ RemovalHolds'
  BY <1>u DEF IInv, RemoveInv, ThreadStates, RemoversMatch, LeftAlone, Calling, RemovalHolds, LoopIsQuiet, pollvars
<1>3. WriterOwnsPdu' /\ WriterHasCallback' /\ WaitersHaveWriter' /\ WireAgrees' /\ PdusAreWhole'
  BY <1>u DEF IInv, WriterOwnsPdu, WriterHasCallback, WaitersHaveWriter, Holds, pollvars, WireAgrees,
              PdusAreWhole
<1>4. ReadableStays'
  BY DEF IInv, RemoveInv, TypeOK, ReadableStays, peer_sends, peer_reads, Break, pollvars
<1> QED BY <1>1, <1>2, <1>3, <1>4 DEF IInv, RemoveInv

-----------------------------------------------------------------------------
(* The inductive invariant holds when the connection is made.              *)
LEMMA InitIInv == Init => IInv
<1> SUFFICES ASSUME Init PROVE IInv
  OBVIOUS
<1> USE DEF Init, PollInit, AioInit
<1>1. wire = <<>> /\ Len(wire) = 0 /\ DOMAIN wire = {} /\ wire \in Seq(Senders \X (1 .. Size))
  BY EmptySeq
<1>2. TypeOK
  <2>1. PollTypeOK
    BY DEF PollTypeOK, RemoverPCs, LoopPCs, Modes
  <2>2. 0 \in 0 .. Size /\ 0 \in -1 .. Size /\ 0 \in 0 .. Cap /\ 0 \in 0 .. MaxIn
        /\ MaxIn \in 0 .. MaxIn /\ MaxSends \in 0 .. MaxSends
    BY SizeAssumption, BoundsAssumption
  <2>3. pc \in [Removers -> ConnPCs]
    BY DEF ConnPCs
  <2> QED BY <1>1, <2>1, <2>2, <2>3 DEF TypeOK
<1>3. ThreadStates /\ RemoversMatch /\ LeftAlone /\ RemovalHolds
  BY ThreadsAssumption DEF ThreadStates, RemoversMatch, LeftAlone, Calling, RemovalHolds
<1>4. WriterOwnsPdu /\ WriterHasCallback /\ WaitersHaveWriter
  BY ThreadsAssumption, NobodyAssumption
     DEF WriterOwnsPdu, WriterHasCallback, WaitersHaveWriter, Holds
<1>5. WireAgrees /\ PdusAreWhole /\ ReadableStays /\ InputBound
  BY <1>1, SizeAssumption, BoundsAssumption DEF WireAgrees, PdusAreWhole, ReadableStays, InputBound
<1> QED BY <1>2, <1>3, <1>4, <1>5 DEF IInv, RemoveInv

(* Every step of every thread preserves the inductive invariant.           *)
LEMMA NextIInv == IInv /\ [Next]_vars => IInv'
<1> SUFFICES ASSUME IInv, [Next]_vars PROVE IInv'
  OBVIOUS
<1>1. TypeOK
  BY DEF IInv, RemoveInv
<1>2. CASE UNCHANGED vars
  <2>1. UNCHANGED <<pollvars, connvars>>
    BY <1>2 DEF vars
  <2>2. TypeOK'
    BY <1>1, <2>1, PollTypeSame DEF TypeOK, connvars
  <2>3. ThreadStates' /\ RemoversMatch' /\ LeftAlone' /\ RemovalHolds'
    BY <2>1 DEF IInv, RemoveInv, ThreadStates, RemoversMatch, LeftAlone, Calling, RemovalHolds, LoopIsQuiet, pollvars,
                connvars
  <2>4. WriterOwnsPdu' /\ WriterHasCallback' /\ WaitersHaveWriter'
    BY <2>1 DEF IInv, WriterOwnsPdu, WriterHasCallback, WaitersHaveWriter, Holds, pollvars, connvars
  <2>5. WireAgrees' /\ PdusAreWhole' /\ ReadableStays' /\ InputBound'
    BY <2>1 DEF IInv, WireAgrees, PdusAreWhole, ReadableStays, InputBound, pollvars, connvars
  <2> QED BY <2>2, <2>3, <2>4, <2>5 DEF IInv, RemoveInv
<1> QED
  BY <1>1, <1>2, NextCases, SendKeeps, CompleteKeeps, SpuriousKeeps, CloseKeeps, RemoveKeeps,
     RemoveReturnKeeps, WriteCbKeeps, ReadCbKeeps, LoopKeeps, PeerKeeps

(* The variables keep their types: a write callback never counts past the  *)
(* end of a PDU, a read callback never past what has come.                 *)
THEOREM TypeCorrect == Spec => []TypeOK
<1>1. IInv => TypeOK
  BY DEF IInv, RemoveInv
<1> QED
  BY <1>1, InitIInv, NextIInv, PTL DEF Spec

(* A dead connection is called back only while the removal its closer or   *)
(* failed sender asked for is not answered, or after a wait for the answer *)
(* that a spurious wakeup ended, whoever removes it and whatever the loop  *)
(* was doing.  With no such wakeup the return of block_remove_fd is final. *)
THEOREM RemoveIsFinal == Spec => []DeadIsCalledOnlyInRemoval
<1>1. IInv => DeadIsCalledOnlyInRemoval
  <2> SUFFICES ASSUME IInv, dead_, Calling, removed # "spurious"
               PROVE  \E t \in Removers : pc[t] = "remove" \/ removing[t] = "waiting"
    BY DEF DeadIsCalledOnlyInRemoval
  <2>1. ~LoopIsQuiet /\ removed = "no"
    BY DEF Calling, LoopIsQuiet, IInv, RemoveInv, RemovalHolds, TypeOK, PollTypeOK
  <2>2. PICK t \in Removers : pc[t] \in {"remove", "removing"}
    BY <2>1 DEF IInv, RemoveInv, LeftAlone
  <2>3. pc[t] = "removing" => removing[t] = "waiting"
    BY <2>1 DEF IInv, RemoveInv, RemoversMatch, RemovalHolds, TypeOK, PollTypeOK, RemoverPCs
  <2> QED BY <2>2, <2>3
<1> QED
  BY <1>1, InitIInv, NextIInv, PTL DEF Spec

(* PDUs leave whole, for any number of senders, any size of PDU and any    *)
(* room in the socket's buffer.                                            *)
THEOREM WirePdusAreWhole == Spec => []PdusAreWhole
<1>1. IInv => PdusAreWhole
  BY DEF IInv
<1> QED
  BY <1>1, InitIInv, NextIInv, PTL DEF Spec

(* A sender never sleeps on send_complete_ with nobody to write the rest.  *)
THEOREM SleepingSenderHasCallback == Spec => []SenderHasCallback
<1>1. IInv => SenderHasCallback
  BY NobodyAssumption, ThreadsAssumption
     DEF IInv, WriterOwnsPdu, WriterHasCallback, SenderHasCallback, Holds
<1> QED
  BY <1>1, InitIInv, NextIInv, PTL DEF Spec

(* A sender never sleeps on send_wait_ while nobody has the connection.    *)
THEOREM SleepingSenderHasWriter == Spec => []WaitersHaveWriter
<1>1. IInv => WaitersHaveWriter
  BY DEF IInv
<1> QED
  BY <1>1, InitIInv, NextIInv, PTL DEF Spec

(* The assert in readpdu does not fail.                                    *)
THEOREM HeaderAssertHolds == Spec => []HeaderIsThere
<1>1. IInv => HeaderIsThere
  BY DEF IInv, ReadableStays, HeaderIsThere
<1> QED
  BY <1>1, InitIInv, NextIInv, PTL DEF Spec

=============================================================================
