---------------------------- MODULE LockService ----------------------------
(***************************************************************************)
(* The lock service as its programs use it: the threads of lock_tester.cc  *)
(* and the process of lock_demo.cc, which call through lock_client, the    *)
(* dispatch pool that runs the requests, and the lock server (LockServer). *)
(* The RPC layer delivers every request and every reply once, in any       *)
(* order: module Rpc is about when it does.                                *)
(*                                                                         *)
(* What a thread still has to do is a sequence of steps, each a call of    *)
(* lock_client or one of the tester's checks.                              *)
(***************************************************************************)
EXTENDS LockServer, Sequences

CONSTANTS nt,        \* how many threads the tester starts
          lc,        \* lc[i]: the i-th lock_client's id; the demo's is lc[nt]
          a, b,      \* two lock ids
          Rounds,    \* how often tests 3 to 5 acquire and release: 10
          Split,     \* test5: threads below it share client 0: 5
          NoTester   \* no request: a dispatch thread that is idle

ASSUME ntAssumption == nt \in Nat /\ nt >= 2 /\ Split \in 0 .. nt /\ Rounds \in Nat

ASSUME lcAssumption == lc \in [0 .. nt -> Clients]

ASSUME lockAssumption == a \in LockIds /\ b \in LockIds /\ a # b

ASSUME NoTesterAssumption == NoTester \notin 0 .. nt

(* The tester's threads, of which 0 is also main's, and the demo's.        *)
Demo == nt

Testers == 0 .. nt

VARIABLES test,   \* the test that runs; 6 when main has ended
          todo,   \* todo[u]: the steps thread u has left
          tpc,    \* tpc[u]: "run", in a "call", or "failed" a check or an assert
          ct,     \* ct[l]: the tester's count of the holders of l
          jobq,   \* the dispatch pool's queue: <<thread, step>>
          serves  \* serves[t]: the thread whose request t runs

testvars == <<test, todo, tpc, ct, jobq, serves>>

allvars == <<vars, testvars>>

Procs == {"acquire", "release", "stat"}

Step(op, i, l) == [op |-> op, clt |-> lc[i], lid |-> l]

-----------------------------------------------------------------------------
(* What tests 2 to 5 do, once or again and again.                          *)
Round(i) == <<Step("acquire", i, a), Step("check_grant", i, a),
              Step("check_release", i, a), Step("release", i, a)>>

Loop(i) == [k \in 1 .. Rounds * Len(Round(i)) |-> Round(i)[((k - 1) % Len(Round(i))) + 1]]

(* "acquire a release a acquire a release a", "acquire a acquire b release *)
(* b release a", each release being checked after it.                      *)
test1 == LET take(l) == <<Step("acquire", 0, l), Step("check_grant", 0, l)>>
             give(l) == <<Step("release", 0, l), Step("check_release", 0, l)>>
         IN  take(a) \o give(a) \o take(a) \o give(a) \o take(a) \o take(b) \o give(b) \o give(a)

test2(i) == Round(i)

test3(i) == Loop(i)

test4(i) == Loop(0)

test5(i) == IF i < Split THEN Loop(0) ELSE Loop(1)

(* The steps thread i runs in test k.                                      *)
Program(k, i) == CASE k = 1 -> IF i = 0 THEN test1 ELSE <<>>
                   [] k = 2 -> test2(i)
                   [] k = 3 -> test3(i)
                   [] k = 4 -> IF i < 2 THEN test4(i) ELSE <<>>
                   [] k = 5 -> test5(i)
                   [] k = 6 -> <<>>

(* lock_demo's main.                                                       *)
demo == <<Step("stat", Demo, a)>>

Programs(k, old) == [u \in Testers |-> IF u = Demo THEN old ELSE Program(k, u)]

TestInit == /\ test = 1
            /\ todo = Programs(1, demo)
            /\ tpc = [u \in Testers |-> "run"]
            /\ ct = [l \in LockIds |-> 0]
            /\ jobq = <<>>
            /\ serves = [t \in Threads |-> NoTester]

-----------------------------------------------------------------------------
(* main: when all threads of a test have been joined, those of the next    *)
(* are started.                                                            *)
next_test == /\ test < 6
             /\ \A u \in Testers \ {Demo} : todo[u] = <<>>
             /\ test' = test + 1
             /\ todo' = Programs(test + 1, todo[Demo])
             /\ UNCHANGED <<tpc, ct, jobq, serves>>

AtStep(u, op) == tpc[u] = "run" /\ todo[u] # <<>> /\ Head(todo[u]).op = op

(* acquire, release and stat of lock_client up to the wait for the reply.  *)
call(u) == /\ \E p \in Procs : AtStep(u, p)
           /\ tpc' = [tpc EXCEPT ![u] = "call"]
           /\ jobq' = Append(jobq, <<u, Head(todo[u])>>)
           /\ UNCHANGED <<test, todo, ct, serves>>

(* Thread u's check of ct, which must be n, and its change by d.           *)
Check(u, n, d) ==
    LET l == Head(todo[u]).lid
    IN  /\ IF ct[l] # n THEN tpc' = [tpc EXCEPT ![u] = "failed"] /\ UNCHANGED <<ct, todo>>
           ELSE /\ ct' = [ct EXCEPT ![l] = @ + d]
                /\ todo' = [todo EXCEPT ![u] = Tail(@)]
                /\ UNCHANGED tpc
        /\ UNCHANGED <<test, jobq, serves>>

check_grant(u) == AtStep(u, "check_grant") /\ Check(u, 0, 1)

check_release(u) == AtStep(u, "check_release") /\ Check(u, 1, -1)

(* A free dispatch thread takes the request at the front and calls its     *)
(* handler.                                                                *)
serve(t) == /\ serves[t] = NoTester
            /\ jobq # <<>>
            /\ LET s == Head(jobq)[2]
               IN  \/ s.op = "acquire" /\ acquire(t, s.clt, s.lid)
                   \/ s.op = "release" /\ release(t, s.clt, s.lid)
                   \/ s.op = "stat" /\ stat(t, s.clt, s.lid)
            /\ serves' = [serves EXCEPT ![t] = Head(jobq)[1]]
            /\ jobq' = Tail(jobq)
            /\ UNCHANGED <<test, todo, tpc, ct>>

(* The handler's result reaches the caller, which asserts that it is OK.   *)
reply(t) == /\ serves[t] # NoTester
            /\ finish(t)
            /\ tpc' = [tpc EXCEPT ![serves[t]] = IF ret[t] = "OK" THEN "run" ELSE "failed"]
            /\ todo' = [todo EXCEPT ![serves[t]] = Tail(@)]
            /\ serves' = [serves EXCEPT ![t] = NoTester]
            /\ UNCHANGED <<test, ct, jobq>>

TestNext == \/ /\ next_test \/ \E u \in Testers : call(u) \/ check_grant(u) \/ check_release(u)
               /\ UNCHANGED vars
            \/ \E t \in Threads : \/ serve(t)
                                  \/ reply(t)
                                  \/ /\ acquire_resume(t) \/ spurious_wakeup(t)
                                     /\ UNCHANGED testvars

TestSpec == Init /\ TestInit /\ [][TestNext]_allvars

(* The programs' threads and the dispatch threads are scheduled.           *)
FairTestSpec ==
    /\ TestSpec
    /\ WF_allvars(next_test /\ UNCHANGED vars)
    /\ \A u \in Testers :
          WF_allvars((call(u) \/ check_grant(u) \/ check_release(u)) /\ UNCHANGED vars)
    /\ \A t \in Threads : /\ WF_allvars(serve(t))
                          /\ WF_allvars(reply(t))
                          /\ WF_allvars(acquire_resume(t) /\ UNCHANGED testvars)
-----------------------------------------------------------------------------
(* No check and no assert of the tester and of lock_client ever fails:     *)
(* the server never grants a lock twice, and every acquire and every       *)
(* release of a lock the caller holds returns OK, also when several        *)
(* threads share one client.                                               *)
ChecksHold == \A u \in Testers : tpc[u] # "failed"

(* Thread u has the reply to its acquire of l and has not sent its release *)
(* yet: of what it has left, a release of l comes before any acquire.      *)
InCS(u, l) == \E i \in DOMAIN todo[u] :
    /\ todo[u][i].op = "release" /\ todo[u][i].lid = l
    /\ \A j \in 1 .. i - 1 : todo[u][j].op = "acquire" => todo[u][j].lid # l
    /\ i = 1 => tpc[u] = "run"

(* Mutual exclusion at the callers: between the reply to its acquire and   *)
(* the sending of its release, a thread is alone with its lock.            *)
MutualExclusion == \A u, v \in Testers, l \in LockIds :
                      u # v => ~(InCS(u, l) /\ InCS(v, l))

(* With a dispatch thread for every tester, blocked acquires never keep a  *)
(* release from being served: the tester gets through all its tests, and   *)
(* the demo gets its answer.                                               *)
TestersFinish == <>(test = 6 /\ todo[Demo] = <<>>)
=============================================================================
