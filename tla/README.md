# Specifications of the yfs lock service and its RPC layer

TLA+ modules kept beside the C++ sources of the lock service (`lock_server`,
`lock_client`) and of the RPC library it runs on (`rpc/`). TLC checks small
instances of every module, TLAPS proves theorems about the lock server and its
service, the thread pool, connections, the RPC layer and a call's bytes and
deadlines for instances of any size. `PROJECT.json` maps every definition to source
lines and lists the runs, the mutants (each property is violated when one definition is
replaced by a plausibly wrong one), the hazards and the findings.

## 1. Inventory

| Part | State | Operations | Correct when |
|---|---|---|---|
| `lock_server` | `locks` (a `lock_handle` with state, holder, condition variable per lock), `nacquire`, one mutex | `acquire`, `release`, `stat`, run by dispatch threads; `acquire` blocks its thread | a lock has one holder and only the holder frees it; no wakeup is lost; `nacquire` counts the held locks |
| `lock_client`, `lock_tester`, `lock_demo` | the `rpcc` it calls through; the tester's `ct` | `acquire`, `release`, `stat`, each one RPC and an assert that it returned OK; five tests, one after the other | callers are alone between acquire and release; every thread finishes |
| `rpcc` | next xid, `calls_`, `xid_rep_window_`, `chan_`, nonces | `bind`, `call1` (transmit, wait, retransmit on a new connection, give up), `got_pdu`, `update_xid_rep`, `get_refconn`, destructor | a reply goes to its call; `xid_rep` never passes a call that still waits; a call is answered if a connection lasts; a call that gives up does so on time |
| `rpcs` | `reply_window_`, `conns_`, `procs_`, instance nonce, `dispatchpool_` | `got_pdu`, `dispatch`, `checkduplicate_and_update`, `add_reply`, `rpcbind`, destructor (listener, pool, window) | at-most-once execution; replies still needed are kept; references to connections balance |
| `connection`, `tcpsconn` | socket, `dead_`, `refno_`, read and write buffers, waiting senders; the listener's map | `send`, `read_cb`, `write_cb`, `closeconn`, `incref`, `decref`, `process_accept` | PDUs whole and in order; no object is deleted while in use, none is kept for ever |
| `PollMgr`, `SelectAIO` | callbacks and masks per descriptor, pending change | `add_callback`, `del_callback`, `block_remove_fd`, `wait_loop` | no callback after `block_remove_fd` returns |
| `ThrPool`, `fifo` | bounded queue, two condition variables, workers | `addJob`, `takeJob`, `enq`, `deq`, destructor with poison pills | accepted jobs run once; no lost wakeup; the destructor terminates |
| `marshall`, `unmarshall` | a byte buffer and an index | operators for integers and strings, header packing, growth of the buffer | what is decoded is what was encoded, or the call fails; nothing is written outside the buffer |
| timespec helpers | none | `add_timespec`, `cmp_timespec`, `diff_timespec` (unused but for a message) | deadlines neither early nor late, each one the system accepts |
| `slock.h`, `method_thread.h`, `jsl_log`, `gettime`, `make_sockaddr`, main programs | none of interest | scoped mutex, thread start, logging, clock, name lookup, drivers | - |

How they interact. A caller's thread runs `call1`, which packs a request and
sends it on `chan_`. The server's PollMgr thread reads it and calls
`rpcs::got_pdu`, which queues a job in the ThrPool; one of ten dispatch threads
takes it, consults the reply window, runs the handler (for `acquire`, until the
lock is free) and sends the reply. The client's PollMgr thread passes the reply
to `rpcc::got_pdu`, which wakes the caller. The listener thread accepts
connections and collects dead ones. All state is shared between threads and
guarded by mutexes that are dropped and re-taken between the steps.

What is hard here: condition variables with one signal per event and barging;
handlers that occupy pool threads while blocked; retransmission over a new
connection while the old one still delivers; timeouts racing with replies; a
pointer that leaves its critical section; reference counts held by five kinds of
holder; restarts that lose all state; shutdown by poison pill.

## 2. Modules

| Module | Models | Extends / instances |
|---|---|---|
| `AbstractLock` | what a lock service promises | - |
| `LockServer` | `lock_server.cc` | instances `AbstractLock` |
| `LockServerProofs` | theorems about `LockServer` | `LockServer` |
| `LockService` | testers, `lock_client`, a dispatch pool and the lock server | `LockServer` |
| `XidRep` | `update_xid_rep` on the list, and what it does to the set of elements | - |
| `XidWindow` | the life of `xid_rep_window_` | `XidRep` |
| `RpcNet` | connections as `rpcc` and `rpcs` see them: whole PDUs, breaks, `dead_`, `refno_` | - |
| `RpcClient` | `rpcc` | `RpcNet`, `XidRep` |
| `RpcServer` | `rpcs`, the listener | `RpcNet` |
| `Rpc` | one client and one server joined | `RpcClient`, `RpcServer` |
| `PollMgr` | `PollMgr` and `SelectAIO` as one descriptor sees them | - |
| `Connection` | `connection` at one end of a socket, with the callbacks | `PollMgr` |
| `Marshall` | `marshall` and `unmarshall`, byte by byte | - |
| `Deadline` | the timespec helpers | - |
| `RpcCall` | one call from its arguments to its result: `call`, `call_m`, `call1`'s loop on a clock, `reg`'s handlers | `Marshall`, `Deadline` |
| `ThrPool` | `thr_pool.cc` over `fifo.h` | - |
| `Counting` | lemmas for proofs: elements of a sequence and threads of a set, counted; induction over the naturals | - |
| `LockServiceProofs` | theorems about `LockService` | `LockService`, `LockServerProofs` |
| `ThrPoolProofs` | theorems about `ThrPool` | `ThrPool`, `Counting` |
| `ConnectionProofs` | theorems about `Connection` and `PollMgr` | `Connection` |
| `RpcProofs` | theorems about `Rpc`: types, references, deletion, at most once, kept replies, what ok means | `Rpc`, `Counting` |
| `XidWindowProofs` | theorems about `XidWindow` and the list code of `XidRep` | `XidWindow`, `Counting` |
| `RpcCallProofs` | theorems about `RpcCall`: buffers, headers, arguments, results, deadlines | `RpcCall`, `Counting` |
| `MC...` | instances for TLC and their symmetries | the module named |

### Steps and critical sections

A step is a stretch of code between two points where another thread can
interfere with the state it touches.

* `LockServer`. Handlers hold the mutex from entry to return except inside
  `pthread_cond_wait`, so `acquire` is one step up to the grant or the wait, and
  `acquire_resume` one step per wakeup. `Signal` wakes any one waiter;
  `spurious_wakeup` is what POSIX allows. Callers are unconstrained: any client
  may call any handler on any lock.
* `RpcClient`. `call1` (packing, under `m_`), `transmit` (`get_refconn` and
  `send`; nothing between them reads state another thread changes except the
  connection's `dead_`, and a connection that dies there drops the request just
  as one that dies right after), `timeout`, `final_timeout`, `leave` (the section
  after the loop), `bind_finish`, `client_got_pdu`. Deadlines are chance: any
  wait may time out. A timeout that is not the last and finds its connection
  alive changes no state and is not a step.
  `delete_client` is `~rpcc`, which comes when no thread uses the object any more.
* `RpcServer`. `dispatch` is cut where it drops a mutex: `dispatch` (decoding
  and the instance test), `save_conn`, `checkduplicate_and_update` (with the
  switch on its result), `exec` (handler and `add_reply`: the entry cannot become
  visible to others before `add_reply`, so the handler's execution is placed at
  its end), `send` (choice of connection and the write). When a buffer a worker
  is about to send was freed by another worker, `send` writes any bytes, seen as a
  reply: the memory may by then be another reply's, or hold a request that `readpdu`
  read into it, whose xid and procedure stand where a reply has its xid and its
  status. `reply_window_` is a function,
  since the code always searches the whole list. `~rpcs` is `delete_listener` (the
  accept thread ends, unaccepted connections go with the listening socket), one
  `close_conn` for each connection the listener holds, `delete_pool`, and
  `free_reply_window` when the workers have run every queued job; PollMgr's thread
  and the workers go on meanwhile. That a worker in the middle of a partial write
  is never joined (section 6) is below this level of detail.
* `RpcNet` is what `Connection` amounts to for the layer above: whole PDUs, in
  order, until an end is dead. A `Break` may happen at any time; each end notices by itself; unread
  PDUs are lost when it does, later writes vanish. The lossy mode of
  `connection::send`, which shuts the socket down, is such a break.
* `PollMgr`. The loop is cut where it holds no mutex: `loop_top` (the test of
  `pending_change_`), `wait_ready_copy`, `wait_ready` (select returns),
  `loop_reads` and `loop_writes` (the tests of `callbacks_[fd]`), and the callback
  itself. Readiness is what it was when select returned, so a callback may come
  when the descriptor has changed since. `block_remove_fd` is cut at its wait,
  which is in no loop: it ends by the broadcast of `loop_top` or by itself, and
  `removed` remembers by which.
* `Connection`. Methods hold `m_` except in their waits and around
  `block_remove_fd`. `send` is one step up to the first wait (its five outcomes
  are the disjuncts of `SendBody`), `send_resume` and `send_complete` follow a
  wakeup, `remove` and `remove_return` are the call of `block_remove_fd` from
  `send` or `closeconn`; `write_cb` and `read_cb` are steps of the loop's thread.
  A PDU has `Size` units, the first of which is the header. At an end of file
  inside a PDU `readpdu` looks at an `errno` that some earlier call on the PollMgr
  thread left, perhaps for another connection: both values are tried. A reset is
  like an end of file; that the first write after the other end has closed may
  still succeed is left out.
* `RpcCall`. `Rpc` has many calls, breaks and copies, and neither bytes nor time;
  `RpcCall` has one call with both. `marshall_arg` is one `<<` of `call`, `call1`
  packs the header, `loop_top`, `set_deadline`, `timed_out` and `woken` are the
  pieces of its loop, `call_m` reads the result. `dispatch` decodes the request,
  runs the handler once and saves its reply for copies; `got_pdu` takes the reply
  in. A PDU may be lost with its connection at any time. Time passes only while
  the caller waits: connecting and the steps themselves take none, and a waiting
  thread runs at most `Late` after its deadline. A deadline that
  `pthread_cond_timedwait` does not accept makes the loop around it spin with
  `ca.m` held, so that `got_pdu` cannot come in either.
* `Marshall`. Operators on buffers. `rawbyte` writes a few bytes at once, with the
  at most one doubling they can cause; the capacity is kept apart from the bytes,
  so that `BuffersHold` can compare them. Bytes `malloc` left are `Junk`, which no
  byte is equal to.
* `XidRep`. `RpcClient` uses `UpdateSet`, the set-level effect; the property
  `ListIsSet` of `XidWindow` justifies it against the list code, including its
  repeated elements.
* `ThrPool`. One step per stretch of `enq` and `deq` with the queue's mutex
  held. The destructor starts only when no thread is in `addJob`, as its comment
  requires.
* `LockService`. The tester's `main` starts the threads of each test when those of
  the last one are done; what a thread has left is a sequence of steps, each a call
  of `lock_client` or a check. `lock_demo` asks for a `stat` beside them. Requests
  are queued for dispatch threads; here delivery is exactly once, and `Rpc` says
  when that holds.

## 3. Runs

| Run | Instance | Shows |
|---|---|---|
| `lock_server` | 3 threads, 2 clients, 2 locks | `nacquire` equals the number of held locks; a free lock with a waiter has a woken thread; a free lock that is wanted gets an owner; only a holder's release frees; `LockServer` implements `AbstractLock` |
| `lock_service` | the 5 tests with 3 threads, 2 locks, 2 rounds; `lock_demo` | no check of the tester and no assert of `lock_client` fails; mutual exclusion at the callers; all programs finish |
| `xid_window` | 5 xids, each reported up to twice | the front is exactly the last contiguous finished xid and the rest the finished ones after it; list code = set operation |
| `rpc` | 2 callers, 2 workers, 2 connections, xids to 3, after bind | see below |
| `rpc_restart` | 1 caller, 1 worker, 2 connections, 2 server instances, from the start, with deletion of client and server | bind and a call over breaks, a crash or an orderly shutdown; a call meant for the old instance is not run by the new one; no upcall reaches a deleted `rpcs` or `rpcc`; each call is answered if one connection lasts |
| `rpc_call` | 32 calls, started at each of the 8 moments of a second | see below |
| `thr_pool` | 3 workers, 2 adders, 4 jobs, capacity 2, refusing and blocking | jobs run once; no job behind a pill; no lost wakeup in `enq` or `deq`; the destructor terminates, accepted jobs run |
| `connection` | 2 senders, 3 sends, a closer, PDUs of 2 units, a socket buffer of 2, 3 units from the other end | see below |
| `rpc_at_most_once`, `rpc_freed_reply`, `rpc_stale_conn`, `conn_remove` | the smallest instance that shows it | the findings of section 6 |

The run `rpc` checks that

* `UnansweredRunsAtMostOnce`: until a call's reply reaches its client the
  handler has run at most once, whatever was retransmitted where;
* `NeededReplyKept`: trimming the window never removes the entry of a call that
  may still be retransmitted (until `~rpcs` frees them all);
* `OkMeansExecuted`: a successful call's handler did run;
* `ReferencesBalance`: `refno_` is exactly the number of holders (calls, `chan_`,
  jobs, workers, `conns_`, the listener): no reference is uncounted
  (`NoUncountedReference`, which `rpc_restart` checks alone) and none is leaked
  (`NoLeakedReference`), outside the path that refuses a request for an old
  instance. That path returns without `decref` (`rpc.cc:433`), the model does the
  same, and `NoLeakedReference` fails as soon as `MaxInst = 2`.

The run `rpc_call` checks that

* `BuffersHold`: nothing is written behind the end of the buffer, whatever sizes
  follow each other;
* `ArgumentsArrive`: a handler runs only on the caller's header and on bytes that
  are exactly those of its arguments, and does run, on the caller's values, when
  the types agree;
* `ResultArrives`: success means the handler's status and, byte for byte, its
  result; a reply to a caller with the right types is never turned into a failure;
* `RpcTestsPass`: the asserts of `simple_tests`, `client1` and `client3` hold for
  every call that does not time out;
* `TimeoutInTime`: `timeout_failure` comes neither before the
  caller's timeout nor later than its thread is late, however the waits were
  doubled and cut off, over every crossing of a second;
* `CallReturns`: every call returns, whatever is lost, except on a deadline of
  exactly 10^9 nanoseconds, which `add_timespec` (`rpc.cc:892`) lets through and the
  system refuses. That can happen only to timeouts that are no whole number of
  seconds; `to_min`, `to_max` and every timeout in the repository are whole.

The run `connection` checks that

* `PdusAreWhole`: the units of one PDU are never interrupted by another's;
* `SenderHasCallback`: a sender that waits for the rest of its PDU is registered
  for writing, although `write_cb` unregisters on its own account;
* `WaitersHaveWriter`: senders in the queue wait for one that has the connection,
  also when it has died meanwhile. It does not say that this one will go on: after
  `closeconn` both may sleep (section 6);
* `HeaderIsThere`: the assert in `readpdu` that the header's read finds something;
* `DeadIsCalledOnlyInRemoval`: what is left of the promise of `block_remove_fd`
  (section 6, finding 4). A connection that PollMgr's own thread finds dead is not
  called back again; one that `closeconn` or a failed send marks dead is called back
  only until the broadcast answers its removal, or where the wait for the broadcast
  ended without it;
* `SendReturns`: every send returns unless this end closes the connection;
* `CleanBreakIsNoticed`: a break between two PDUs is found by `read_cb`.

### Bounds

* Three threads on a lock server allow a waiter, a woken thread and a newcomer at
  once; two locks allow interference between handles, two clients a release by a
  stranger. One lock is enough for `LockService` because handles are independent,
  which `LockServer` checks, and the second lock is for test 1. Three threads cover,
  in test 5, threads that share a client and threads that do not; two rounds let a
  thread come back to a lock others wait for. The dispatch pool has a thread
  for every tester, as the comment at `lock_tester.cc:12` requires; with fewer,
  blocked acquires starve the release and `TestersFinish` fails.
* Two connections allow one break with a retransmission while the old connection
  still delivers; two workers allow a duplicate to be looked up while the
  original runs. `MaxXid = 3` after bind gives two calls in flight, or one call
  whose `xid_rep` confirms the other. `rpc_at_most_once` and `rpc_freed_reply`
  need three calls after bind and have `MaxXid = 4`.
* Runs with `BoundSpec` start in `BoundInit`, the state after an undisturbed bind:
  reachable from `Init`, and it saves the states of the bind. `rpc_restart` starts
  in `Init` and has everything from the first bind on.
* `MaxReports = 2` is the number of times the code itself reports an xid (the
  reply and the end of `call1`); a duplicate reply adds more of the same.
* A socket buffer of one PDU takes a send whole, in part or not at all, depending on
  what the other end has read. Three sends fill it, leave a write callback
  registered and find it still registered; two senders give one in the write and
  one in the queue; three units in are a PDU and a half.
* In `rpc_call` a byte has 4 values, so an `int` has 256 and signs, carries and
  truncations show up with small numbers; widths are the real ones. `DefaultSz = 30`
  leaves 6 bytes after the header: one integer fits, two do not, and strings are
  shorter than, equal to and longer than the capacity. A second has 4 milliseconds
  of 2 nanoseconds, and a call may start at any of the 8 nanoseconds, so that every
  alignment of the deadlines with the second occurs; timeouts go from 0 to more than
  three seconds, which takes three waits. `MaxNow` is beyond the last deadline.
* The pool's real capacity is 100 per thread; 2 makes it fill up with four jobs.

Deadlock checking is off where a system may really stop: all bounded resources
used, the pool deleted, the testers done. `LockServer` runs for ever and is
checked for deadlock.

### Fairness

* `LockServer`: a woken thread is scheduled and gets the mutex, which no handler
  keeps while it blocks.
* `LockService`: the programs' threads and the dispatch threads are scheduled. Weak fairness is
  enough since each thread holds its lock for finitely many steps and the number
  of rounds is finite.
* `Rpc`: threads are scheduled, PollMgr serves readable sockets, the listener
  accepts, handlers end, an end hears of a broken connection in the end, and
  connecting, when tried again and again, succeeds while connections are left
  (the one strong fairness, and an assumption about the network: the server can
  be reached). No call, break, restart or final deadline is forced, so a call is
  not answered merely by giving up. Who starts to delete a server goes on to the end
  and starts another one. That a handler ends is a real assumption:
  `acquire` may block, see `LockService`. `CallsAreAnswered` assumes further that
  one connection is never broken; with one worker it holds, with two it does not
  (`rpc_stale_conn`).
* `RpcCall`: the caller's thread is scheduled and time passes. The network and the
  server owe nothing.
* `Connection`: threads are scheduled (a spurious wakeup of `block_remove_fd` is
  possible and never forced), the other end reads what it is sent, and
  got_pdu of a PDU that is offered again and again succeeds (strong fairness: the
  workers empty the job queue). No break, close or send is forced. The assumption
  of `Rpc` that an end hears of a break is `CleanBreakIsNoticed` here; a break
  inside a PDU may go unnoticed when `errno` is stale (`connection.cc:267`).
* `ThrPool`: workers and adders are scheduled, jobs return, the destructor goes
  on once it has started; nobody is forced to start it.

## 4. What is proved

Every theorem but `ServiceUsesServer`, `HeadersSurvive` and `OneWorkerHoldsResponses`
states a property that a passing run checks on a small instance (two of
`RpcCallProofs` and four of `RpcProofs` under a further hypothesis). All hold for every value of the constants that the named
assumptions allow. The theorems
about `Rpc` start in `Init`; `BoundInit`, where `rpc` starts, is one of the states
reached from there.

### The lock server: `LockServerProofs`

For any sets of threads and clients and any finite set of locks:

* `TypeCorrect`: `Spec => []TypeOK`;
* `WakeupNotLost`: `Spec => []NoLostWakeup`;
* `NacquireIsHeldCount`: `Spec => []NacquireCountsHeld`;
* `FreedOnlyByOwner`: `Spec => FreedByItsOwner`;
* `Refinement`: `Spec => ImplementsAbstractLock`.

Assumptions: `NoClt` is no client (a nonce is the value of `random()`, never
negative, and `-1` marks a free lock), `NoLid` is no lock, and the set of locks is
finite (a lock id has 64 bits; needed only to count held locks).

Argument. The inductive invariant `IInv` is `TypeOK` with two facts that the
properties do not say and every proof needs: `LockedIffOwned` (state and holder of
a handle agree, so that the test of the state in `acquire` and the test of the
holder in `release` speak of the same thing) and `BlockedHasArgs` (a blocked
thread still knows its client and lock, so that its later grant is for them).
`NextIInv` has one step per handler. `NoLostWakeup` and `NacquireCountsHeld` are
inductive relative to `IInv`; the latter rests on `LockAddsOne` and
`FreeRemovesOne`, about cardinalities. The refinement maps a lock's owner to its
handle's `clt` and a blocked thread to the acquire it serves; `acquire` is `Take`
or `Block`, `acquire_resume` is `Grant` or a stutter, `release` is `Free` or a
stutter, everything else stutters.

### The lock service: `LockServiceProofs`

For any number of tester threads from two up, any number of rounds, any dispatch
pool, and any assignment of clients to threads (all may share one):

* `ServiceUsesServer`: `TestSpec => Spec`, so the theorems above hold in the service;
* `TestersAreAlone`: `TestSpec => []MutualExclusion`;
* `NoCheckFails`: `TestSpec => []ChecksHold`.

Assumptions: those above, `nt >= 2` ("must be >= 2", `lock_tester.cc:11`), `a # b`
(`lock_tester.cc:16-17`: with `a = b` test 1 would wait for itself), and `Split` at
most `nt`.

Argument. The server knows clients, not threads: when threads share a client it
would let one free the other's lock. What excludes that is what the programs do, so
the proof reads off a program's place in its steps which locks its thread has.
`Owes(s, i, l)` says that behind place `i` a release of `l` comes before any acquire
of it, `Counts` the same of the two checks. Each program is `Paired` (what is opened
is closed before it is opened again, and nothing else is closed) and, except
test 1, `Nested` (the count is up only while the lock is held). `RoundsAreGood` shows
it of loops of any length from the place of a step in its round, `Test1IsGood` of
test 1's sixteen steps; both facts survive `Tail`, which is all a thread does to its
program. The inductive invariant `TestInv` has five more parts. A request is in the
queue or with one dispatch thread, and is its caller's current step (`QueuedOnce`,
`ServedOnce`). A thread that owns a lock, counting from the handler's return and not
from the reply, has it on the server under its client, and is its only owner
(`OwnersHold`). `ct` is 1 where some thread is counted, else 0 (`CountIsRight`). And
nothing has failed. A grant needs a free lock, which by `OwnersHold` nobody owns; a
release comes from the owner, so its test passes and it takes the lock from nobody
else. A count of 0 before `check_grant` follows from `Nested` and the single owner,
or in test 1, where the count goes down after the release, from its being the only
thread.

### The thread pool: `ThrPoolProofs`

For any jobs, any capacity and any finite sets of workers and adders, in refusing
and in blocking mode: `TypeCorrect`, `PillsGoLast` (`NoJobBehindPill`),
`WakeupNotLost` (`NoLostWakeup`), `NoJobLost` (`JobsConserved`).

Argument. `IInv` says where each thread can be while the destructor runs (it is
alone with the workers then, so nothing comes behind a pill) and that a thread's
hand holds a job exactly where the code has one. `NoLostWakeup` compares two
counts, elements of the queue (or free places) and threads awake: each step changes
either by at most one, and one signal per element pays for it. `JobsConserved` adds
up, for each job, its occurrences in the queue and the threads that hold it; both
sums come from `Counting`, which says how `Append`, `Tail` and one changed thread
move them.

### Connections: `ConnectionProofs`

For any senders, any sizes of PDU and socket buffer: `TypeCorrect`, `RemoveIsFinal`
(`DeadIsCalledOnlyInRemoval`), `WirePdusAreWhole` (`PdusAreWhole`),
`SleepingSenderHasCallback`, `SleepingSenderHasWriter` and `HeaderAssertHolds`.

Argument. `IInv` first has the part about `PollMgr` (`RemoveInv`): who is inside
`block_remove_fd` and how far it has come; that once the broadcast has answered it the
loop is in no callback (`RemovalHolds`), about which a return without the broadcast
says nothing; and that a connection which is dead and which no thread removes was
found dead by the loop itself and has no callback (`LeftAlone`); then the part about the writer: the thread that owns `wpdu_` is the
only one whose PDU is partly on the wire, and while it sleeps it is registered for
writing. `WireAgrees` ties the last PDU on the wire to the units the writer has
counted, which makes `PdusAreWhole` inductive. `ReadableStays` says that a
descriptor select found readable stays so until `read_cb`, which is why the assert
in `readpdu` holds.

### The RPC layer: `RpcProofs`

For any finite sets of threads and workers (a process has finitely many; needed to
count holders), any connections, and any bounds on xids and server instances, over
every break, loss, retransmission, restart and deletion:

* `TypeCorrect`: `Spec => []TypeOK`;
* `NoHolderIsUncounted`: `Spec => []NoUncountedReference`;
* `ReferencesAreExact`: `MaxInst = 1 => (Spec => []ReferencesBalance)`. The
  hypothesis is needed: with a second instance `rpc.cc:433` leaks (section 3);
* `DeletedGetsNoUpcall`: `Spec => []NoUpcallAfterDelete`;
* `RunsAtMostOnceUntilAnswered`: `Spec /\ []ResponseStillHeld =>
  []UnansweredRunsAtMostOnce`;
* `NeededReplyIsKept`: `Spec /\ []ResponseStillHeld => []NeededReplyKept`;
* `OkIsTrue`: `Spec /\ []ResponseStillHeld => []OkMeansExecuted`;
* `OneWorkerHoldsResponses`: `Spec => []ResponseStillHeld` for at most one dispatch
  thread.

The hypothesis `ResponseStillHeld` of three of them says that no reply buffer is freed
between its lookup and its sending. It is what finding 2 refutes, and without it the
three are not true of the code: the freed memory may hold the bytes of another call's
request, which the client takes for the `ok` of a call that has not run, or of an xid
not yet handed out, at which the client's window moves too far. Runs `rpc` and
`rpc_restart` check the three without it, on instances where no reply is freed in
that window.

References. `RefInv` is `TypeOK`, the two counts (the client's is exact, the
server's at least the number of holders and exact with one instance) and what makes
them inductive: a connection nobody has made, or accepted, has no holder; a worker
in `dispatch` has its connection and `conns_` has one from `save_conn` on; the
listener holds every live connection, so `~tcpsconn` closes it; `chan_` is replaced
only when it is dead, so `~rpcc` leaves no live one behind. One lemma per action
shows that it keeps `RefInv`.

At most once. `OnceInv` says of every request, wherever a copy of it is (packed, on
a wire, queued, in a worker), that its `xid_rep` is below its xid and not above the
front of `xid_rep_window_` now, and that its nonce is no instance of the future
(`RequestsHonest`); that copies of a request that is still wanted are equal
(`SameXid`); that the front of the window is below every unanswered xid
(`WindowBelow`, from `UpdateSetKeeps`: `update_xid_rep` never moves the front up to
an xid that has not finished); and, for every caller that waits (`OnceFor`): its
handler has run once at most, at most one worker is in it and then it has not run,
and from the moment a worker takes it up its entry is in `reply_window_` as long as
the instance it was packed for is there. The heart is `CheckOnce`: a lookup trims
only below an `xid_rep` that is below every waiting xid, so it finds the entry of a
call that runs or has run; `RestartOnce` uses that a new instance's nonce is none
that was packed before. The same invariant does not give the comment's "at most
once" without the condition that the reply has not arrived, which is false (section
6, finding 1): after the reply the front may pass the xid and the entry go, with a
copy still on its way. `AnswersHonest` and `ServerHonest` give `OkMeansExecuted`;
`PdusHonest`, that the replies workers send only say what is true, is where
`ResponseStillHeld` is used. `RefInv` and `OnceInv` were
checked with TLC on the instance of `rpc_restart` before they were proved.

### The client's window: `XidWindowProofs`

For any number of xids and of reports of each, in any order:

* `WindowExact`: `Spec => []WindowIsExact`;
* `ListImplementsSet`: `Spec => ListIsSet`, so that `UpdateSet`, which `RpcClient` and
  the theorems about `Rpc` use, is what the code's list does.

Argument. `compress` is a loop over a list of any length, modelled by a recursive
function, so the proofs need induction over the naturals. `Counting` derives it from
the library's `WFMin` (a well-founded relation has minimal elements): `LeastNat`, and
from it `NatIsInductive`, which speaks of a set rather than of a predicate, because
the provers cannot instantiate an operator parameter. `FrontExists` shows by induction
that the recursion of `Compress` has a solution, `FrontIs` that the function it
defines satisfies its equation. `Walked` is the loop's invariant: no gap up to the
front, its successor not among the elements passed, every popped element smaller;
`PopWhileWalks` is one turn of the loop (the front stays, or everything from the front
to the iterator goes, repeated elements included) and `FrontWalks` the whole of it.
`CompressKeeps` and `InsertKeeps` then say what is left of the list and what an
insertion adds, and `UpdateListIsUpdateSet` joins them. `WindowInv` is inductive: the
list is sorted and not empty, its front is contiguous, and its elements are the front
and the finished xids past it.

### One call: `RpcCallProofs`

For any even number of values of a byte, any starting capacity, any arguments that
`<<` is defined for, any xid and nonces, any timeout, units of time, `to_min` and
start of the call:

* `MarshallHolds`: `Spec => []BuffersHold`;
* `HeadersSurvive`: `Spec => []HeadersArrive`, the server decodes the header that the
  caller packed and the caller the status that the server packed;
* `TimeoutsAreInTime`: `Spec => []TimeoutInTime`;
* `ArgumentsDoArrive`: `Spec => [](InBuffer => ArgumentsArrive)`;
* `ResultsArrive`: `Spec => [](InBuffer => ResultArrives)`;
* `RpcTestsDoPass`: `Spec => []RpcTestsPass`.

`InBuffer` excludes the wrap at `rpc.cc:816` and nothing else. It is about one handler,
22, whose first argument is a string that another argument follows, called with types
other than strings: it then asks that no string it was given is longer than the whole
request. Without it a number near 2^32, read as the length of the first string, moves
the index back and the handler may run on bytes nobody sent. For every other handler,
and for every caller that uses the handler's types, `InBuffer` holds by its form; TLC
finds it true in all states of the run `rpc_call`, whose calls include one to 22 with
other types.

Assumptions: the clock starts at a second or later (`tv_sec = 0` is `call1`'s mark
that no deadline is left), handlers return no negative status (`call1` would take it
for a failure of its own), header fields and arguments are values of their C++ types,
`r` has a type that `>>` is defined for, the server's nonce is a value of `random()`,
the size of a request is an `int`, timeouts are not negative, `DEFAULT_RPC_SZ` has room
for a header.

Argument. The arithmetic comes first: `DivUnique` (quotient and remainder are the only
ones), `Spelled` (the four bytes of an integer spell it, up to multiples of
`Power[4]`), `IntsReturn` (`AsSigned` gives an `int` its sign back). `GetFour`, `OneArg`
and `TwoArgs` unroll the loops of the reading side that run over bounded ranges: the
function that each computes is given explicitly, and those need no induction.
`Written` says that a buffer is filled exactly up to `_ind`, `Fits` that this is within
`_capa`; `RawByteWrites`, `RawBytesWrites`, `PutWrites` and `PackWrites` show that each
way of writing keeps both. `Fits` asks in addition that `_capa` is at least a header:
without it a doubling need not be enough for the bytes of an integer. `MarshalInv` puts
this together with where the call is: a request on its way has the call's own header
(`Sent`); what the server saved fits, was made for that header and carries a status that
is not `timeout_failure`, and a caller that is done has that status (`Served`). The
result of a handler can be marshalled whatever bytes it was given (`ResultIsValue`), a
string that was read past the end of the buffer included.

`AddIsExact` and `CmpOrders` say that `add_timespec` adds exactly, with at most `NsPerSec`
nanoseconds left over, and that `cmp_timespec` orders such times, even the ones that
are not normalised. `TimeInv` follows `finaldeadline`: it is the call's start plus its
timeout (`Due`) until a wait uses it, then its seconds are 0 and the wait's own deadline
is `Due`; every other wait ends at or before `Due`. `Served` is needed to exclude that a
reply carries the value of `timeout_failure`.

Arguments and results are followed byte by byte. `NumberSpells`, `BitsReturn` and
`SignedReturn` extend the arithmetic to integers of any width: bytes spell exactly one
number, and a number is the one its bytes spell. `Lies(b, q, s)` says that the bytes `s`
stand in `b` from place `q` on. `ReadValue` is the round trip: where the bytes of a value
stand, `>>` of its type reads that value and leaves the index behind it. `ReadsValue` is
the converse, for any bytes and any type: `>>` fails, or reads the one value whose bytes
stand there, or is a string whose length made the sum wrap. `Fold` is the buffer after
any number of `<<`; `FoldSteps` and `BytesAreFold`, by the induction of `Counting`, say
that it grows by the bytes of each value and that the rest of it stays, as it does when
the header is packed (`KeepsRest`). From these, `ArgsArrive1` and `ArgsArrive2` show
what a handler of one or two arguments gets from a caller with its types, and
`ArgsRead1` and `ArgsRead2` that any arguments read to exactly the end of the request
marshal to the same bytes (`okdone` is what makes that so). `ResultFits` says that what
a handler computes from them fits a reply whose length does not wrap; it needs the size
of a request to be an `int`. `ReplyLaid` and `ReplyRead` are the way back.

The inductive invariant `CallInv` says where the values are: the arguments marshalled
so far (`ArgsSoFar`), all of them behind the header of what is sent (`ArgsSent`); what
the server has is what `Dispatched` makes of those bytes (`AsDispatched`), what the
caller took in is its reply (`ReplyTaken`), and what it returns is what `call_m` makes
of that (`AsReturned`). The properties follow from it and the round trip. In
`RpcTestsDoPass` the calls with right types have `InBuffer` by its form, and the calls
that must fail by running no handler: `TooFew` (the second string starts at the end of
the request) and `TooMany` (an `int` ends before it).

## 5. What is only model-checked

* Liveness (`FreeLockIsTaken`, `TestersFinish`, `CallsAreAnswered`, `CallReturns`,
  `DtorTerminates`, `AcceptedJobsRun`, `SendReturns`, `CleanBreakIsNoticed`):
  fairness is out of the prover's reach.
* `ArgumentsArrive` and `ResultArrives` where `InBuffer` fails: no call of the run gets
  there, and they need not hold there (section 7).

* `UnansweredRunsAtMostOnce`, `NeededReplyKept` and `OkMeansExecuted` without the
  hypothesis `ResponseStillHeld`: checked where it holds, and not true where it fails.

Every other invariant and action property of a passing run is stated by a theorem.

## 6. Findings

Each is a run that TLC refutes, with the comment it contradicts quoted in
`PROJECT.json`.

1. `rpc_at_most_once`. A copy of a request that was delayed on an old connection
   and arrives after a later request's `xid_rep` has trimmed its entry is taken
   for new and runs a second time: `checkduplicate_and_update` compares the xid
   with the `xid_rep` in the same request only, and remembers no other.
2. `rpc_freed_reply`. The pointer to a saved reply is returned from the critical
   section and sent after another worker may have freed it.
3. `rpc_stale_conn`. A reply goes to the connection the request came on unless the
   server already knows that it is dead. If it does not, and the retransmission
   was dropped as in progress, the client waits on its live new connection and
   does not send again; the call ends only by its deadline.
4. `conn_remove`. `block_remove_fd` waits once for the poll loop's broadcast, in no
   loop. A spurious wakeup lets it return while the loop is in a callback on the
   descriptor or has found one to call, although its comment guarantees that no
   callback will be called again, and its caller may go on to delete the connection.

Five more were met and have no run. `write_cb` asserts that the connection is not
dead (`connection.cc:155`), but the loop may be about to call it when `closeconn`, or a
send that fails, sets `dead_`: the process ends, as the loop does in the model
(`lpc = "aborted"`); `read_cb` returns in the same situation. `DeadIsCalledOnlyInRemoval`
says when this can happen. `closeconn` (`connection.cc:67`) signals no
condition variable and removes the descriptor, so a sender in the middle of a
partial write is never woken, and `~rpcs` never joins the dispatch thread it runs
on; `SendReturns` excepts these sends. `rpc.cc:433` keeps a reference (above), and
`~rpcs` drops none of those in `conns_`. At `rpc.cc:514`, for a client with nonce 0,
`conns_` has no connection and `c->incref()` is called on NULL when the request's own
connection has died. `add_timespec` may return 10^9 nanoseconds (above).

## 7. Not modelled

`updatestat` (counters for a log line), malformed headers, the failing bind of
`lock_client` (a message), `waitDone` (declared, not defined), `EPollAIO` (never
created), the marshalling of vectors and maps (no code uses it), logging, the clock
wrapper for macOS, address parsing, thread-start templates, `diff_timespec` (for a
message of `rpctest` only), and of the main programs options, memory accounting and
thread creation. `ScopedLock` appears as the extent of a step. In `RpcServer` the
job queue never refuses a job and there is one client, which retransmits (no client
in the repository is made with `retrans` false). In `Marshall` a string length for
which `_ind + n` wraps (`rpc.cc:816`) reads `Junk` past the end of the buffer, where the
program reads memory or ends; no call of the run has one. `handle_bigrep` with a negative length throws in the
program; in `RpcCall` it returns an empty string, and no call of the run asks for it. In
`PollMgr` there is one descriptor, so `highfds_` does not appear. `0x7004`, the
number of `stat`, is 74 in `RpcCall`, to fit an `int` of four small bytes.

## 8. Plan

In this order; everything above is done.

1. The lock service over `Rpc` rather than over perfect delivery: what a repeated
   `acquire` or `release` does; two clients on one `rpcs`.
