------------------------------ MODULE PollMgr ------------------------------
(***************************************************************************)
(* PollMgr over SelectAIO (pollmgr.cc) as one descriptor sees it: the      *)
(* thread that waits in select and calls back, and the operations other    *)
(* threads use to be called back or to be left alone.                      *)
(*                                                                         *)
(* The loop takes m_ only at its top and SelectAIO's m_ only to copy the   *)
(* descriptor sets; it calls back with no lock held.  What the descriptor  *)
(* is ready for and what the callbacks do is left to the module that       *)
(* extends this one.                                                       *)
(***************************************************************************)
EXTENDS Integers, FiniteSets

CONSTANT Removers  \* the threads that may call block_remove_fd

VARIABLES watched,         \* of {"r", "w"}: is fd in rfds_, in wfds_
          pipe,            \* bytes in the pipe that ends a select
          callback,        \* callbacks_[fd] is not NULL
          pending_change_,
          removing,        \* where thread t is in block_remove_fd
          lpc,             \* where the loop is
          fds,             \* the copies trfds and twfds, then readable and writable
          removed          \* history: "no", or how the wait of the block_remove_fd(fd) ended
                           \* that has returned: by the "broadcast", or "spurious"

pollvars == <<watched, pipe, callback, pending_change_, removing, lpc, fds, removed>>

Modes == {"r", "w"}

(* "top": before the test of pending_change_.  "copy": before the copy.    *)
(* "select": in it.  "reads", "writes": before the loop over readable, and *)
(* over writable.  "read_cb", "write_cb": in the callback.  "aborted": an  *)
(* assert in a callback has failed.                                        *)
LoopPCs == {"top", "copy", "select", "reads", "read_cb", "writes", "write_cb", "aborted"}

RemoverPCs == {"no", "waiting", "woken"}

(* The loop's thread has been started, the connection has been registered  *)
(* for reading, and the loop has not looked at the pipe since.             *)
AioInit == /\ watched = {"r"}
           /\ pipe = 1
           /\ fds = {}

PollInit == /\ AioInit
            /\ callback = TRUE
            /\ pending_change_ = FALSE
            /\ removing = [t \in Removers |-> "no"]
            /\ lpc = "top"
            /\ removed = "no"

-----------------------------------------------------------------------------
(* Mutant: select is not interrupted when a descriptor is added.           *)
watch_fdSilent(mode) == /\ watched' = watched \cup {mode}
                        /\ UNCHANGED pipe

watch_fd(mode) == /\ watched' = watched \cup {mode}
                  /\ pipe' = pipe + 1

(* unwatch_fd with flag CB_WRONLY or CB_RDWR: only the latter writes to    *)
(* the pipe.                                                               *)
unwatch_fd(modes) == /\ watched' = watched \ modes
                     /\ pipe' = IF modes = Modes THEN pipe + 1 ELSE pipe

add_callback(mode) == /\ watch_fd(mode)
                      /\ callback' = TRUE
                      /\ UNCHANGED <<pending_change_, removing, removed>>

(* Mutant: callbacks_[fd] is kept when nothing is watched any more.        *)
del_callbackKept(modes) == /\ unwatch_fd(modes)
                           /\ UNCHANGED <<callback, pending_change_, removing, removed>>

del_callback(modes) == /\ unwatch_fd(modes)
                       /\ callback' = (callback /\ watched' # {})
                       /\ UNCHANGED <<pending_change_, removing, removed>>

(* block_remove_fd up to its wait.                                         *)
block_remove_fd(t) == /\ unwatch_fd(Modes)
                      /\ pending_change_' = TRUE
                      /\ removing' = [removing EXCEPT ![t] = "waiting"]
                      /\ UNCHANGED <<callback, lpc, fds, removed>>

(* The end of its wait, its last line and its return.  No loop encloses    *)
(* the wait, so a wakeup that is spurious, of a thread that is still       *)
(* waiting for the broadcast, ends it too.                                 *)
block_remove_fd_return(t) == /\ removing[t] \in {"waiting", "woken"}
                             /\ removing' = [removing EXCEPT ![t] = "no"]
                             /\ callback' = FALSE
                             /\ removed' = IF removing[t] = "woken" THEN "broadcast" ELSE "spurious"
                             /\ UNCHANGED <<watched, pipe, pending_change_, lpc, fds>>

-----------------------------------------------------------------------------
(* The loop's test of pending_change_.                                     *)
loop_top == /\ lpc = "top"
            /\ lpc' = "copy"
            /\ pending_change_' = FALSE
            /\ removing' = IF pending_change_
                           THEN [t \in Removers |-> IF removing[t] = "waiting" THEN "woken"
                                                    ELSE removing[t]]
                           ELSE removing
            /\ UNCHANGED <<watched, pipe, callback, fds, removed>>

(* wait_ready copies the sets.                                             *)
wait_ready_copy == /\ lpc = "copy"
                   /\ lpc' = "select"
                   /\ fds' = watched
                   /\ UNCHANGED <<watched, pipe, callback, pending_change_, removing, removed>>

(* Mutant: the copies are used as they went into select, as they would be  *)
(* if a failed select did not return at once.                              *)
wait_readyUnchecked(ready) == /\ lpc = "select"
                              /\ pipe > 0 \/ fds \cap ready # {}
                              /\ pipe' = IF pipe > 0 THEN pipe - 1 ELSE 0
                              /\ lpc' = IF fds = {} THEN "top" ELSE "reads"
                              /\ UNCHANGED <<fds, watched, callback, pending_change_, removing,
                                             removed>>

(* select returns when the pipe or a watched mode is ready.  A signal that *)
(* ends it early only sends the loop round once more and is left out.      *)
wait_ready(ready) == /\ lpc = "select"
                     /\ pipe > 0 \/ fds \cap ready # {}
                     /\ pipe' = IF pipe > 0 THEN pipe - 1 ELSE 0
                     /\ fds' = fds \cap ready
                     /\ lpc' = IF fds' = {} THEN "top" ELSE "reads"
                     /\ UNCHANGED <<watched, callback, pending_change_, removing, removed>>

(* The tests of callbacks_[fd] before the two calls.                       *)
loop_reads == /\ lpc = "reads"
              /\ lpc' = IF "r" \in fds /\ callback THEN "read_cb" ELSE "writes"
              /\ UNCHANGED <<watched, pipe, callback, pending_change_, removing, fds, removed>>

loop_writes == /\ lpc = "writes"
               /\ lpc' = IF "w" \in fds /\ callback THEN "write_cb" ELSE "top"
               /\ UNCHANGED <<watched, pipe, callback, pending_change_, removing, fds, removed>>

PollStep == loop_top \/ wait_ready_copy \/ loop_reads \/ loop_writes

-----------------------------------------------------------------------------
PollTypeOK == /\ watched \in SUBSET Modes
              /\ pipe \in Nat
              /\ callback \in BOOLEAN
              /\ pending_change_ \in BOOLEAN
              /\ removing \in [Removers -> RemoverPCs]
              /\ lpc \in LoopPCs
              /\ fds \in SUBSET Modes
              /\ removed \in {"no", "broadcast", "spurious"}

(* The loop is in a callback, or has found one in callbacks_ to call.      *)
Calling == lpc \in {"read_cb", "write_cb"}

(* block_remove_fd: "the return guarantees that callbacks related to fd    *)
(* will never be called again".  When it has returned no callback is       *)
(* running or about to run, nor will the loop find one to call, so its     *)
(* caller may delete the connection.                                       *)
NoCallbackAfterRemove == removed # "no" => ~Calling /\ watched = {} /\ ~callback
=============================================================================
