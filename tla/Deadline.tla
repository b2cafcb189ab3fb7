------------------------------ MODULE Deadline ------------------------------
(***************************************************************************)
(* The timespec helpers of rpc.cc.  A time is a record of seconds and      *)
(* nanoseconds; how many of one unit make another is a constant.           *)
(***************************************************************************)
EXTENDS Integers

CONSTANTS MsPerSec,  \* 1000
          NsPerMs    \* 1000000

ASSUME UnitsAssumption == MsPerSec \in Nat \ {0} /\ NsPerMs \in Nat \ {0}

NsPerSec == MsPerSec * NsPerMs

Total(t) == t.sec * NsPerSec + t.nsec

(* The clock as clock_gettime reports it.                                  *)
clock_gettime(ns) == [sec |-> ns \div NsPerSec, nsec |-> ns % NsPerSec]

(* What pthread_cond_timedwait accepts; otherwise it returns EINVAL.       *)
IsValid(t) == t.nsec < NsPerSec

(* 1, 0 or -1.                                                             *)
cmp_timespec(a, b) == IF a.sec # b.sec THEN IF a.sec > b.sec THEN 1 ELSE -1
                      ELSE IF a.nsec > b.nsec THEN 1 ELSE IF a.nsec < b.nsec THEN -1 ELSE 0

(* Mutant: nanoseconds are not carried into seconds.                       *)
add_timespecNoCarry(a, b) == [sec |-> a.sec + b \div MsPerSec,
                              nsec |-> a.nsec + (b % MsPerSec) * NsPerMs]

(* a plus b milliseconds.  The loop carries while tv_nsec is more than a   *)
(* second, so that it may stay exactly one.                                *)
add_timespec(a, b) ==
    LET ns == a.nsec + (b % MsPerSec) * NsPerMs
        carry == IF ns > NsPerSec THEN (ns - 1) \div NsPerSec ELSE 0
    IN  [sec |-> a.sec + b \div MsPerSec + carry, nsec |-> ns - carry * NsPerSec]
=============================================================================
