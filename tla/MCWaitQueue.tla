---------------------------- MODULE MCWaitQueue ----------------------------
(* Instance of WaitQueue for TLC. *)
EXTENDS WaitQueue, TLC

CONSTANTS t1, t2, c1, c2

\* waitq_sleep(), as mutex_lock() and condvar_wait() use it
Plain == [kind |-> "never", composable |-> FALSE, interruptible |-> FALSE]
\* sys_waitq_sleep(), what a futex uses: with a timeout, without, nonblocking
FutexTimed == [kind |-> "timed", composable |-> TRUE, interruptible |-> TRUE]
Futex == [kind |-> "never", composable |-> TRUE, interruptible |-> TRUE]
FutexPoll == [kind |-> "poll", composable |-> TRUE, interruptible |-> TRUE]

AllModes == {Plain, FutexTimed, FutexPoll, Futex}
=============================================================================
