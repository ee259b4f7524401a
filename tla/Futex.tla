------------------------------- MODULE Futex -------------------------------
(***************************************************************************)
(* The futex of user space (uspace/lib/c/generic/private/futex.h) on top of*)
(* a kernel wait queue. The counter val lives in user space: as long as    *)
(* there are tokens nobody enters the kernel. A thread that finds none     *)
(* sleeps in the wait queue with SYNCH_FLAGS_FUTEX, and a thread that      *)
(* returns a token somebody may sleep for wakes up one sleeper.            *)
(*                                                                         *)
(* Between the atomic access to val and the system call that belongs to it *)
(* every other thread may run: two counters (val here, balance in the      *)
(* kernel) describe one set of tokens and are never changed together.      *)
(*                                                                         *)
(* The wait queue is its contract. User space neither closes a wait queue  *)
(* nor sees an interrupted sleep: thread_interrupt() is called only by     *)
(* task_kill(), and then the thread does not return to user space.         *)
(***************************************************************************)
EXTENDS Integers, FiniteSets

CONSTANTS
    Threads,
    Tokens,      \* initial value of val: 1 for a lock
    MaxUps       \* bound on tokens produced by threads that hold none

ASSUME FutexAssumption ==
    /\ IsFiniteSet(Threads)
    /\ Tokens \in Nat
    /\ MaxUps \in Nat

VARIABLES
    val,         \* futex->val
    pc,          \* where a thread is in the code of the futex
    ups,         \* tokens produced so far beyond the initial ones
    \* the wait queue:
    balance, waiting, granted, closed, interrupted, mode, rc

wqvars == <<balance, waiting, granted, closed, interrupted, mode, rc>>
vars == <<val, pc, ups, wqvars>>

\* sys_waitq_sleep() as called without and with a deadline. The timeout of
\* an expired deadline is 1, never 0: a failure has to leave its debt.
NoDeadline == [kind |-> "never", composable |-> TRUE, interruptible |-> TRUE]
Deadline == [kind |-> "timed", composable |-> TRUE, interruptible |-> TRUE]

WQ == INSTANCE WaitQueueContract WITH Modes <- {NoDeadline, Deadline}

At(label) == {t \in Threads : pc[t] = label}
Goto(t, label) == pc' = [pc EXCEPT ![t] = label]

Init ==
    /\ val = Tokens
    /\ pc = [t \in Threads |-> "idle"]
    /\ ups = 0
    /\ WQ!Init

-----------------------------------------------------------------------------
(* Down                                                                    *)

\* Wrong variant: takes a token that is not there.
DownOffByOne(t) ==
    /\ pc[t] = "idle"
    /\ val' = val - 1
    /\ Goto(t, IF val >= 0 THEN "holds" ELSE "toSleep")
    /\ UNCHANGED <<ups, wqvars>>

\* The fetch_sub of futex_down_composable(): a token, or off to the kernel.
\* futex_trydown() is a down with an expired deadline, hence no own case.
Down(t) ==
    /\ pc[t] = "idle"
    /\ val' = val - 1
    /\ Goto(t, IF val > 0 THEN "holds" ELSE "toSleep")
    /\ UNCHANGED <<ups, wqvars>>

\* Wrong variant: takes a sleep that has only begun for a success.
SleepAssumed(t) ==
    /\ pc[t] = "toSleep"
    /\ \E m \in {NoDeadline, Deadline} : WQ!Sleep(t, m)
    /\ Goto(t, "holds")
    /\ UNCHANGED <<val, ups>>

\* SYS_WAITQ_SLEEP enters the wait queue: a stored wakeup, or wait.
Sleep(t) ==
    /\ pc[t] = "toSleep"
    /\ \E m \in {NoDeadline, Deadline} : WQ!Sleep(t, m)
    /\ Goto(t, IF t \in WQ!ToSet(waiting') THEN "asleep" ELSE "holds")
    /\ UNCHANGED <<val, ups>>

SleepSucceeds(t) ==
    /\ pc[t] = "asleep"
    /\ WQ!Succeed(t)
    /\ Goto(t, "holds")
    /\ UNCHANGED <<val, ups>>

SleepTimesOut(t) ==
    /\ pc[t] = "asleep"
    /\ WQ!Fail(t)
    /\ Goto(t, "failed")
    /\ UNCHANGED <<val, ups>>

-----------------------------------------------------------------------------
(* Up                                                                      *)

\* Wrong variant: looks at the new value instead of the old one.
UpNewValue(t) ==
    /\ val' = val + 1
    /\ Goto(t, IF val + 1 < 0 THEN "toWake" ELSE "idle")
    /\ UNCHANGED wqvars

\* The fetch_add of futex_up(); a negative counter asks for a wakeup.
Up(t) ==
    /\ val' = val + 1
    /\ Goto(t, IF val < 0 THEN "toWake" ELSE "idle")
    /\ UNCHANGED wqvars

Release(t) == pc[t] = "holds" /\ Up(t) /\ UNCHANGED ups

\* A semaphore is upped by threads that hold nothing, as in _ready_up().
Produce(t) ==
    /\ pc[t] = "idle"
    /\ ups < MaxUps
    /\ ups' = ups + 1
    /\ Up(t)

\* Wrong variant: no futex_up() after the failure.
GiveBackNothing(t) ==
    /\ pc[t] = "failed"
    /\ Goto(t, "idle")
    /\ UNCHANGED <<val, ups, wqvars>>

\* futex_down_timeout() gives the token back that the failed sleep owes.
GiveBack(t) == pc[t] = "failed" /\ Up(t) /\ UNCHANGED ups

\* SYS_WAITQ_WAKEUP
Wakeup(t) ==
    /\ pc[t] = "toWake"
    /\ WQ!WakeOne
    /\ Goto(t, "idle")
    /\ UNCHANGED <<val, ups>>

-----------------------------------------------------------------------------
Step(t) ==
    \/ Sleep(t)
    \/ SleepSucceeds(t)
    \/ SleepTimesOut(t)
    \/ GiveBack(t)
    \/ Wakeup(t)
    \/ Release(t)

Next == \E t \in Threads : Down(t) \/ Produce(t) \/ Step(t)

Spec == Init /\ [][Next]_vars

\* Threads in the futex go on, sleeps with a deadline end, and a thread that
\* holds a token returns it some time. Nobody has to ask for one.
FairSpec == Spec /\ \A t \in Threads : WF_vars(Step(t))

-----------------------------------------------------------------------------
Labels == {"idle", "toSleep", "asleep", "failed", "holds", "toWake"}

\* The type of the state. The waiting threads are those in the system call.
TypeOK ==
    /\ val \in Int
    /\ pc \in [Threads -> Labels]
    /\ ups \in 0..MaxUps
    /\ balance \in Int
    /\ ~closed /\ \A t \in Threads : ~interrupted[t]
    /\ granted \cup WQ!ToSet(waiting) = At("asleep")
    /\ mode \in [Threads -> {WQ!NoMode, NoDeadline, Deadline}]
    /\ rc \in [Threads -> {"none", "EOK", "ETIMEOUT"}]

\* The two counters add up: what the kernel still has to give or to collect,
\* wakeups on their way included, is what the user counter is below zero.
\* futex_down_timeout() calls the composable sleep followed by futex_up()
\* "necessary to prevent breakage due to certain race conditions".
TokensAddUp ==
    balance + Cardinality(At("toWake")) - Cardinality(At("toSleep"))
            - Cardinality(WQ!ToSet(waiting))
        = IF val < 0 THEN val ELSE 0

\* No more threads get past a down than there are tokens: mutual exclusion
\* when the futex is a lock.
NoTokenInvented == Cardinality(At("holds") \cup granted) <= Tokens + ups

\* Once no system call is outstanding, a thread waits in the kernel only if
\* all tokens are taken: no up was swallowed by somebody else's timeout.
NoTokenLost ==
    At("toSleep") \cup At("toWake") \cup At("failed") = {} /\ WQ!ToSet(waiting) # {}
        => Cardinality(At("holds") \cup granted) = Tokens + ups

\* A down that found no token gets one or times out, although other threads
\* go on taking and returning tokens for ever: futex_lock() returns. Only if
\* other threads time out again and again, their debts may annul every
\* wakeup before it reaches the sleeper, even when nobody holds a token.
DownEnds ==
    <>[][\A t \in Threads : ~SleepTimesOut(t)]_vars
        => \A t \in Threads :
               pc[t] \in {"toSleep", "asleep"} ~> pc[t] \in {"holds", "failed"}
=============================================================================
