-------------------------- MODULE WaitQueueContract --------------------------
(***************************************************************************)
(* What a kernel wait queue promises to its callers (the comments of       *)
(* waitq_wake_one(), waitq_signal(), waitq_wake_all(), waitq_close() and   *)
(* _waitq_sleep_timeout() in kernel/generic/src/synch/waitq.c), with every *)
(* operation one indivisible step: no sleep pad, no lock, no scheduler.    *)
(*                                                                         *)
(* A wakeup is granted to the thread that has waited longest, or stored, or*)
(* annuls a debt; a granted thread returns EOK whatever else happens to it,*)
(* and a composable sleep that fails leaves a debt of one wakeup.          *)
(***************************************************************************)
EXTENDS Integers, SequencesExt

CONSTANTS Threads, Modes

VARIABLES
    balance,      \* stored wakeups, or wakeup debt when negative
    waiting,      \* threads that wait, longest first
    granted,      \* threads that got a wakeup and have not returned
    closed,
    interrupted,
    mode,         \* flags of the sleep in progress
    rc            \* last result of a sleep

vars == <<balance, waiting, granted, closed, interrupted, mode, rc>>

NoMode == [kind |-> "poll", composable |-> FALSE, interruptible |-> FALSE]

Init ==
    /\ balance = 0
    /\ waiting = <<>>
    /\ granted = {}
    /\ closed = FALSE
    /\ interrupted = [t \in Threads |-> FALSE]
    /\ mode = [t \in Threads |-> NoMode]
    /\ rc = [t \in Threads |-> "none"]

Return(t, r) == rc' = [rc EXCEPT ![t] = r]

Debit(m) == balance' = IF m.composable THEN balance - 1 ELSE balance

Sleep(t, m) ==
    /\ t \notin granted \cup ToSet(waiting)
    /\ \/ /\ closed
          /\ Return(t, "EOK")
          /\ UNCHANGED <<balance, waiting, mode>>
       \/ /\ ~closed /\ balance > 0
          /\ Return(t, "EOK")
          /\ balance' = balance - 1
          /\ UNCHANGED <<waiting, mode>>
       \/ /\ ~closed /\ balance <= 0 /\ m.kind = "poll"
          /\ Return(t, "ETIMEOUT")
          /\ Debit(m)
          /\ UNCHANGED <<waiting, mode>>
       \/ /\ ~closed /\ balance <= 0 /\ m.kind # "poll"
          /\ waiting' = Append(waiting, t)
          /\ mode' = [mode EXCEPT ![t] = m]
          /\ UNCHANGED <<balance, rc>>
    /\ UNCHANGED <<granted, closed, interrupted>>

\* A granted wakeup is never lost to a timeout or to an interruption.
Succeed(t) ==
    /\ t \in granted
    /\ granted' = granted \ {t}
    /\ mode' = [mode EXCEPT ![t] = NoMode]
    /\ Return(t, "EOK")
    /\ UNCHANGED <<balance, waiting, closed, interrupted>>

\* A thread may give up only while it still waits, for the reason it reports.
Fail(t) ==
    /\ \E i \in 1..Len(waiting) : waiting[i] = t /\ waiting' = RemoveAt(waiting, i)
    /\ \/ mode[t].kind = "timed" /\ Return(t, "ETIMEOUT")
       \/ mode[t].interruptible /\ interrupted[t] /\ Return(t, "EINTR")
    /\ Debit(mode[t])
    /\ mode' = [mode EXCEPT ![t] = NoMode]
    /\ UNCHANGED <<granted, closed, interrupted>>

GrantFirst ==
    /\ waiting # <<>>
    /\ waiting' = Tail(waiting)
    /\ granted' = granted \cup {Head(waiting)}

WakeOne ==
    /\ ~closed
    /\ \/ /\ balance < 0 \/ waiting = <<>>
          /\ balance' = balance + 1
          /\ UNCHANGED <<waiting, granted>>
       \/ /\ balance >= 0
          /\ GrantFirst
          /\ UNCHANGED balance
    /\ UNCHANGED <<closed, interrupted, mode, rc>>

Signal == GrantFirst /\ UNCHANGED <<balance, closed, interrupted, mode, rc>>

WakeAll(close) ==
    /\ balance' = 0
    /\ waiting' = <<>>
    /\ granted' = granted \cup ToSet(waiting)
    /\ closed' = (closed \/ close)
    /\ UNCHANGED <<interrupted, mode, rc>>

Interrupt(t) ==
    /\ interrupted' = [interrupted EXCEPT ![t] = TRUE]
    /\ UNCHANGED <<balance, waiting, granted, closed, mode, rc>>

Next ==
    \/ \E t \in Threads : \/ \E m \in Modes : Sleep(t, m)
                          \/ Succeed(t)
                          \/ Fail(t)
                          \/ Interrupt(t)
    \/ WakeOne
    \/ Signal
    \/ \E close \in BOOLEAN : WakeAll(close)

Spec == Init /\ [][Next]_vars
=============================================================================
