------------------------------ MODULE WaitQueue ------------------------------
(***************************************************************************)
(* The kernel wait queue (kernel/generic/src/synch/waitq.c) together with  *)
(* the sleep pad it is built on: thread_wait_start(), thread_wait_finish() *)
(* and thread_wakeup() of proc/thread.c, the Sleeping case of              *)
(* cleanup_after_thread() in proc/scheduler.c, and the per-CPU timeouts of *)
(* time/timeout.c and time/clock.c.                                        *)
(*                                                                         *)
(* One wait queue; Threads are the threads that may sleep in it, Contexts  *)
(* are the other execution contexts of the kernel (threads on other CPUs,  *)
(* interrupt handlers, the clock interrupt) that wake them up.  A step is  *)
(* one access to state another context can see while it is not protected   *)
(* by the wait queue lock: the atomic exchanges of the sleep pad, the read *)
(* of `interrupted', the context switch, the insertion in a run queue.     *)
(***************************************************************************)
EXTENDS Integers, Sequences

CONSTANTS
    Threads,    \* threads that sleep in the wait queue
    Contexts,   \* contexts that perform wakeups
    NoOne,      \* "no lock holder", "no target"
    Modes,      \* flavours of sleep the callers ask for
    MaxOps      \* how many operations are started in a behaviour (a bound)

\* usec and SYNCH_FLAGS_NON_BLOCKING together give three kinds of sleep:
\* "never" has no deadline, "timed" has one, "poll" does not block at all.
Kinds == {"never", "timed", "poll"}

\* A call's flags: SYNCH_FLAGS_FUTEX is `composable' in the code.
ModeType == [kind : Kinds, composable : BOOLEAN, interruptible : BOOLEAN]

\* The arguments of a thread that is not in a sleep.
NoMode == [kind |-> "poll", composable |-> FALSE, interruptible |-> FALSE]

ASSUME ConstantsAssumption ==
    /\ NoOne \notin Threads
    /\ NoOne \notin Contexts
    /\ Threads \cap Contexts = {}
    /\ Modes \subseteq ModeType
    /\ MaxOps \in Nat

VARIABLES
    \* waitq_t
    lock,            \* holder of wq->lock
    wakeup_balance,  \* stored wakeups, or wakeup debt when negative
    sleepers,        \* FIFO list of sleeping threads
    closed,
    \* thread_t
    pc,              \* where the thread is in waitq_sleep_timeout_unsafe()
    mode,            \* arguments of the sleep in progress
    sleep_state,     \* the sleep pad
    interrupted,
    state,           \* thread state as the scheduler knows it
    rq,              \* number of run queue entries of the thread
    timeout,         \* the timeout_t in the frame of thread_wait_finish()
    timed_out,       \* what thread_wait_finish() reported
    rc,              \* last value returned by the sleep
    \* waking contexts
    cpc,             \* where the context is
    op,              \* which operation it performs
    target,          \* the thread it is waking up
    budget           \* operations that may still be started

waitq  == <<lock, wakeup_balance, sleepers, closed>>
thread == <<pc, mode, sleep_state, interrupted, state, rq, timeout, timed_out, rc>>
waker  == <<cpc, op, target>>
vars   == <<lock, wakeup_balance, sleepers, closed, pc, mode, sleep_state,
            interrupted, state, rq, timeout, timed_out, rc, cpc, op, target,
            budget>>

PCs == {"new",      \* thread_create()d, not started
        "started",  \* on a run queue for the first time
        "out",      \* running, not in the wait queue code
        "start",    \* in thread_wait_start(), lock held
        "intr",     \* sleep pad reset, `interrupted' not yet read, lock held
        "finish",   \* in thread_wait_finish(), lock released
        "enter",    \* about to call scheduler_enter(Sleeping)
        "switch",   \* marked Sleeping, still on its own stack
        "saved",    \* context saved, cleanup_after_thread() not yet run
        "requeue",  \* cleanup_after_thread() found the thread woken up
        "off",      \* off the CPU
        "unreg",    \* running again, in timeout_unregister()
        "relock"}   \* about to take the wait queue lock again

SleepStates == {"INITIAL", "ASLEEP", "WOKE"}
States      == {"Entering", "Running", "Sleeping", "Ready"}
Timeouts    == {"none", "active", "firing", "finished"}
Results     == {"none", "EOK", "ETIMEOUT", "EINTR"}
WaitqOps    == {"wake_one", "signal", "wake_all", "close"}
Ops         == WaitqOps \cup {"none", "interrupt", "trace", "timeout"}
CPCs        == {"idle", "wakeup", "requeue", "next"}

\* One type invariant for the state of waitq_t, thread_t and the wakers.
TypeOK ==
    /\ lock \in Threads \cup Contexts \cup {NoOne}
    /\ wakeup_balance \in Int
    /\ sleepers \in Seq(Threads)
    /\ closed \in BOOLEAN
    /\ pc \in [Threads -> PCs]
    /\ mode \in [Threads -> ModeType]
    /\ sleep_state \in [Threads -> SleepStates]
    /\ interrupted \in [Threads -> BOOLEAN]
    /\ state \in [Threads -> States]
    /\ rq \in [Threads -> Nat]
    /\ timeout \in [Threads -> Timeouts]
    /\ timed_out \in [Threads -> BOOLEAN]
    /\ rc \in [Threads -> Results]
    /\ cpc \in [Contexts -> CPCs]
    /\ op \in [Contexts -> Ops]
    /\ target \in [Contexts -> Threads \cup {NoOne}]
    /\ budget \in Nat

\* waitq_initialize_with_count(): the queue starts with no stored wakeups.
Init ==
    /\ lock = NoOne
    /\ wakeup_balance = 0
    /\ sleepers = <<>>
    /\ closed = FALSE
    /\ pc = [t \in Threads |-> "new"]
    /\ mode = [t \in Threads |-> NoMode]
    /\ sleep_state = [t \in Threads |-> "INITIAL"]
    /\ interrupted = [t \in Threads |-> FALSE]
    /\ state = [t \in Threads |-> "Entering"]
    /\ rq = [t \in Threads |-> 0]
    /\ timeout = [t \in Threads |-> "none"]
    /\ timed_out = [t \in Threads |-> FALSE]
    /\ rc = [t \in Threads |-> "none"]
    /\ cpc = [c \in Contexts |-> "idle"]
    /\ op = [c \in Contexts |-> "none"]
    /\ target = [c \in Contexts |-> NoOne]
    /\ budget = MaxOps

-----------------------------------------------------------------------------
\* link_in_use(&thread->wq_link)
Linked(t, s) == \E i \in 1..Len(s) : s[i] = t

\* list_remove(&thread->wq_link); no effect on a link that is not in use.
Unlink(s, t) ==
    IF Linked(t, s)
    THEN LET k == CHOOSE i \in 1..Len(s) : s[i] = t
         IN  [i \in 1..(Len(s) - 1) |-> IF i < k THEN s[i] ELSE s[i + 1]]
    ELSE s

\* A new operation begins; MaxOps bounds how many do.
Begin == budget > 0 /\ budget' = budget - 1

Goto(t, to) == pc' = [pc EXCEPT ![t] = to]

\* thread_requeue_sleeping(): the thread becomes Ready and is appended to a
\* run queue, whatever it was before.
Requeue(t) ==
    /\ state' = [state EXCEPT ![t] = "Ready"]
    /\ rq' = [rq EXCEPT ![t] = @ + 1]

-----------------------------------------------------------------------------
(* The sleeping thread. *)

\* thread_start()
ThreadStart(t) ==
    /\ pc[t] = "new"
    /\ Goto(t, "started")
    /\ Requeue(t)
    /\ UNCHANGED <<waitq, mode, sleep_state, interrupted, timeout, timed_out,
                   rc, waker, budget>>

\* The exit label: leave the list, record the debt of a failed composable
\* sleep, release the lock, return r.
Exit(t, r, m) ==
    /\ sleepers' = Unlink(sleepers, t)
    /\ wakeup_balance' = IF r # "EOK" /\ m.composable
                         THEN wakeup_balance - 1 ELSE wakeup_balance
    /\ lock' = NoOne
    /\ rc' = [rc EXCEPT ![t] = r]
    /\ mode' = [mode EXCEPT ![t] = NoMode]
    /\ timed_out' = [timed_out EXCEPT ![t] = FALSE]
    /\ Goto(t, "out")

\* A sleep that does not block.  The whole critical section is one step: only
\* state protected by the lock is accessed.
SleepImmediate(t, m) ==
    /\ pc[t] = "out"
    /\ lock = NoOne
    /\ Begin
    /\ \/ /\ closed
          /\ Exit(t, "EOK", m)
       \/ /\ ~closed
          /\ wakeup_balance > 0
          /\ wakeup_balance' = wakeup_balance - 1
          /\ rc' = [rc EXCEPT ![t] = "EOK"]
          /\ UNCHANGED <<lock, sleepers, pc, mode, timed_out>>
       \/ /\ ~closed
          /\ wakeup_balance <= 0
          /\ m.kind = "poll"
          /\ Exit(t, "ETIMEOUT", m)
    /\ UNCHANGED <<closed, sleep_state, interrupted, state, rq, timeout, waker>>

\* A sleep that has to block: the thread enters the list and keeps the lock.
SleepAppend(t, m) ==
    /\ pc[t] = "out"
    /\ lock = NoOne
    /\ Begin
    /\ ~closed
    /\ wakeup_balance <= 0
    /\ m.kind # "poll"
    /\ mode' = [mode EXCEPT ![t] = m]
    /\ lock' = t
    /\ sleepers' = Append(sleepers, t)
    /\ Goto(t, "start")
    /\ UNCHANGED <<wakeup_balance, closed, sleep_state, interrupted, state, rq,
                   timeout, timed_out, rc, waker>>

\* thread_wait_start(): the sleep pad is reset by an atomic exchange ...
WaitStart(t) ==
    /\ pc[t] = "start"
    /\ sleep_state' = [sleep_state EXCEPT ![t] = "INITIAL"]
    /\ Goto(t, "intr")
    /\ UNCHANGED <<waitq, mode, interrupted, state, rq, timeout, timed_out, rc,
                   waker, budget>>

\* ... and only then is `interrupted' read.  An interruptible sleep of an
\* interrupted thread ends here; any other releases the lock and goes on.
CheckInterrupted(t) ==
    /\ pc[t] = "intr"
    /\ IF interrupted[t] /\ mode[t].interruptible
       THEN Exit(t, "EINTR", mode[t])
       ELSE /\ lock' = NoOne
            /\ Goto(t, "finish")
            /\ UNCHANGED <<wakeup_balance, sleepers, rc, mode, timed_out>>
    /\ UNCHANGED <<closed, sleep_state, interrupted, state, rq, timeout, waker,
                   budget>>

\* thread_wait_finish() up to the scheduler: return at once when a wakeup has
\* come, otherwise register the timeout, which nobody can see before.
WaitFinish(t) ==
    /\ pc[t] = "finish"
    /\ IF sleep_state[t] # "INITIAL"
       THEN /\ Goto(t, "relock")
            /\ timed_out' = [timed_out EXCEPT ![t] = FALSE]
            /\ UNCHANGED timeout
       ELSE /\ Goto(t, "enter")
            /\ timeout' = IF mode[t].kind = "timed"
                          THEN [timeout EXCEPT ![t] = "active"] ELSE timeout
            /\ UNCHANGED timed_out
    /\ UNCHANGED <<waitq, mode, sleep_state, interrupted, state, rq, rc, waker,
                   budget>>

\* scheduler_enter(Sleeping) marks the thread ...
SchedulerEnter(t) ==
    /\ pc[t] = "enter"
    /\ state' = [state EXCEPT ![t] = "Sleeping"]
    /\ Goto(t, "switch")
    /\ UNCHANGED <<waitq, mode, sleep_state, interrupted, rq, timeout, timed_out,
                   rc, waker, budget>>

\* ... and switches stacks: context_swap().
ContextSwap(t) ==
    /\ pc[t] = "switch"
    /\ Goto(t, "saved")
    /\ UNCHANGED <<waitq, mode, sleep_state, interrupted, state, rq, timeout,
                   timed_out, rc, waker, budget>>

\* Wrong variant: ASLEEP is stored without looking at the pad.
CleanupByStore(t) ==
    /\ pc[t] = "saved"
    /\ sleep_state' = [sleep_state EXCEPT ![t] = "ASLEEP"]
    /\ Goto(t, "off")
    /\ UNCHANGED <<waitq, mode, interrupted, state, rq, timeout, timed_out, rc,
                   waker, budget>>

\* cleanup_after_thread(), run on the same CPU by whatever runs there next:
\* compare-and-exchange the sleep pad from INITIAL to ASLEEP.
CleanupAfterThread(t) ==
    /\ pc[t] = "saved"
    /\ IF sleep_state[t] = "INITIAL"
       THEN /\ sleep_state' = [sleep_state EXCEPT ![t] = "ASLEEP"]
            /\ Goto(t, "off")
       ELSE /\ Goto(t, "requeue")
            /\ UNCHANGED sleep_state
    /\ UNCHANGED <<waitq, mode, interrupted, state, rq, timeout, timed_out, rc,
                   waker, budget>>

\* The thread had been woken up before it was off the CPU.
CleanupRequeue(t) ==
    /\ pc[t] = "requeue"
    /\ Requeue(t)
    /\ Goto(t, "off")
    /\ UNCHANGED <<waitq, mode, sleep_state, interrupted, timeout, timed_out, rc,
                   waker, budget>>

\* Wrong variant: the run queue is not checked for being empty.
DispatchUnchecked(t) ==
    /\ pc[t] \in {"off", "started"}
    /\ rq' = [rq EXCEPT ![t] = @ - 1]
    /\ state' = [state EXCEPT ![t] = "Running"]
    /\ Goto(t, IF pc[t] = "off" THEN "unreg" ELSE "out")
    /\ UNCHANGED <<waitq, mode, sleep_state, interrupted, timeout, timed_out, rc,
                   waker, budget>>

\* Some CPU takes the thread from a run queue and switches to it
\* (try_find_thread(), prepare_to_run_thread()).  A thread that runs for the
\* first time has no sleep to finish.
Dispatch(t) ==
    /\ rq[t] > 0
    /\ pc[t] \in {"off", "started"}
    /\ rq' = [rq EXCEPT ![t] = @ - 1]
    /\ state' = [state EXCEPT ![t] = "Running"]
    /\ Goto(t, IF pc[t] = "off" THEN "unreg" ELSE "out")
    /\ UNCHANGED <<waitq, mode, sleep_state, interrupted, timeout, timed_out, rc,
                   waker, budget>>

\* Wrong variant: the timeout is abandoned while its handler runs.
TimeoutUnregisterNoSpin(t) ==
    /\ pc[t] = "unreg"
    /\ timed_out' = [timed_out EXCEPT ![t] = timeout[t] \notin {"none", "active"}]
    /\ timeout' = [timeout EXCEPT ![t] = "none"]
    /\ Goto(t, "relock")
    /\ UNCHANGED <<waitq, mode, sleep_state, interrupted, state, rq, rc, waker,
                   budget>>

\* thread_wait_finish() after the scheduler.  timeout_unregister() spins while
\* the handler runs; the timeout_t is gone when the frame is left.
TimeoutUnregister(t) ==
    /\ pc[t] = "unreg"
    /\ timeout[t] # "firing"
    /\ timed_out' = [timed_out EXCEPT ![t] = timeout[t] = "finished"]
    /\ timeout' = [timeout EXCEPT ![t] = "none"]
    /\ Goto(t, "relock")
    /\ UNCHANGED <<waitq, mode, sleep_state, interrupted, state, rq, rc, waker,
                   budget>>

\* Wrong variants: a woken thread returns without taking the lock again; the
\* timeout is looked at before the list.
RelockOnlyIfLinked(t) ==
    /\ pc[t] = "relock"
    /\ \/ /\ ~Linked(t, sleepers)
          /\ rc' = [rc EXCEPT ![t] = "EOK"]
          /\ mode' = [mode EXCEPT ![t] = NoMode]
          /\ timed_out' = [timed_out EXCEPT ![t] = FALSE]
          /\ Goto(t, "out")
          /\ UNCHANGED <<lock, wakeup_balance, sleepers>>
       \/ /\ lock = NoOne
          /\ Linked(t, sleepers)
          /\ Exit(t, "ETIMEOUT", mode[t])
    /\ UNCHANGED <<closed, sleep_state, interrupted, state, rq, timeout, waker,
                   budget>>

RelockTimeoutFirst(t) ==
    /\ pc[t] = "relock"
    /\ lock = NoOne
    /\ \/ /\ timed_out[t]
          /\ Exit(t, "ETIMEOUT", mode[t])
       \/ /\ ~timed_out[t]
          /\ ~Linked(t, sleepers)
          /\ Exit(t, "EOK", mode[t])
       \/ /\ ~timed_out[t]
          /\ Linked(t, sleepers)
          /\ lock' = t
          /\ Goto(t, "start")
          /\ UNCHANGED <<wakeup_balance, sleepers, rc, mode, timed_out>>
    /\ UNCHANGED <<closed, sleep_state, interrupted, state, rq, timeout, waker,
                   budget>>

\* The end of the loop body: with the lock held again, a thread that is not in
\* the list any more was woken up by the desired event, whatever else happened.
Relock(t) ==
    /\ pc[t] = "relock"
    /\ lock = NoOne
    /\ \/ /\ ~Linked(t, sleepers)
          /\ Exit(t, "EOK", mode[t])
       \/ /\ Linked(t, sleepers)
          /\ timed_out[t]
          /\ Exit(t, "ETIMEOUT", mode[t])
       \/ /\ Linked(t, sleepers)
          /\ ~timed_out[t]
          /\ lock' = t
          /\ Goto(t, "start")
          /\ UNCHANGED <<wakeup_balance, sleepers, rc, mode, timed_out>>
    /\ UNCHANGED <<closed, sleep_state, interrupted, state, rq, timeout, waker,
                   budget>>

-----------------------------------------------------------------------------
(* The waking contexts. *)

\* Context c is about to call thread_wakeup(t) as part of operation o.
CallWakeup(c, o, t) ==
    /\ cpc' = [cpc EXCEPT ![c] = "wakeup"]
    /\ op' = [op EXCEPT ![c] = o]
    /\ target' = [target EXCEPT ![c] = t]

\* _wake_one() up to thread_wakeup()
PopFirst(c, o) ==
    /\ lock' = c
    /\ sleepers' = Tail(sleepers)
    /\ CallWakeup(c, o, Head(sleepers))

WakerReturn(c) ==
    /\ cpc' = [cpc EXCEPT ![c] = "idle"]
    /\ op' = [op EXCEPT ![c] = "none"]
    /\ target' = [target EXCEPT ![c] = NoOne]

\* waitq_wake_one()
WakeOne(c) ==
    /\ cpc[c] = "idle"
    /\ lock = NoOne
    /\ Begin
    /\ \/ /\ closed
          /\ UNCHANGED <<lock, wakeup_balance, sleepers, waker>>
       \/ /\ ~closed
          /\ wakeup_balance < 0 \/ sleepers = <<>>
          /\ wakeup_balance' = wakeup_balance + 1
          /\ UNCHANGED <<lock, sleepers, waker>>
       \/ /\ ~closed
          /\ ~(wakeup_balance < 0 \/ sleepers = <<>>)
          /\ PopFirst(c, "wake_one")
          /\ UNCHANGED wakeup_balance
    /\ UNCHANGED <<closed, thread>>

\* waitq_signal()
Signal(c) ==
    /\ cpc[c] = "idle"
    /\ lock = NoOne
    /\ Begin
    /\ \/ /\ sleepers = <<>>
          /\ UNCHANGED <<lock, sleepers, waker>>
       \/ /\ sleepers # <<>>
          /\ PopFirst(c, "signal")
    /\ UNCHANGED <<wakeup_balance, closed, thread>>

\* waitq_wake_all() and waitq_close() up to the first thread_wakeup(); the
\* loop of _wake_all() goes on in WakerNext.
WakeAll(c, o) ==
    /\ cpc[c] = "idle"
    /\ lock = NoOne
    /\ Begin
    /\ wakeup_balance' = 0
    /\ closed' = (closed \/ o = "close")
    /\ \/ /\ sleepers = <<>>
          /\ UNCHANGED <<lock, sleepers, waker>>
       \/ /\ sleepers # <<>>
          /\ PopFirst(c, o)
    /\ UNCHANGED thread

\* Wrong variant: only a thread that already sleeps is woken up.
InterruptIfSleeping(c, t) ==
    /\ cpc[c] = "idle"
    /\ Begin
    /\ interrupted' = [interrupted EXCEPT ![t] = TRUE]
    /\ IF state[t] = "Sleeping" THEN CallWakeup(c, "interrupt", t) ELSE UNCHANGED waker
    /\ UNCHANGED <<waitq, pc, mode, sleep_state, state, rq, timeout, timed_out, rc>>

\* thread_interrupt() up to thread_wakeup()
Interrupt(c, t) ==
    /\ cpc[c] = "idle"
    /\ Begin
    /\ interrupted' = [interrupted EXCEPT ![t] = TRUE]
    /\ CallWakeup(c, "interrupt", t)
    /\ UNCHANGED <<waitq, pc, mode, sleep_state, state, rq, timeout, timed_out, rc>>

\* thread_stack_trace() up to thread_wakeup(): a wakeup with no event.
StackTrace(c, t) ==
    /\ cpc[c] = "idle"
    /\ Begin
    /\ CallWakeup(c, "trace", t)
    /\ UNCHANGED <<waitq, thread>>

\* Wrong variant: the handler is skipped for a thread that does not sleep yet.
ClockIfSleeping(c, t) ==
    /\ cpc[c] = "idle"
    /\ timeout[t] = "active"
    /\ IF state[t] = "Sleeping"
       THEN /\ timeout' = [timeout EXCEPT ![t] = "firing"]
            /\ CallWakeup(c, "timeout", t)
       ELSE /\ timeout' = [timeout EXCEPT ![t] = "finished"]
            /\ UNCHANGED waker
    /\ UNCHANGED <<waitq, pc, mode, sleep_state, interrupted, state, rq,
                   timed_out, rc, budget>>

\* clock(): an expired timeout leaves the list of its CPU and its handler,
\* thread_wait_timeout_callback(), is called.
Clock(c, t) ==
    /\ cpc[c] = "idle"
    /\ timeout[t] = "active"
    /\ timeout' = [timeout EXCEPT ![t] = "firing"]
    /\ CallWakeup(c, "timeout", t)
    /\ UNCHANGED <<waitq, pc, mode, sleep_state, interrupted, state, rq,
                   timed_out, rc, budget>>

\* Wrong variant: a thread that is only about to sleep is requeued, too.
ThreadWakeupEager(c) ==
    /\ cpc[c] = "wakeup"
    /\ sleep_state' = [sleep_state EXCEPT ![target[c]] = "WOKE"]
    /\ cpc' = [cpc EXCEPT ![c] = IF sleep_state[target[c]] # "WOKE"
                                 THEN "requeue" ELSE "next"]
    /\ UNCHANGED <<waitq, pc, mode, interrupted, state, rq, timeout, timed_out,
                   rc, op, target, budget>>

\* thread_wakeup(): exchange the sleep pad; whoever finds ASLEEP requeues.
ThreadWakeup(c) ==
    /\ cpc[c] = "wakeup"
    /\ sleep_state' = [sleep_state EXCEPT ![target[c]] = "WOKE"]
    /\ cpc' = [cpc EXCEPT ![c] = IF sleep_state[target[c]] = "ASLEEP"
                                 THEN "requeue" ELSE "next"]
    /\ UNCHANGED <<waitq, pc, mode, interrupted, state, rq, timeout, timed_out,
                   rc, op, target, budget>>

\* thread_requeue_sleeping() called from thread_wakeup()
RequeueSleeping(c) ==
    /\ cpc[c] = "requeue"
    /\ Requeue(target[c])
    /\ cpc' = [cpc EXCEPT ![c] = "next"]
    /\ UNCHANGED <<waitq, pc, mode, sleep_state, interrupted, timeout, timed_out,
                   rc, op, target, budget>>

\* What the caller of thread_wakeup() does next: _wake_all() goes on with the
\* next sleeper, the other wait queue operations release the lock, clock()
\* stores `finished' into the timeout_t, thread_interrupt() returns.
WakerNext(c) ==
    /\ cpc[c] = "next"
    /\ \/ /\ op[c] \in {"wake_all", "close"}
          /\ sleepers # <<>>
          /\ PopFirst(c, op[c])
          /\ UNCHANGED timeout
       \/ /\ \/ op[c] \in {"wake_one", "signal"}
             \/ op[c] \in {"wake_all", "close"} /\ sleepers = <<>>
          /\ lock' = NoOne
          /\ WakerReturn(c)
          /\ UNCHANGED <<sleepers, timeout>>
       \/ /\ op[c] = "timeout"
          /\ timeout' = [timeout EXCEPT ![target[c]] = "finished"]
          /\ WakerReturn(c)
          /\ UNCHANGED <<lock, sleepers>>
       \/ /\ op[c] \in {"interrupt", "trace"}
          /\ WakerReturn(c)
          /\ UNCHANGED <<lock, sleepers, timeout>>
    /\ UNCHANGED <<wakeup_balance, closed, pc, mode, sleep_state, interrupted,
                   state, rq, timed_out, rc, budget>>

-----------------------------------------------------------------------------
\* What a thread does once it has called a sleep (its own steps, those of the
\* CPU that switches away from it and those of the scheduler).
SleeperStep(t) ==
    \/ WaitStart(t)
    \/ CheckInterrupted(t)
    \/ WaitFinish(t)
    \/ SchedulerEnter(t)
    \/ ContextSwap(t)
    \/ CleanupAfterThread(t)
    \/ CleanupRequeue(t)
    \/ Dispatch(t)
    \/ TimeoutUnregister(t)
    \/ Relock(t)

\* What a context does once it has called an operation.
WakerStep(c) == ThreadWakeup(c) \/ RequeueSleeping(c) \/ WakerNext(c)

Next ==
    \/ \E t \in Threads :
          \/ ThreadStart(t)
          \/ SleeperStep(t)
          \/ \E m \in Modes : SleepImmediate(t, m) \/ SleepAppend(t, m)
    \/ \E c \in Contexts :
          \/ WakeOne(c)
          \/ Signal(c)
          \/ \E o \in {"wake_all", "close"} : WakeAll(c, o)
          \/ \E t \in Threads : Interrupt(c, t) \/ StackTrace(c, t) \/ Clock(c, t)
          \/ WakerStep(c)

Spec == Init /\ [][Next]_vars

\* Nobody has to call an operation, but a CPU that executes one goes on, a
\* ready thread is dispatched and clock interrupts arrive.
Fairness ==
    /\ \A t \in Threads : WF_vars(SleeperStep(t))
    /\ \A c \in Contexts : WF_vars(WakerStep(c))
    /\ \A t \in Threads : WF_vars(\E c \in Contexts : Clock(c, t))

FairSpec == Spec /\ Fairness

-----------------------------------------------------------------------------
(* Properties. *)

\* Context c has not yet exchanged the sleep pad of t.
Waking(c, t) == cpc[c] = "wakeup" /\ target[c] = t

\* t has entered the list and has not returned from the sleep.
Sleeping(t) == pc[t] \notin {"new", "started", "out"}

\* t may block, or is blocked, on the sleep pad.
MayBlock(t) ==
    /\ pc[t] \in {"finish", "enter", "switch", "saved", "off"}
    /\ sleep_state[t] # "WOKE"

\* No lost wakeup: a thread that blocks on its sleep pad is either still in the
\* list, where the next wakeup finds it, or somebody is on the way to
\* thread_wakeup() for it (thread_wait_finish() and cleanup_after_thread()
\* racing with _wake_one()).
NoLostWakeup ==
    \A t \in Threads : MayBlock(t) =>
        Linked(t, sleepers) \/ \E c \in Contexts : Waking(c, t)

\* No lost interruption: thread_wait_start() promises that a thread which is
\* interrupted after it looked at `interrupted' does not stay asleep.
NoLostInterrupt ==
    \A t \in Threads :
        MayBlock(t) /\ mode[t].interruptible /\ interrupted[t]
            => \E c \in Contexts : Waking(c, t)

\* No lost timeout: while a sleep with a deadline blocks, its timeout is in the
\* list of some CPU or its handler is about to wake the thread up; this holds
\* in every round of the loop of waitq_sleep_timeout_unsafe().
NoLostTimeout ==
    \A t \in Threads :
        MayBlock(t) /\ pc[t] # "finish" /\ mode[t].kind = "timed"
            => \/ timeout[t] = "active"
               \/ \E c \in Contexts : Waking(c, t) /\ op[c] = "timeout"

\* A woken thread is put on a run queue exactly once, by one context only, and
\* not before its context is saved: with two wakeups, a timeout and the check of
\* cleanup_after_thread() racing, the assertion of thread_requeue_sleeping()
\* holds, rq_link is never in use twice, and no woken thread is left behind.
Requeuing(c, t) == cpc[c] = "requeue" /\ target[c] = t

RequeuedOnce ==
    \A t \in Threads :
        /\ rq[t] <= 1
        /\ rq[t] = 1 => /\ pc[t] \in {"off", "started"}
                        /\ \A c \in Contexts : ~Requeuing(c, t)
        /\ pc[t] = "requeue" => /\ rq[t] = 0
                                /\ state[t] = "Sleeping"
                                /\ \A c \in Contexts : ~Requeuing(c, t)
        /\ \A c \in Contexts : Requeuing(c, t) =>
               /\ pc[t] = "off"
               /\ state[t] = "Sleeping"
               /\ \A d \in Contexts : Requeuing(d, t) => d = c
        /\ pc[t] = "off" /\ sleep_state[t] = "WOKE" =>
               rq[t] = 1 \/ \E c \in Contexts : Requeuing(c, t)

\* A wakeup is stored only if nobody waits for it, and a closed queue keeps
\* neither wakeups nor debt nor, once waitq_close() has left, sleepers.
StoredWakeupsUnclaimed ==
    /\ wakeup_balance > 0 => sleepers = <<>>
    /\ closed => wakeup_balance = 0
    /\ closed /\ lock = NoOne => sleepers = <<>>

\* The timeout_t lives in the frame of thread_wait_finish(): clock() touches it
\* only while that frame exists (timeout_unregister() waits for the handler).
TimeoutFrameAlive ==
    \A t \in Threads :
        (timeout[t] # "none" \/ \E c \in Contexts : op[c] = "timeout" /\ target[c] = t)
            => pc[t] \in {"enter", "switch", "saved", "requeue", "off", "unreg"}

\* When a thread that blocked returns, no wait queue operation is still running
\* on another CPU, so the caller may free the wait queue (the comment before
\* the second irq_spinlock_lock() of waitq_sleep_timeout_unsafe()).
QueueUnusedOnReturn ==
    [][\A t \in Threads : pc[t] = "relock" /\ pc'[t] = "out"
            => \A c \in Contexts : op[c] \notin WaitqOps]_vars

\* A sleep that was granted a wakeup, that has a deadline, or that is
\* interruptible and interrupted, ends.
SleepEnds ==
    \A t \in Threads :
        (Sleeping(t) /\ (\/ ~Linked(t, sleepers)
                         \/ mode[t].kind = "timed"
                         \/ mode[t].interruptible /\ interrupted[t]))
            ~> (pc[t] = "out")

\* The wait queue implements its contract.  While _wake_all() empties the list
\* with the lock held, all sleepers count as granted.
WakingAll == \E c \in Contexts : op[c] \in {"wake_all", "close"}

waitingBar == IF WakingAll THEN <<>> ELSE sleepers
grantedBar == {t \in Threads : Sleeping(t) /\ ~Linked(t, waitingBar)}

Contract == INSTANCE WaitQueueContract WITH
    balance <- wakeup_balance, waiting <- waitingBar, granted <- grantedBar

\* Every step of the sleep pad and of the lock protocol is a step of the
\* contract or invisible to the callers of the wait queue.
ImplementsContract == Contract!Spec

-----------------------------------------------------------------------------
(* The inductive invariant behind the safety properties. *)

\* Who holds the lock of the wait queue, and what it is doing.
LockInv ==
    /\ \A t \in Threads : lock = t <=> pc[t] \in {"start", "intr"}
    /\ \A c \in Contexts : lock = c <=> op[c] \in WaitqOps

WakerInv ==
    \A c \in Contexts : /\ cpc[c] = "idle" <=> op[c] = "none"
                        /\ cpc[c] # "idle" => target[c] \in Threads

\* No element occurs twice in s.
NoDuplicates(s) == \A i, j \in 1..Len(s) : s[i] = s[j] => i = j

\* The list has no thread twice and none that is not in a sleep.
ListInv ==
    /\ NoDuplicates(sleepers)
    /\ \A t \in Threads : Linked(t, sleepers) => Sleeping(t)
    /\ \A t \in Threads : pc[t] \in {"start", "intr"} => Linked(t, sleepers)

\* How the sleep pad, the thread state and the run queue go together.
PadInv ==
    \A t \in Threads :
        /\ sleep_state[t] = "ASLEEP" => pc[t] = "off" /\ state[t] = "Sleeping"
        /\ pc[t] = "requeue" => sleep_state[t] = "WOKE"
        /\ pc[t] = "off" => sleep_state[t] # "INITIAL" /\ state[t] \in {"Sleeping", "Ready"}
        /\ pc[t] \in {"switch", "saved", "requeue"} => state[t] = "Sleeping"
        /\ pc[t] = "started" => state[t] = "Ready"
        /\ state[t] = "Ready" => pc[t] \in {"off", "started"}
        /\ rq[t] = IF state[t] = "Ready" THEN 1 ELSE 0
        /\ \A c \in Contexts : Requeuing(c, t) =>
               /\ pc[t] = "off" /\ state[t] = "Sleeping" /\ sleep_state[t] = "WOKE"
               /\ \A d \in Contexts : Requeuing(d, t) => d = c
        /\ pc[t] = "off" /\ sleep_state[t] = "WOKE" /\ state[t] = "Sleeping" =>
               \E c \in Contexts : Requeuing(c, t)

\* A timeout exists only in its frame, and one clock interrupt runs it.
TimeoutInv ==
    \A t \in Threads :
        /\ timeout[t] # "none" =>
               pc[t] \in {"enter", "switch", "saved", "requeue", "off", "unreg"}
        /\ \A c \in Contexts : op[c] = "timeout" /\ target[c] = t =>
               /\ timeout[t] = "firing"
               /\ \A d \in Contexts : op[d] = "timeout" /\ target[d] = t => d = c

StoredInv ==
    /\ wakeup_balance > 0 => sleepers = <<>>
    /\ closed => wakeup_balance = 0
    /\ closed /\ sleepers # <<>> => \E c \in Contexts : op[c] = "close"

IInv ==
    /\ TypeOK
    /\ LockInv
    /\ WakerInv
    /\ ListInv
    /\ PadInv
    /\ TimeoutInv
    /\ StoredInv
    /\ NoLostWakeup
    /\ NoLostInterrupt
    /\ NoLostTimeout
=============================================================================
