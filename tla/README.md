# TLA+ models of the HelenOS core

HelenOS is a microkernel operating system. Everything its servers and
applications do rests on two mechanisms of the kernel: threads that *sleep and
are woken up*, and tasks that *send each other calls*. In user space the C
library builds *fibrils* on both. This project models the two mechanisms and the
fibrils, checks the models with TLC and proves the safety of the wait queue, of IPC
calls, of the futex, of the fibril scheduler and of the fibril timer with TLAPS.

| module | what it is | models |
|---|---|---|
| `WaitQueueContract` | abstract specification: what a wait queue promises | comments and interface of `synch/waitq.c` |
| `WaitQueue` | the implementation, lock and sleep pad included | `synch/waitq.c`, parts of `proc/thread.c`, `proc/scheduler.c`, `time/timeout.c`, `time/clock.c` |
| `WaitQueueProofs` | inductive invariant and theorems for `WaitQueue` | |
| `WaitQueueRefinement` | proof that `WaitQueue` implements `WaitQueueContract` | |
| `Ipc` | calls, phones, answerboxes and the end of a task | `ipc/ipc.c`, `ipc/sysipc.c`, `ipc/ops/conctmeto.c`, parts of `cap/cap.c`, `proc/task.c`, `proc/thread.c` |
| `IpcProofs` | inductive invariant and theorems for `Ipc`: calls, assertions, wakeups | |
| `IpcAccounting` | theorems for `Ipc`: references to phones, counters of active calls, the end of a task | |
| `KernelBox` | the answerbox of a task for debuggers, its thread, and their end | `ipc/kbox.c`, parts of `ipc/ipc.c`, `udebug/` |
| `Futex` | user space counter on top of the contract | `uspace/lib/c/generic/private/futex.h`, `synch/syswaitq.c` |
| `Fibril` | fibril scheduler: runners, helpers, timeouts, receiving calls | `uspace/lib/c/generic/thread/fibril.c`, manager loop of `async/server.c` |
| `FibrilTimer` | fibril mutex, condition variable and timer | `uspace/lib/c/generic/thread/fibril_synch.c`, used as in `uspace/srv/net/tcp/tqueue.c` and `conn.c` |
| `FutexProofs`, `FibrilProofs`, `FibrilTimerProofs` | inductive invariants and theorems for these modules | |
| `ListTheorems` | lemmas on lists and on the cardinality of sets that the proofs share | |
| `MC`*X* | instance of module *X* for TLC | |

`Futex` composes with `WaitQueue` through the contract: `WaitQueue` is shown to
implement `WaitQueueContract`, and `Futex` instantiates it. `Fibril` uses
`ready_semaphore` as a counter whose downs either take a token or time out, which
is what `Futex` shows a futex to be, and an answerbox as `Ipc` shows it to be:
calls, and a wakeup for each of them. `FibrilTimer` uses fibrils as `Fibril` shows
them to be: a notified fibril runs, and a notification is not lost to a timeout.

All paths in this file are below `kernel/generic/src/` unless they start with
`uspace/`.

## 1. Inventory

### Wait queues, sleep pad, timeouts
*State.* `waitq_t`: a spinlock, a FIFO of sleeping threads, `wakeup_balance`
(stored wakeups, or debt when negative), `closed`. `thread_t`: the sleep pad
`sleep_state`, `interrupted`, the scheduler state, the run queue link. A
`timeout_t` in the stack frame of the sleeper.
*Operations.* `waitq_sleep*`, `waitq_wake_one`, `waitq_signal`,
`waitq_wake_all`, `waitq_close`; `thread_wait_start/finish`, `thread_wakeup`,
`thread_interrupt`; `timeout_register`, `timeout_unregister`, `clock`.
*Interaction.* Every blocking primitive of the kernel (mutex, semaphore,
condition variable, futex, IPC) calls it; the scheduler finishes the sleep on
behalf of the thread (`cleanup_after_thread`).
*Hard.* Waker, clock interrupt, interruption, sleeper and scheduler run on
different CPUs and meet in one atomic variable; stack frames and queues are
freed as soon as the sleeper returns.
*Correct means.* Nothing is lost, nobody is put on a run queue twice, the result
of a sleep tells whether a wakeup was consumed, and sleeps end.

### IPC calls, phones, answerboxes
*State.* Answerbox: lists of incoming, dispatched and answered calls, list of
connected phones, `active_calls`. Phone: state, callee, `active_calls`,
hangup call. Call: caller's phone and box, `active`, `forget`, `priv`. All of
them are reference counted kernel objects with capabilities.
*Operations.* Asynchronous call, synchronous call (`ipc_req_internal`, made by
page faults of the user pager), wait for a call, answer, forward, hang up, poke;
`ipc_cleanup` when the last thread of a task exits, which hangs up, slams,
answers, forgets and waits.
*Interaction.* Sleeps in wait queues; publishes capabilities; is driven by the
system calls and by `task_kill`.
*Hard.* Each operation is several critical sections with different locks
(phone, answerbox, `forget_lock`, `active_calls_lock`); answering, forgetting,
hanging up, slamming and exiting race pairwise; the objects are freed by whoever
drops the last reference.
*Correct means.* A call is answered or forgotten, once; objects live exactly as
long as they are referred to; every message is received; a killed task goes away.

### Kernel box
*State.* A second answerbox per task (`kb.box`), the kbox thread that serves it
(`kb.thread`), `kb.finished`, and the debugging session (`udebug.dt_state`,
`udebug.debugger`).
*Operations.* `ipc_connect_kbox` by a debugger, which creates the thread if there
is none; debug calls and hangups, served by the thread; `ipc_kbox_cleanup` by the
last thread of the task.
*Interaction.* Phones and calls of `ipc.c`; slamming with `notify_box`.
*Hard.* The thread ends after the last hangup, detached or joined, while other
debuggers connect and the task exits.
*Correct means.* The cleanup ends: it joins the thread, so the thread must end.

### Futex
*State.* A counter in user space, a wait queue in the kernel.
*Operations.* Down, with and without a deadline, trydown, up.
*Hard.* The two counters are changed one after the other, with any other thread in
between; a timeout has to undo both halves.
*Correct means.* They add up; no token is invented, and none is lost while
somebody sleeps.

### Fibril scheduler
*State.* `ready_list`, `ready_semaphore`, `timeout_list`, a list of fibrils that
wait for calls and a list of buffered calls, `threads_in_ipc_wait`; per fibril
what its event is waiting for and whom it has to clean up after.
*Operations.* Start, wait with or without a timeout, notify, yield, exit; wait for
a call; turning multithreaded. A runner without a fibril runs its helper, which
fires timeouts and waits for whatever comes first.
*Interaction.* Futexes; `SYS_IPC_WAIT` and `SYS_IPC_POKE`.
*Hard.* One semaphore stands for ready fibrils and for turns at waiting for calls;
notification, timeout and call may meet at one fibril that is just leaving its
stack.
*Correct means.* A stack runs on one thread; tokens, notifications and calls are
conserved; an idle runner finds the work there is.

### Fibril mutex, condition variable and timer
*State.* Mutex counter, owner and waiters; condition variable waiters; timer
state, function and `handler_fid`; the reference count of the connection it belongs to.
*Operations.* Lock, unlock with hand-over, wait, broadcast; create, set, clear and
destroy a timer.
*Hard.* The timer fibril times out, runs a handler without the lock, and is
cleared, set again or destroyed meanwhile; the handler may destroy its own timer.
*Correct means.* A clear tells the truth about whether the timer fired; after it no
handler runs; references are exact; clear and destroy return.

### The other parts
| part | state and operations | hard behaviours | status |
|---|---|---|---|
| Connection setup `ipc/ops/concttome.c`, `conctmeto.c` | phone allocated with a call, connected when it is answered | task dies in between, no memory | `CONNECT_ME_TO` in `Ipc`; `CONNECT_TO_ME` planned |
| IPC data methods `ipc/ops/data*.c`, `share*.c`, `pagein.c`, `stchngath.c` | copy buffers, share areas when a call is sent or answered | failure half way | abstracted to success or failure of the answer |
| Debugger operations `udebug/` | GO, STOP, events, reading of a stopped task | GO against going to sleep | begin and end of a session in `KernelBox` |
| Events and IRQs `ipc/event.c`, `ipc/irq.c` | subscription, masking, notification | unsubscribing against an interrupt | planned |
| Scheduler, threads `proc/` | run queues per CPU and priority, `kcpulb`, join and detach | migration against wakeup | sleep and wakeup in `WaitQueue`, rest planned |
| Mutex, semaphore, condvar `synch/` | built from wait queues | hand-over, recursion | planned on the contract |
| Fibril rwlock, semaphore, mpsc channel | built like the fibril mutex | hand-over | considered |
| Capabilities `cap/cap.c` | handle table, publish, revoke, reference counts | revoke against use | counts in `Ipc`, rest planned |
| Async framework `uspace/lib/c/generic/async/` | sessions, exchanges, routing of calls to fibrils | notification order | manager loop in `Fibril`, rest considered |
| Memory management `mm/` | address spaces, zones, slabs, reservation | mostly sequential under locks | not modelled |
| Console, log, sysinfo, boot, architecture code | input, output, hardware | hardware | not modelled |
| Servers, network, file systems, drivers, UI | protocols on top of async | a project each | the timers of a TCP connection in `FibrilTimer`, rest not modelled |

`PROJECT.json` lists these components with their files, the hazards of the code
line by line, and which property is aimed at which hazard.

## 2. Plan

Order: what everything else depends on comes first.

1. `WaitQueue`, its contract, and the proof of its safety. *Done.*
2. `Ipc`: calls, phones, answerboxes, cleanup. *Done.*
3. Proofs for `Ipc`, for any number of tasks, threads, phones and calls: "forgotten or
   answered, never both", the assertions, the life of a call, no stranded message, the
   references to phones, the counters of active calls, the answerbox of a task that
   ends. *Done.*
4. `Futex` on the contract. *Done: model, checks, proofs.*
5. `Fibril`, then `FibrilTimer`. *Done: models, checks, proofs.*
6. `KernelBox`. *Done: model and check.*
7. The proof that `WaitQueue` implements its contract. *Done.*
8. `Ipc` grows `IPC_M_CONNECT_TO_ME`; event and IRQ notifications.
9. `Mutex`, `Semaphore`, `CondVar` of the kernel over the contract.
10. `Cap`: handle allocation, publish, unpublish, revoke and reference counts.
11. `Scheduler`: run queues, `kcpulb` and thread life (join, detach).

## 3. `WaitQueue`: how it corresponds to the code

One wait queue. `Threads` sleep in it; `Contexts` are whatever else runs in the
kernel (threads on other CPUs, interrupt handlers, the clock interrupt) and wake
them up. A step is an access to state that another context can see although it
does not hold the lock of the queue: the atomic exchange of the sleep pad, the
read of `interrupted`, the context switch, the insertion in a run queue. What
happens entirely under the lock is one step.

| action | code |
|---|---|
| `SleepImmediate`, `SleepAppend` | `_waitq_sleep_timeout`, first locked section |
| `WaitStart`, `CheckInterrupted` | `thread_wait_start`, test of `interruptible`, unlock |
| `WaitFinish` | `thread_wait_finish`: early return, `timeout_register` |
| `SchedulerEnter`, `ContextSwap` | `scheduler_enter(Sleeping)` |
| `CleanupAfterThread`, `CleanupRequeue` | `cleanup_after_thread`, case `Sleeping` |
| `Dispatch` | a CPU takes the thread from its run queue |
| `TimeoutUnregister` | `timeout_unregister`, spinning while the handler runs |
| `Relock` | second locked section: `EOK`, `ETIMEOUT`, `EINTR` or another round |
| `WakeOne`, `Signal`, `WakeAll` | the operations of `waitq.c`, up to `thread_wakeup` |
| `ThreadWakeup`, `RequeueSleeping`, `WakerNext` | `thread_wakeup`, `thread_requeue_sleeping`, the rest of the operation |
| `Interrupt`, `StackTrace`, `Clock` | `thread_interrupt`, `thread_stack_trace`, `clock` running a timeout |

`rq[t]` counts the run queue entries of a thread, so that "twice" is a state of
the model and not impossible by its shape. A timeout is `none`, `active`
(registered), `firing` (taken by a clock interrupt) or `finished`. Which of the
timeouts of a CPU is due first is abstracted: an active one may fire at any time.

`WaitQueueContract` has each operation as one indivisible step and no sleep pad,
lock or scheduler. A wakeup goes to the thread that has waited longest, is
stored, or annuls a debt; a granted thread returns `EOK`; a composable sleep that
fails leaves a debt. The refinement mapping (`waitingBar`, `grantedBar`) counts
all sleepers as granted as soon as `_wake_all` holds the lock.

## 4. `Ipc`: how it corresponds to the code

Threads run system calls of their task; a step is one section protected by
`phone->lock`, an answerbox lock or `call->forget_lock`. `ipc_phone_hangup` holds
the phone lock from `Unlist` to `SendHungup`. The wait queue of an answerbox is a
counter of stored wakeups, which is the contract of section 3 as seen from here.
`mybox` of a synchronous call is the box named by its thread. The hangup call of
a phone is named by the phone.

Reference counts of calls and phones are modelled exactly; capabilities as
published or not; `thr[t].ref` says whether a thread still owns a reference to
its call. Message contents are left out but for the phone that
`IPC_M_CONNECT_ME_TO` carries in `priv` and whether an answer is `EOK`, `EHANGUP`
or another error.

| actions | code |
|---|---|
| `CallAsync`, `ConnectMeTo`, `CallSync`, `Send`, `SendRefused`, `Backsend*` | `sys_ipc_call_async_*`, `ipc_req_internal`, `ipc_call`, `ipc_backsend_err` |
| `WaitForCall`, `Wakeup`, `WaitFails`, `Dequeue*`, `Publish*` | `sys_ipc_wait_for_call`, `ipc_wait_for_call` |
| `Answer`, `Preprocess*`, `SlamCaller`, `Deliver`, `Discard`, `Wake` | `sys_ipc_answer_*`, `answer_preprocess`, `_ipc_answer_free_call` |
| `Forward*` | `sys_ipc_forward_common`, `ipc_forward` |
| `Sync*` | second half of `ipc_call_sync` and `ipc_req_internal` |
| `SysHangup`, `Unlist`, `SendHungup`, `HangupSlammed` | `sys_ipc_hangup`, `ipc_phone_hangup` |
| `Kill`, `Leave`, `Exit` | `task_kill`, return to user space of an interrupted thread, `thread_exit` |
| `HangAll*`, `Slam*`, `Cleanup*`, `ForgetAll*`, `WaitAll*` | `ipc_cleanup` |

Left out: the kernel box and `notify_box` (section 5), IRQ and event notifications,
`IPC_M_CONNECT_TO_ME`, memory exhaustion inside a call except where it ends in an
error answer. That is also where `IPC_M_CONNECT_ME_TO` gets no phone: `CallAsync`
sends it back, and `ReceiveAnswer`, which has no phone to drop then, goes on as if
`kobject_put` ignored it (see section 10). A sleep that ends with `ETIMEOUT` or `EINTR` does so only when no
wakeup is stored, as the contract says. After a step that uses a freed answerbox
the model goes on as if the memory were still intact.

## 5. `KernelBox`: how it corresponds to the code

Each phone belongs to a debugger task of its own; a step is a section under
`kb.cleanup_lock`, `udebug.lock` or the lock of the box. Of the calls the model has
BEGIN and END of a session and the hangups.

| actions | code |
|---|---|
| `Connect` | `ipc_connect_kbox`, all of it under `cleanup_lock`: the thread is created and started, then the phone is connected if the box is active |
| `Debug`, `Hangup`, `HangupNotify`, `Forget` | `ipc_call`, the two halves of `ipc_phone_hangup`, `ipc_forget_call` |
| `Receive`, `UdebugReceive`, `PhoneHungup`, `LastPhone` | `kbox_thread_proc`, `udebug_call_receive`, `kbox_proc_phone_hungup` |
| `Stoppable` | `udebug_stoppable_begin` answers the BEGIN call |
| `Inactive`, `Finish`, `HaveThread`, `Slam`, `SlamNotify`, `EndSession`, `Join`, `AnswerCalls` | `ipc_kbox_cleanup`, in this order |

## 6. `Futex`: how it corresponds to the code

`val` is the counter; the wait queue is an instance of `WaitQueueContract`. Between
the atomic access (`Down`, `Up`) and the system call that follows from it (`Sleep`,
`Wakeup`) every other thread may run. `GiveBack` is the `futex_up` of
`futex_down_timeout` after a failure. A down without a deadline is
`futex_lock`/`futex_down`, one with a deadline `futex_down_timeout` or, expired,
`futex_trydown`. `Release` returns a token, `Produce` makes one as `_ready_up` does.
Sleeps are not interrupted: `thread_interrupt` is called for threads of a killed
task only, and these do not come back to user space.

## 7. `Fibril`: how it corresponds to the code

`run[r]` is what a runner (kernel thread) does: executes a fibril or its helper, or
is somewhere in `_ready_list_pop` for one of its callers. `fst[f]` is where a fibril
is in its own code, `event[f]` what its event field holds. Workers are fibrils of
the program and may do at any time what the interface allows; managers are those of
the async framework, which take calls and notify workers. A step is a section under
`fibril_futex` or `ipc_lists_futex`, an operation on the semaphore, a change of
`threads_in_ipc_wait`, or a system call.

| actions | code |
|---|---|
| `WaitNotNeeded`, `WaitSwitch`, `WaitHelper`, `WaitDeliver`, `WaitBuffer` | `fibril_wait_timeout` with the nonblocking `_ready_list_pop` inside it, by what that finds |
| `Notify`, `Start`, `PopNonblocking` | `fibril_notify`, `fibril_start`, begin of `fibril_yield` and `fibril_exit` |
| `SpawnRunners` | `fibril_enable_multithreaded`: the plain counter becomes a semaphore |
| `WaitIpc`, `DropNull` | `_wait_ipc`, `async_manager_worker` |
| `HandleExpiredTimeouts` | the function of that name, called by helpers |
| `Down`, `Pop`, `IpcWait`, `LeaveIpc`, `ReturnToken`, `DeliverToWaiter`, `DeliverToBuffer` | `_ready_list_pop` without the lock, step by step |
| `Switch` | `_fibril_switch_to` from helper, yield and exit, `_fibril_cleanup_dead` |
| `Arrive`, `Expire` | environment: a call arrives, a deadline passes |

Left out: restricted mutexes (they only forbid switching), heavy threads outside
the pool, `_wait_ipc` with a timeout (the async framework passes none), the order of
deadlines (any timeout may be due first), and wrap-around of the counters.

## 8. `FibrilTimer`: how it corresponds to the code

One timer with its fibril and its clients. `Lock`, `Unlock`, `CondvarWait`, `Woken`
and `Broadcast` are the mutex and the condition variable; the timer fibril is
`TimerLoop`, `Waited`, `CallHandler`, `Handler`, `Handled`, `TimerExit`; the clients
`Begin`, `ClearWait`, `Clear`, `Set`, `Release`. A fibril whose wait has timed out stays
linked in the condition variable until it has taken `fibril_synch_futex` again, as in the
code. A failing assertion or a detected deadlock leads to the state `abort`. Durations
are left out.

The timer belongs to a TCP connection, whose `refcnt` decides when it is destroyed. At
first every client has a reference: they stand for the user, the connection map, the
state that is not closed, and whoever has found the connection. `Set` by a client takes
a reference for the timer (`Addref`), a `Clear` that finds it active drops it, and the
handler, which holds it while it runs, keeps it when it sets the timer again and drops
it otherwise (`HandlerDelref`: closed, nothing to retransmit, no memory, or the end of
TIME-WAIT). `Drop` is a client that gives its reference up. Whoever drops the last one
(`Delref`) runs `Destroy`, `DestroyWait`, `DestroyEnd`, `Free`, with the timer never set,
cleared or fired, and without a clear: a client, or the timer fibril inside its handler.

Restrictions. As in the retransmission queue a set by a client is preceded by a clear
under the same lock; restarting the TIME-WAIT timer without one (`conn.c:1158`) and users
that do not count references (`ui_clickmatic_destroy`) are not covered. The references of
the map and of the open state that `tw_timeout_func` drops under the lock are dropped by
clients here. A connection has two timers; each is such a timer, but the model has one.

## 9. Runs

| run | properties | instance | shows |
|---|---|---|---|
| `waitq` | `TypeOK`, `NoLostWakeup`, `NoLostInterrupt`, `NoLostTimeout`, `RequeuedOnce`, `TimeoutFrameAlive`; `QueueUnusedOnReturn`, `ImplementsContract`, `SleepEnds` | 2 threads, 2 contexts, all modes, 3 operations, fairness; 0.3 M states | no race loses or doubles a wakeup, or touches a dead frame; the implementation refines the contract; the queue may be freed after a sleep; sleeps end |
| `ipc_lifetime` | `TypeOK`, `ForgottenXorAnswered`, `CallLifetime`, `PhoneNotDangling`, `NoStrandedMessage`, `AssertionsHold` | 2 tasks with a thread each, phones both ways, an asynchronous and a synchronous call, the server killed; 0.7 M states | calls and phones live as long as needed, nothing is stranded |
| `ipc_cleanup` | `PhoneAccounting`, `BoxAccounting`, `PhoneLifetime`, `AllAnswersArrived`, `BoxAlive` | client killed, two server threads, an asynchronous and a connecting call; 0.9 M states | counters are exact, no answer comes too late |
| `ipc_cleanup_ends` | `CleanupEnds` | client killed, a connecting call, one poke, fairness | `ipc_cleanup` terminates |
| `futex` | `TypeOK`, `TokensAddUp`, `NoTokenInvented`, `NoTokenLost`, `DownEnds` | 3 threads, a lock, one more token produced, fairness; 18 k states | the futex is a semaphore, timeouts included |
| `fibril` | `TypeOK`, `TokenAccounting`, `InOnePlace`, `NotifyNotLost`, `AssertionsHold`, `CallsConserved`; `IdleRunnersWork`, `TimedWaitsEnd` | 2 runners, 2 workers, a manager, a call buffer, 4 operations, a call, fairness; 0.4 M states | nothing is lost or doubled, idle runners find the work |
| `fibril_timer` | `TypeOK`, `SetsAccountedFor`, `ReferencesExact`, `TimerQuiescent`, `AssertionsHold`; `DestroyEnds` | 2 clients, 3 sets, fairness; 50 k states | what a clear returns and the reference count are exact; destroying is safe, and ends if a client does it |
| `ipc_forget_sync`, `ipc_hangup_race`, `fibril_timer_clear`, `fibril_timer_free`, `kernel_box` | one each | small | see findings |

*Bounds.* `MaxOps` bounds how many operations are started in the wait queue. Two
sleepers and two wakers with three operations contain every pairwise race at the
sleep pad (wakeup, timeout, interruption, stack trace, cleanup), and a composable
failure followed by a wakeup; the safety properties and the
refinement are proved for all bounds (section 11). The properties hold with five
operations too (2.0 M states), the refinement with four (1.7 M). The same goes for the safety properties of `Futex`, `Fibril` and
`FibrilTimer`: their bounds only limit what TLC looks at. In `Ipc` every
call of `Calls` is made once, so a name stands for one life of a `call_t`; two
calls and the hangup calls of the phones are enough for an answer to one to race
with the sending, forwarding, forgetting or cleanup of another. The properties of
`ipc_lifetime` also hold when both tasks may be killed (3.4 M states; not kept as
a run because of its length). `MaxAsyncCalls` is 2 instead of 500;
`MaxPokes` bounds `sys_ipc_poke`, the only operation that could add wakeups
for ever. Symmetry is used for threads that are interchangeable in the instance, and
never for liveness.

In `Futex` `MaxUps` bounds the tokens that are made; downs and ups of a lock are not
bounded. Three threads are a holder, a sleeper and one that times out; four (0.5 M
states) show the same. In `Fibril` `MaxOps` bounds starts, notifications, yields and
timed waits, `MaxCalls` the calls; plain waits are not bounded. One buffer for calls
instead of 1024 lets it run full. Two workers and a manager on two runners contain a
notification, a timeout and a call for a fibril that is just blocking on the other
runner; the properties also hold with two calls (1.1 M states). In `FibrilTimer` three
sets are one that fires, one that is cancelled and one made by the handler, and two
clients are one that destroys the timer and one that still uses it or its handler. In
`KernelBox` a debugger makes at most `MaxCalls` calls, and a phone is used once.

*Deadlock* is not checked: a thread may sleep for ever if nobody wakes it up, and
tasks may be gone; a program may have nothing to do, and a timer is destroyed in the
end, or its handler waits for itself. The liveness properties say who must not wait for ever.

*Why two instances for IPC.* `BoxAlive`, `AllAnswersArrived` and the exact
accounting hold for a client that makes asynchronous calls only and that nobody
has a phone to. The violation runs `ipc_forget_sync` and `ipc_hangup_race`, and the refused
synchronous call of section 10, show that they do not hold with
synchronous calls or with phones to the dying task. `BoxAlive` also needs
`MaxPokes = 0`: `_ipc_answer_free_call` wakes the caller up after its answer is
visible, so with a spare wakeup the caller may receive the answer, finish and free
the answerbox first. Section 11 proves that nothing else goes wrong: in any system
the properties hold as long as these particular steps are not taken.

*Fairness.* In `WaitQueue`: a thread or context that executes kernel code goes on,
a ready thread is dispatched (the scheduler is preemptive) and clock interrupts
arrive; nobody has to start an operation. Weak fairness suffices for the lock
because `MaxOps` makes the competition for it finite; the spinlock of the kernel
gives no stronger guarantee. In `Ipc`: threads in kernel code go on; nothing is
assumed of user space, so servers need not answer.
In `KernelBox` the kbox thread, a hangup that has begun and the cleanup go on;
debuggers need not do anything. In `Futex` a thread in an operation goes on, a sleep
with a deadline ends, and the holder of a token returns it: `DownEnds` is about locks.
It has a premise: threads that time out again and again can annul every wakeup before
it reaches a sleeper, so that the futex is not starvation-free with timeouts. In
`Fibril` code of the library goes on (the kernel schedules the runners) and deadlines
pass; a fibril of the program may compute for ever, hence `IdleRunnersWork` allows for
all runners being busy and `TimedWaitsEnd` assumes that no runner is busy for ever. In
`FibrilTimer` a runnable fibril runs, which is `IdleRunnersWork`, and timeouts expire;
clients need neither begin an operation nor drop their references.

## 10. Findings

Each is a violation run whose property is taken from a comment or an assertion.

* **`ipc_forget_sync`.** `ipc_forget_call` decrements `active_calls` of the task's
  answerbox, but a synchronous call was counted in its own box. A task that was
  interrupted in a synchronous call ends its cleanup one answer too early, or,
  without another call, sees its counter wrap around.
* **`ipc_hangup_race`.** `ipc_phone_hangup` leaves the list of connected phones
  before it sends its call. The owner of the answerbox can pass the corresponding
  phases of its cleanup in between, receives the hangup call while it waits for
  answers, and its assertion fails.
* **`fibril_timer_clear`.** `fibril_timer_clear_locked` waits on the condition variable
  of the timer until no handler runs. The timer fibril resets `handler_fid` after the
  handler without a broadcast. A clear that comes while the handler runs returns only
  if the handler or another fibril happens to set or to clear the timer (TCP's handler
  sets it in the usual case).
* **`fibril_timer_free`.** At the end of TIME-WAIT of a connection that its user has
  deleted, `tw_timeout_func` drops the last reference, and `tcp_conn_free` destroys the
  timer from within its own handler: the timer fibril waits for its own end,
  and "TCP will free @a conn eventually" does not come true. `DestroyEnds` shows
  that a client that destroys the timer comes to an end, also while the
  timer fibril is on its way back from the handler.
* **`kernel_box`.** `ipc_kbox_cleanup` makes the box inactive first and sets
  `kb.finished` in a second step. A debugger connecting in between starts a kbox
  thread, but its phone is not connected, and nobody looks at the result. The cleanup
  then joins a thread that no message will wake up; the last thread of the task never
  exits. With `AllocFails = TRUE` the same happens when `phone_alloc` fails after
  `thread_start`. With the connection refused for an inactive box the property holds
  (86 k states).

Observations made while modelling, without a run:

* A synchronous call on a phone that is not connected is entered in
  `phone->active_calls` and takes references to the phone, although `ipc_req_internal`
  says that "the call was not even sent" (`ipc/sysipc.c:308`). Nothing undoes it: the
  model does so too (`BacksendSync`), and `PhoneAccounting` fails with such a call.
* When `phone_alloc` fails, `IPC_M_CONNECT_ME_TO` is sent back with an error, without a
  phone in `priv` and with the 0 of `sys_ipc_call_async_fast` in ARG5. `answer_process`
  takes that for a handle (`ipc/ops/conctmeto.c:115`), calls `kobject_put(NULL)` and would
  free capability 0, against the assertion in `cap_free` (`cap/cap.c:396`).
* A fibril that has never run does not call `_fibril_cleanup_dead`. When a dying fibril
  switches to it (`fibril.c:481`), the dead one stays in `clean_after_me` until the new
  one blocks; if another dying fibril switches to it before that, the first stack is
  not freed ("switches to another fibril, which cleans up after it", `fibril.c:145`).
* A timer that has timed out, but is cleared and set again before its fibril gets the
  lock, fires at once instead of after the new delay (`fibril_synch.c:499`).
* `udebug_go` wakes up with `waitq_wake_all`, which stores nothing; a GO between the
  unlock and the sleep in `udebug_stoppable_end` is lost (`udebug/udebug.c:186`).

## 11. Proofs

Every theorem holds for all values of the constants that satisfy the `ASSUME` of its
module. Each rests on one inductive invariant, `IInv` of its proof module; there is a
lemma per part of it with one step per action, and the theorems about the properties
follow from `Invariance`: `Spec => []IInv`.

### `WaitQueueProofs`
For any sets of threads, contexts and modes and any number of operations
(`ConstantsAssumption`: the sets are disjoint, modes are well formed, `MaxOps` is a
natural number):

* `TypeCorrect`, `WakeupNotLost`, `InterruptNotLost`, `TimeoutNotLost`,
  `RequeueCorrect`, `TimeoutFrameCorrect`: the invariants of the run `waitq`;
* `StoredCorrect`: `StoredWakeupsUnclaimed`, that stored wakeups, sleepers and a closed
  queue exclude each other;
* `ReturnCorrect`: the action property `QueueUnusedOnReturn`.

None of the properties is inductive alone. `IInv` adds who holds the lock and
where it then is (`LockInv`), what a context does with its target (`WakerInv`),
that the list has no duplicates and only sleepers (`ListInv`), how the sleep pad,
the thread state and the run queue go together (`PadInv`), that one clock
interrupt at most owns a timeout (`TimeoutInv`), and how balance, list and
`closed` exclude each other (`StoredInv`). `NoLostWakeup` needs `PadInv`: the
thread may block only with the pad not `WOKE`, and who removes it from the list
holds the lock and has it as target until it exchanges the pad. The last point is
also `ReturnCorrect`: a returning sleeper has to take the lock.

### `WaitQueueRefinement`
`RefinesContract`: the implementation implements `WaitQueueContract` under the mapping
of `WaitQueue` (`ImplementsContract`). To the invariant above it adds `ModeInv`: a
thread has a mode exactly during a sleep, and only a sleep with a timeout can time out.
Most steps stutter. `SleepAppend` is the contract's `Sleep`, `Relock` and
`SleepImmediate` return or fail, and an operation of a waker takes effect in the step
that changes the queue under its lock; `_wake_all` grants all sleepers when it takes
the lock, so that its later steps stutter. `StoredInv` is what makes a failing
composable sleep leave a debt only when the contract does.

### `IpcProofs`
For any finite sets of tasks and threads and any phones and calls (`IpcAssumption`):
`ForgottenXorAnsweredAlways`, `AssertionsAlways`, `CallLifetimeAlways` and
`NoStrandedMessageAlways`, named after the properties. Nothing is assumed of user
space: any thread may at any time answer, forward, hang up or be killed.

The invariant follows a call through its states, in each of which it is known where the
call is and how many references there are:

| state | where the call is | references |
|---|---|---|
| `Fresh` | nowhere | one if it is the hangup call of a phone, else none |
| `Unsent` | in the hand of its sender | one, two if it is synchronous |
| `Queued` | in `calls` of one task | one |
| `Open` | in `dispatched_calls` of one task | one, and one of its capability |
| `Handled` | in the hand of one thread, and perhaps in its `dispatched_calls` | one, and one of the system call if it had a capability |
| `Answered` | in `answers` of the box of its caller, perhaps with the answerer about to wake up | one, and one of the answerer |
| `Done` | nowhere, perhaps with the answerer still about to wake up | one of the answerer, else none |

The caller of a synchronous call that it has not forgotten has one more. `Pending` and
`Decided` say what the two racing flags are before and after `answer_preprocess`: a
pending call is active, and in the active calls of its owner unless it is forgotten;
from then on it is in no such list, and active only if it was forgotten before. This is
what makes the race between answering and forgetting harmless, and why an answer is
delivered once. That an answer to a synchronous call finds `mybox` alive and empty, and
is the only one in it when the caller wakes up, needs that `Answered` knows the stored
wakeups of a thread's box.

The other parts are what a thread has in its hand at each place (`ThreadInv`), among
them that the other threads of a task in cleanup are dead, and that its call
capabilities are gone once it answers calls; how state, lock, list link and hangup call
of a phone go together (`PhoneInv`); and that lists have no duplicates (`ListInv`). A
lemma `Same` shows once that a step keeps the state of every call that it does not
concern; what is left is one lemma per action about the one call it concerns, and
`SlamDone`, which drops all capabilities of the task.

`NoStrandedMessage` is inductive together with this invariant. Each step changes the
tokens of one thread and the lists and wakeups of one box (`OneBox`), and the sums are
compared (`AwaitedFrame`). The call invariant is needed for the answerer: the box it is
about to wake up cannot change under it, since its call has been sent. The same lemmas
show that wakeups do not outnumber messages either (`Awaited(k, TRUE)`) as long as
`NoSpareWakeup` holds: of all steps only `Poke` and `CleanupCalls` leave a wakeup behind.

### `IpcAccounting`
On top of `IInv`, for the same constants. A step concerns one call, one thread and one
phone at most. `PostedPhone` and `Posted` turn a step into the change of what these three
contribute to the references of a phone and to the counters of phones and boxes; for
each action there is a lemma that the change of the counter is the same. The books (`Books`)
have a parameter, the set of faults that have occurred, so that one proof tells
what holds whatever happens and what holds unless something particular happens.
`PhoneUse` completes the invariant: a phone that is free is referred to by nobody, a
connected one is in the list of its answerbox unless somebody is hanging it up, and the
phone in `call->priv` belongs to that call alone.

| theorem | states | provided that no step is |
|---|---|---|
| `PhoneNotDanglingAlways`, `TypeOKAlways` | `PhoneNotDangling`, `TypeOK` (no reference count below zero) | |
| `PhoneLifetimeAlways`, `PhoneAccountingAlways` | `PhoneLifetime`, `PhoneAccounting` | a synchronous call that is refused (`NoneRefused`) |
| `BoxAccountingAlways`, `AllAnswersArrivedAlways` | `BoxAccounting`, `AllAnswersArrived` | a synchronous call that is forgotten (`NoneForgotten`) |
| `BooksWithoutSyncCalls` | these four | (if `SyncCalls = {}`) |
| `CleanupGetsAnswersOnlyAlways` | `CleanupGetsAnswersOnly` | the end of slamming while somebody hangs up a phone to this task (`NoHangupRace`) |
| `BoxAliveAlways` | `BoxAlive` | forgetting, the hangup race, or one that leaves a spare wakeup (`NoSpareWakeup`) |
| `ClientBoxAlive` | `BoxAlive` | forgetting (if only tasks without phones to them are killed, and `MaxPokes = 0`) |

The provisos are the findings of section 10, each as the one step that does the harm, and
the spare wakeup of section 9. A proviso excludes a step and no state:
everything else that the tasks do, in any order, is covered. So the theorems say that
the findings are the only ways to leak a phone, to miscount answers or to fail the
assertion of the cleanup, and that they and spare wakeups are the only ways to touch a
freed answerbox. `BoxAliveAlways` and
`ClientBoxAlive` assume that each task starts with a thread, since a task without
threads is gone from the start.

`CleanupGetsAnswersOnly` rests on `ShutInv`: a connected phone is in the list of its
answerbox or locked by who hangs it up; when slamming is over, no phone leads to the
task, and no new one is connected, for its box is inactive; after the calls in the box
are answered, none arrives. `BoxAlive` adds `SealInv`, about a task that is gone:
nobody can reach it and nobody is about to wake up its answerbox. When the task ends, the
counter of its box is zero, so no answer is in the box or on its way (`NoneDue`); there
are no requests either; and since wakeups and messages match, no answerer stands before
`waitq_wake_one` (`NoneOnTheWay`). Later answerers would need an answer that is due.
`ClientBoxAlive` shows by `ClientInv` that a task which no boot phone leads to never gets
a request, so that neither race can start; it is the class of systems of which
`ipc_cleanup` checks one. Before the proof, TLC checked `PhoneUse`, and the conclusion of
`BoxAliveAlways` under its provisos with two mortal tasks connected both ways.

### `FutexProofs`
For any finite set of threads: `TypeCorrect`, `CountersAgree` (`TokensAddUp`),
`MutualExclusion` (`NoTokenInvented`) and `TokenNotLost` (`NoTokenLost`). The invariant
counts threads by the place they are at: `val` is all tokens minus the threads that
hold one, or have announced a down in `val` and not yet undone it (`Counted`); a debt of
the wait queue is covered by threads that timed out and will give back, or are about to
call wakeup (`DebtsCovered`); the kernel's list has no duplicates and nobody both waits
and is granted (`ListOK`).

### `FibrilProofs`
For any finite sets of runners and fibrils with at least one manager (the async
framework starts it before anything else, `uspace/lib/c/generic/async/server.c:1034`)
and any positive number of buffers: `TypeCorrect`, `TokensAccountedFor`
(`TokenAccounting`), `OnePlace` (`InOnePlace`), `NotificationKept` (`NotifyNotLost`),
`NoAssertionFails` (`AssertionsHold`) and `CallsNotLost` (`CallsConserved`).

The invariant has two parts. `SchedInv` says where each fibril is: what a runner has in
its hand (`RunnerInv`), that a fibril is run, on one list, or waits (`PlaceInv`), how
its state and its event go together (`StateInv`, `EventInv`), that managers only ever
wait for calls (`ManagerInv`) and whose stack is still to be freed (`CleanInv`). A
switch leaves one fibril and enters another. The proof takes the two halves one after
the other; between them the runner is a helper with a fibril in its hand. That is not
a state of the specification, and therefore the parts of the invariant are operators of
a state. `CountInv` counts tokens and calls. Of its conjuncts two are about a program
with one thread: before `SpawnRunners` the counter never goes below zero, and no call is
ever buffered, because a manager that is in one place only and does not run is waiting
for calls. The assertion on the free buffers needs that the runners about to store a
call never exceed the buffers that are free.

### `FibrilTimerProofs`
For any finite set of clients: `TypeCorrect`, `NoAssertionFails` (`AssertionsHold`),
`ClearTellsTheTruth` (`SetsAccountedFor`), `CountedReferences` (`ReferencesExact`) and
`Quiescence` (`TimerQuiescent`). A fibril
that waits for the mutex is handed it together with its place in the code, hence the
invariant speaks of `At(f)`, the place where a fibril is or will be. The parts: the
mutex and its waiters (`MutexInv`), the waiters of the condition variable (`CvInv`),
what the timer fibril and the handler may be doing in each timer state (`HandlerInv`),
the clients (`ClientInv`), destruction (`EndInv`), and the number of calls of the
handler against the sets that were not cleared (`CalledInv`, `SetsAccountedFor`).
`ReferencesExact` is itself a part: that nobody sets or clears a timer that is being
destroyed, and that it is not active then, follows from a count of zero only because the
count is exact. `EndInv` says the converse: one fibril at a time destroys, with no
reference left, and when it frees the timer the timer fibril has ended.

### Only model-checked
Liveness (`SleepEnds`, `CleanupEnds`, `DownEnds`, `IdleRunnersWork`, `TimedWaitsEnd`,
`DestroyEnds`): fairness and ENABLED are out of reach of the prover. Every invariant and
every action property of a passing run is stated by a theorem, and so is the contract that
`WaitQueue` implements. The runs `kernel_box`,
`fibril_timer_clear` and `fibril_timer_free` are violations of liveness.

## 12. Not modelled

See the inventory. The memory model of the hardware is taken as sequentially
consistent; the code uses acquire/release atomics and spinlocks at the places
where the model has its steps. Memory management, architecture code, drivers and
servers are outside of the plan.
