------------------------------- MODULE Fibril -------------------------------
(***************************************************************************)
(* The fibril scheduler of user space, uspace/lib/c/generic/thread/fibril.c*)
(* Runners are kernel threads of one task that execute its fibrils. A      *)
(* runner without a fibril executes its helper fibril: it waits until a    *)
(* fibril is ready, a timeout expires or a call arrives.                   *)
(*                                                                         *)
(* ready_semaphore has a token for every fibril in ready_list and one for  *)
(* every free call buffer. Who takes a token takes a fibril or, when there *)
(* is none, waits for a call on behalf of everybody. Somebody who makes a  *)
(* fibril ready meanwhile has to poke a runner out of that wait.           *)
(*                                                                         *)
(* A step is a section under fibril_futex or ipc_lists_futex, an operation *)
(* on ready_semaphore, an update of threads_in_ipc_wait, or a system call. *)
(***************************************************************************)
EXTENDS Integers, Sequences, FiniteSets, SequencesExt

CONSTANTS
    Runners,        \* kernel threads
    FirstRunner,    \* the thread the task starts with
    Workers,        \* fibrils of the program
    Main,           \* the worker that runs main()
    Managers,       \* fibrils of the async framework that take calls
    Late,           \* workers that are not yet started
    NoFibril,
    BufferCount,    \* IPC_BUFFER_COUNT
    MaxOps,         \* bound on operations the workers start
    MaxCalls        \* bound on calls sent to the task

Fibrils == Workers \cup Managers

ASSUME FibrilAssumption ==
    /\ FirstRunner \in Runners
    /\ Main \in Workers \ Late
    /\ Late \subseteq Workers
    /\ Workers \cap Managers = {} /\ Runners \cap Fibrils = {}
    /\ NoFibril \notin Fibrils \cup Runners
    /\ Managers # {}     \* __async_server_init() starts one
    /\ IsFiniteSet(Runners) /\ IsFiniteSet(Fibrils)
    /\ BufferCount \in Nat \ {0} /\ MaxOps \in Nat /\ MaxCalls \in Nat

VARIABLES
    multithreaded,
    sem,            \* ready_semaphore, ready_st_count
    ready_list,
    fst,            \* what a fibril is doing
    event,          \* the event a fibril waits for: event->fibril
    note,           \* history: notified since the last wait returned
    timeout_list,   \* fibrils with a timeout in the list
    due,            \* those whose time has come
    ipc_waiter_list,
    got,            \* the call handed to a manager
    ipc_buffer_list,
    free,           \* length of ipc_buffer_free_list
    threads_in_ipc_wait,
    box,            \* calls in the answerbox
    wakeups,        \* stored wakeups of the answerbox, pokes included
    run,            \* what a runner is doing
    clean,          \* clean_after_me of fibrils and helpers (by runner)
    ops, arrived, handled    \* counters

fibrilVars == <<fst, event, note, got, clean>>
ipcVars == <<ipc_waiter_list, ipc_buffer_list, free>>
kernelVars == <<box, wakeups, arrived>>
vars == <<multithreaded, sem, ready_list, timeout_list, due, fibrilVars, ipcVars,
          threads_in_ipc_wait, kernelVars, run, ops, handled>>

\* cur is the fibril on the runner, or the runner itself for its helper.
\* kind says who called _ready_list_pop(); hand is what it returned.
Runner(pc, cur, kind) ==
    [pc |-> pc, cur |-> cur, kind |-> kind, hand |-> NoFibril, to |-> NoFibril, call |-> "none"]

\* main() runs; the library has blocked before, so helpers have run once.
Init ==
    /\ multithreaded = FALSE
    /\ ready_list = SetToSeq(Managers)
    /\ sem = Cardinality(Managers) + BufferCount
    /\ fst = [f \in Fibrils |-> CASE f = Main -> "user" [] f \in Late -> "new"
                                  [] f \in Managers -> "start" [] OTHER -> "wait"]
    /\ event = [f \in Fibrils |-> IF fst[f] = "wait" THEN "waiting" ELSE "initial"]
    /\ note = [f \in Fibrils |-> FALSE]
    /\ timeout_list = {} /\ due = {}
    /\ ipc_waiter_list = <<>> /\ ipc_buffer_list = <<>> /\ free = BufferCount
    /\ got = [f \in Managers |-> "none"]
    /\ threads_in_ipc_wait = 0
    /\ box = 0 /\ wakeups = 0 /\ arrived = 0
    /\ run = [r \in Runners |-> IF r = FirstRunner THEN Runner("run", Main, "none")
                                                   ELSE Runner("off", r, "none")]
    /\ clean = [x \in Fibrils \cup Runners |-> NoFibril]
    /\ ops = 0 /\ handled = 0

-----------------------------------------------------------------------------
(* Building blocks                                                         *)

\* Wrong variant: nobody is poked.
ReadyListPushNoPoke(fs) ==
    /\ ready_list' = ready_list \o fs
    /\ sem' = sem + Len(fs)
    /\ UNCHANGED wakeups

\* _ready_list_push() of several fibrils, under fibril_futex.
ReadyListPush(fs) ==
    /\ ready_list' = ready_list \o fs
    /\ sem' = sem + Len(fs)
    /\ wakeups' = IF threads_in_ipc_wait > 0 THEN wakeups + Len(fs) ELSE wakeups

\* _ready_down() finds a token; the counter of a single thread never blocks.
CanDown == multithreaded => sem > 0

\* Wrong variant: a fibril that is already on its way is made ready again.
WokenUnlessInitial(g) == IF event[g] # "initial" THEN <<g>> ELSE <<>>

\* _fibril_trigger_internal(): the fibril it returns, if any.
Woken(g) == IF event[g] = "waiting" THEN <<g>> ELSE <<>>

\* ipc_wait() returns a call, or ENOENT when there is only a poke.
Received == IF box > 0 THEN "call" ELSE "null"
TakeCall ==
    /\ wakeups' = wakeups - 1
    /\ box' = IF box > 0 THEN box - 1 ELSE 0
    /\ UNCHANGED arrived

\* _fibril_switch_to(): the runner continues with dst, a fibril or its helper.
\* The other arguments are the state as the fibril switched from left it.
\* dst finishes its fibril_wait_timeout() and frees a dead predecessor; a
\* fibril that has never run does not come by _fibril_cleanup_dead().
SwitchTo(r, dst, evt, nte, tmo, fs, cl) ==
    LET waits == dst \in Fibrils /\ fs[dst] = "wait"
        fresh == dst \in Fibrils /\ fs[dst] = "start"
        freed == IF fresh THEN NoFibril ELSE cl[dst]
    IN  /\ run' = [run EXCEPT ![r] = Runner(IF dst = r THEN "timeouts" ELSE "run", dst, "none")]
        /\ event' = IF waits THEN [evt EXCEPT ![dst] = "initial"] ELSE evt
        /\ note' = IF waits /\ evt[dst] = "triggered" THEN [nte EXCEPT ![dst] = FALSE] ELSE nte
        /\ timeout_list' = tmo \ {dst}
        /\ due' = due \ {dst}
        /\ fst' = [f \in Fibrils |->
                     IF f = dst THEN (IF waits /\ f \in Managers THEN "handle" ELSE "user")
                     ELSE IF f = freed THEN "freed" ELSE fs[f]]
        /\ clean' = IF fresh THEN cl ELSE [cl EXCEPT ![dst] = NoFibril]

\* The fibril f on runner r executes code in state st.
Runs(r, f, st) == run[r].pc = "run" /\ run[r].cur = f /\ fst[f] = st

Operation == ops < MaxOps /\ ops' = ops + 1

-----------------------------------------------------------------------------
(* fibril_wait_timeout(), under fibril_futex from its begin to the switch  *)

\* Workers wait for their event, managers for a call they are linked for.
MayWait(r, f, expires) ==
    \/ Runs(r, f, "user") /\ f \in Workers /\ (IF expires THEN Operation ELSE UNCHANGED ops)
    \/ Runs(r, f, "linked") /\ ~expires /\ UNCHANGED ops

Returned(f) == [fst EXCEPT ![f] = IF f \in Managers THEN "handle" ELSE "user"]

\* f blocks and its runner goes on with dst.
BlockAndSwitch(r, f, expires, dst, evt, nte) ==
    SwitchTo(r, dst, [evt EXCEPT ![f] = "waiting"], nte,
             IF expires THEN timeout_list \cup {f} ELSE timeout_list,
             [fst EXCEPT ![f] = "wait"], clean)

\* Already triggered: no need to block.
WaitNotNeeded(r, f) ==
    /\ event[f] = "triggered"
    /\ event' = [event EXCEPT ![f] = "initial"]
    /\ note' = [note EXCEPT ![f] = FALSE]
    /\ fst' = Returned(f)
    /\ UNCHANGED <<sem, ready_list, timeout_list, due, got, clean, ipcVars, kernelVars, run>>

\* _ready_list_pop_nonblocking() returns a ready fibril.
WaitSwitch(r, f, expires) ==
    /\ event[f] = "initial" /\ CanDown /\ ready_list # <<>>
    /\ sem' = sem - 1
    /\ ready_list' = Tail(ready_list)
    /\ BlockAndSwitch(r, f, expires, Head(ready_list), event, note)
    /\ UNCHANGED <<got, ipcVars, kernelVars>>

\* ... or finds nothing at all: the helper takes over.
WaitHelper(r, f, expires) ==
    /\ event[f] = "initial"
    /\ ~CanDown \/ (ready_list = <<>> /\ wakeups = 0)
    /\ BlockAndSwitch(r, f, expires, r, event, note)
    /\ UNCHANGED <<sem, ready_list, got, ipcVars, kernelVars>>

\* ... or finds a call and hands it to the manager that waits longest.
WaitDeliver(r, f, expires) ==
    /\ event[f] = "initial" /\ CanDown /\ ready_list = <<>> /\ wakeups > 0
    /\ ipc_waiter_list # <<>>
    /\ LET w == Head(ipc_waiter_list)
           triggered == [event EXCEPT ![w] = "triggered"]
           noted == [note EXCEPT ![w] = TRUE]
       IN  /\ got' = [got EXCEPT ![w] = Received]
           /\ ipc_waiter_list' = Tail(ipc_waiter_list)
           /\ \/ /\ w = f
                 /\ fst' = Returned(f)
                 /\ UNCHANGED <<event, note, timeout_list, due, clean, run>>
              \/ /\ w # f
                 /\ BlockAndSwitch(r, f, expires, IF event[w] = "waiting" THEN w ELSE r,
                                   triggered, noted)
    /\ TakeCall
    /\ UNCHANGED <<sem, ready_list, ipc_buffer_list, free>>

\* ... or has to buffer the call because no manager waits.
WaitBuffer(r, f, expires) ==
    /\ event[f] = "initial" /\ CanDown /\ ready_list = <<>> /\ wakeups > 0
    /\ ipc_waiter_list = <<>>
    /\ ipc_buffer_list' = Append(ipc_buffer_list, Received)
    /\ free' = free - 1
    /\ sem' = sem - 1
    /\ TakeCall
    /\ BlockAndSwitch(r, f, expires, r, event, note)
    /\ UNCHANGED <<ready_list, got, ipc_waiter_list>>

FibrilWait(r, f, expires) ==
    /\ MayWait(r, f, expires)
    /\ \/ WaitNotNeeded(r, f)
       \/ WaitSwitch(r, f, expires)
       \/ WaitHelper(r, f, expires)
       \/ WaitDeliver(r, f, expires)
       \/ WaitBuffer(r, f, expires)
    /\ UNCHANGED <<multithreaded, threads_in_ipc_wait, handled>>

-----------------------------------------------------------------------------
(* What else a fibril may do                                               *)

\* fibril_notify(): up to one wakeup is remembered. Managers pass a call on.
Notify(r, f, g) ==
    /\ g \in Workers /\ fst[g] \notin {"new", "dead", "freed"}
    /\ \/ /\ Runs(r, f, "user") /\ f \in Workers /\ Operation
          /\ UNCHANGED <<fst, got, handled>>
       \/ /\ Runs(r, f, "handle") /\ got[f] = "call"
          /\ fst' = [fst EXCEPT ![f] = "user"]
          /\ got' = [got EXCEPT ![f] = "none"]
          /\ handled' = handled + 1
          /\ UNCHANGED ops
    /\ event' = [event EXCEPT ![g] = "triggered"]
    /\ note' = [note EXCEPT ![g] = TRUE]
    /\ ReadyListPush(Woken(g))
    /\ UNCHANGED <<multithreaded, timeout_list, due, clean, ipcVars, threads_in_ipc_wait,
                   box, arrived, run>>

\* A manager drops what is no call: the result of a poke.
DropNull(r, f) ==
    /\ Runs(r, f, "handle") /\ got[f] = "null"
    /\ fst' = [fst EXCEPT ![f] = "user"]
    /\ got' = [got EXCEPT ![f] = "none"]
    /\ UNCHANGED <<multithreaded, sem, ready_list, event, note, timeout_list, due, clean, ipcVars,
                   threads_in_ipc_wait, kernelVars, run, ops, handled>>

\* _wait_ipc(), under ipc_lists_futex: a buffered call, or link to wait.
WaitIpc(r, f) ==
    /\ Runs(r, f, "user") /\ f \in Managers
    /\ \/ /\ ipc_buffer_list # <<>>
          /\ got' = [got EXCEPT ![f] = Head(ipc_buffer_list)]
          /\ ipc_buffer_list' = Tail(ipc_buffer_list)
          /\ free' = free + 1
          /\ sem' = sem + 1
          /\ fst' = [fst EXCEPT ![f] = "handle"]
          /\ UNCHANGED ipc_waiter_list
       \/ /\ ipc_buffer_list = <<>>
          /\ ipc_waiter_list' = Append(ipc_waiter_list, f)
          /\ fst' = [fst EXCEPT ![f] = "linked"]
          /\ UNCHANGED <<got, ipc_buffer_list, free, sem>>
    /\ UNCHANGED <<multithreaded, ready_list, event, note, timeout_list, due, clean,
                   threads_in_ipc_wait, kernelVars, run, ops, handled>>

\* fibril_start()
Start(r, f, g) ==
    /\ Runs(r, f, "user") /\ f \in Workers /\ Operation
    /\ fst[g] = "new"
    /\ fst' = [fst EXCEPT ![g] = "start"]
    /\ ReadyListPush(<<g>>)
    /\ UNCHANGED <<multithreaded, event, note, got, timeout_list, due, clean, ipcVars,
                   threads_in_ipc_wait, box, arrived, run, handled>>

\* fibril_test_spawn_runners(): from now on the semaphore counts.
SpawnRunners(r, f) ==
    /\ Runs(r, f, "user") /\ f = Main /\ ~multithreaded
    /\ multithreaded' = TRUE
    /\ run' = [x \in Runners |-> IF run[x].pc = "off" THEN Runner("timeouts", x, "none") ELSE run[x]]
    /\ UNCHANGED <<sem, ready_list, timeout_list, due, fibrilVars, ipcVars,
                   threads_in_ipc_wait, kernelVars, ops, handled>>

\* fibril_yield() and fibril_exit() begin with a nonblocking pop.
PopNonblocking(r, f, kind) ==
    /\ Runs(r, f, "user") /\ f \in Workers
    /\ \/ kind = "yield" /\ Operation
       \/ kind = "exit" /\ f # Main /\ UNCHANGED ops
    /\ run' = [run EXCEPT ![r].pc = "down", ![r].kind = kind]
    /\ UNCHANGED <<multithreaded, sem, ready_list, timeout_list, due, fibrilVars, ipcVars,
                   threads_in_ipc_wait, kernelVars, handled>>

-----------------------------------------------------------------------------
(* _ready_list_pop() without fibril_futex: helper, yield and exit          *)

\* Wrong variant: a timeout overrides a notification.
TimedOutAlways(f) == IF f \in due THEN "timedout" ELSE event[f]

\* _fibril_trigger_internal(event, _EVENT_TIMED_OUT)
TimedOut(f) == IF f \in due /\ event[f] = "waiting" THEN "timedout" ELSE event[f]

\* Wrong variant: a timeout that has fired stays in the list.
RemainingTimeoutsAll == timeout_list

RemainingTimeouts == timeout_list \ due

\* Wrong variant: the helper waits although there are timeouts.
NextTimeoutNone(list) == {NoFibril}

\* The first of the remaining timeouts may be any of them.
NextTimeout(list) == IF list = {} THEN {NoFibril} ELSE list

\* _handle_expired_timeouts(): all that are due, in any order; what remains
\* limits how long the helper will wait.
HandleExpiredTimeouts(r) ==
    /\ run[r].pc = "timeouts"
    /\ \E fs \in SetToSeqs({f \in due : event[f] = "waiting"}) : ReadyListPush(fs)
    /\ event' = [f \in Fibrils |-> TimedOut(f)]
    /\ timeout_list' = RemainingTimeouts
    /\ due' = {}
    /\ \E next \in NextTimeout(RemainingTimeouts) :
           run' = [run EXCEPT ![r] = [Runner("down", r, "helper") EXCEPT !.to = next]]
    /\ UNCHANGED <<multithreaded, fst, note, got, clean, ipcVars, threads_in_ipc_wait,
                   box, arrived, ops, handled>>

\* Nonblocking, or the deadline of the helper has passed.
GivesUp(r) ==
    \/ run[r].kind # "helper"
    \/ run[r].to # NoFibril /\ (run[r].to \in due \/ run[r].to \notin timeout_list)

\* _ready_list_pop() returns NULL.
PopFails(r) ==
    run' = [run EXCEPT ![r] =
              CASE @.kind = "helper" -> Runner("timeouts", r, "none")
                [] @.kind = "yield" -> Runner("run", @.cur, "none")
                [] @.kind = "exit" -> [@ EXCEPT !.pc = "switch", !.hand = r, !.call = "none"]]

Down(r) ==
    /\ run[r].pc = "down"
    /\ \/ /\ CanDown
          /\ sem' = sem - 1
          /\ run' = [run EXCEPT ![r].pc = "pop"]
       \/ /\ ~CanDown /\ GivesUp(r)
          /\ PopFails(r)
          /\ UNCHANGED sem
    /\ UNCHANGED <<multithreaded, ready_list, timeout_list, due, fibrilVars, ipcVars,
                   threads_in_ipc_wait, kernelVars, ops, handled>>

\* A token is worth a ready fibril or a turn at waiting for calls.
Pop(r) ==
    /\ run[r].pc = "pop"
    /\ \/ /\ ready_list # <<>>
          /\ ready_list' = Tail(ready_list)
          /\ run' = [run EXCEPT ![r].pc = "switch", ![r].hand = Head(ready_list)]
          /\ UNCHANGED threads_in_ipc_wait
       \/ /\ ready_list = <<>>
          /\ threads_in_ipc_wait' = threads_in_ipc_wait + 1
          /\ run' = [run EXCEPT ![r].pc = "ipc"]
          /\ UNCHANGED ready_list
    /\ UNCHANGED <<multithreaded, sem, timeout_list, due, fibrilVars, ipcVars, kernelVars,
                   ops, handled>>

IpcWait(r) ==
    /\ run[r].pc = "ipc"
    /\ \/ /\ wakeups > 0
          /\ TakeCall
          /\ run' = [run EXCEPT ![r].pc = "leave", ![r].call = Received]
       \/ /\ wakeups = 0 /\ GivesUp(r)
          /\ run' = [run EXCEPT ![r].pc = "leave"]
          /\ UNCHANGED kernelVars
    /\ UNCHANGED <<multithreaded, sem, ready_list, timeout_list, due, fibrilVars, ipcVars,
                   threads_in_ipc_wait, ops, handled>>

LeaveIpc(r) ==
    /\ run[r].pc = "leave"
    /\ threads_in_ipc_wait' = threads_in_ipc_wait - 1
    /\ run' = [run EXCEPT ![r].pc = IF run[r].call = "none" THEN "return" ELSE "deliver"]
    /\ UNCHANGED <<multithreaded, sem, ready_list, timeout_list, due, fibrilVars, ipcVars,
                   kernelVars, ops, handled>>

\* Wrong variant: the counter is decremented on this path, too.
ReturnTokenLeave(r) ==
    /\ run[r].pc = "return"
    /\ sem' = sem + 1
    /\ threads_in_ipc_wait' = threads_in_ipc_wait - 1
    /\ PopFails(r)
    /\ UNCHANGED <<multithreaded, ready_list, timeout_list, due, fibrilVars, ipcVars,
                   kernelVars, ops, handled>>

\* Wrong variant: the token is kept.
ReturnTokenNot(r) ==
    /\ run[r].pc = "return"
    /\ PopFails(r)
    /\ UNCHANGED <<multithreaded, sem, ready_list, timeout_list, due, fibrilVars, ipcVars,
                   threads_in_ipc_wait, kernelVars, ops, handled>>

\* Nothing received: the token goes back.
ReturnToken(r) ==
    /\ run[r].pc = "return"
    /\ sem' = sem + 1
    /\ PopFails(r)
    /\ UNCHANGED <<multithreaded, ready_list, timeout_list, due, fibrilVars, ipcVars,
                   threads_in_ipc_wait, kernelVars, ops, handled>>

\* The runner is handed the manager if that is already blocked.
ContinueWith(r, w) ==
    IF event[w] = "waiting"
    THEN run' = [run EXCEPT ![r].pc = "switch", ![r].hand = w, ![r].call = "none"]
    ELSE PopFails(r)

\* Wrong variant: the call is handed over only to a manager that is blocked.
HandOverIfBlocked(r, w) == got' = IF event[w] = "waiting" THEN [got EXCEPT ![w] = run[r].call] ELSE got

HandOver(r, w) == got' = [got EXCEPT ![w] = run[r].call]

\* The call goes to the manager that waits longest, and the token back.
DeliverToWaiter(r) ==
    /\ run[r].pc = "deliver" /\ ipc_waiter_list # <<>>
    /\ LET w == Head(ipc_waiter_list)
       IN  /\ HandOver(r, w)
           /\ event' = [event EXCEPT ![w] = "triggered"]
           /\ note' = [note EXCEPT ![w] = TRUE]
           /\ ContinueWith(r, w)
    /\ ipc_waiter_list' = Tail(ipc_waiter_list)
    /\ sem' = sem + 1
    /\ UNCHANGED <<multithreaded, ready_list, timeout_list, due, fst, clean, ipc_buffer_list, free,
                   threads_in_ipc_wait, kernelVars, ops, handled>>

\* The call goes to a buffer, and the token stays with it.
DeliverToBuffer(r) ==
    /\ run[r].pc = "deliver" /\ ipc_waiter_list = <<>>
    /\ ipc_buffer_list' = Append(ipc_buffer_list, run[r].call)
    /\ free' = free - 1
    /\ PopFails(r)
    /\ UNCHANGED <<multithreaded, sem, ready_list, timeout_list, due, fibrilVars, ipc_waiter_list,
                   threads_in_ipc_wait, kernelVars, ops, handled>>

\* _fibril_switch_to() of helper, yield and exit, under fibril_futex.
Switch(r) ==
    /\ run[r].pc = "switch"
    /\ LET src == run[r].cur
           dst == run[r].hand
       IN  \/ /\ run[r].kind = "helper"
              /\ SwitchTo(r, dst, event, note, timeout_list, fst, clean)
              /\ UNCHANGED <<sem, ready_list, wakeups>>
           \/ /\ run[r].kind = "yield"
              /\ ReadyListPush(<<src>>)
              /\ SwitchTo(r, dst, event, note, timeout_list, fst, clean)
           \/ /\ run[r].kind = "exit"
              /\ SwitchTo(r, dst, event, note, timeout_list, [fst EXCEPT ![src] = "dead"],
                          [clean EXCEPT ![dst] = src])
              /\ UNCHANGED <<sem, ready_list, wakeups>>
    /\ UNCHANGED <<multithreaded, got, ipcVars, threads_in_ipc_wait, box, arrived, ops, handled>>

-----------------------------------------------------------------------------
(* The environment: calls arrive, time passes                              *)

Arrive ==
    /\ arrived < MaxCalls
    /\ arrived' = arrived + 1
    /\ box' = box + 1
    /\ wakeups' = wakeups + 1
    /\ UNCHANGED <<multithreaded, sem, ready_list, timeout_list, due, fibrilVars, ipcVars,
                   threads_in_ipc_wait, run, ops, handled>>

Expire(f) ==
    /\ f \in timeout_list \ due
    /\ due' = due \cup {f}
    /\ UNCHANGED <<multithreaded, sem, ready_list, timeout_list, fibrilVars, ipcVars,
                   threads_in_ipc_wait, kernelVars, run, ops, handled>>

\* What the program does.
UserStep(r) ==
    \E f \in Workers :
        \/ \E expires \in BOOLEAN : FibrilWait(r, f, expires)
        \/ \E g \in Workers : Notify(r, f, g) \/ Start(r, f, g)
        \/ SpawnRunners(r, f)
        \/ \E kind \in {"yield", "exit"} : PopNonblocking(r, f, kind)

\* What the library does: managers, helpers, and operations under way.
LibraryStep(r) ==
    \/ \E f \in Managers :
          \/ FibrilWait(r, f, FALSE)
          \/ \E g \in Workers : Notify(r, f, g)
          \/ DropNull(r, f)
          \/ WaitIpc(r, f)
    \/ HandleExpiredTimeouts(r)
    \/ Down(r)
    \/ Pop(r)
    \/ IpcWait(r)
    \/ LeaveIpc(r)
    \/ ReturnToken(r)
    \/ DeliverToWaiter(r)
    \/ DeliverToBuffer(r)
    \/ Switch(r)

Next ==
    \/ \E r \in Runners : UserStep(r) \/ LibraryStep(r)
    \/ Arrive
    \/ \E f \in Fibrils : Expire(f)

Spec == Init /\ [][Next]_vars

\* The kernel runs the threads, so library code goes on, and time passes.
\* Nothing is assumed of the program: a fibril may compute for ever.
FairSpec == Spec /\ (\A r \in Runners : WF_vars(LibraryStep(r)))
                 /\ (\A f \in Workers : WF_vars(Expire(f)))

-----------------------------------------------------------------------------
Calls == {"none", "call", "null"}

RunnerStates ==
    [pc : {"off", "run", "timeouts", "down", "pop", "ipc", "leave", "return", "deliver", "switch"},
     cur : Fibrils \cup Runners, kind : {"none", "helper", "yield", "exit"},
     hand : Fibrils \cup Runners \cup {NoFibril}, to : Fibrils \cup {NoFibril}, call : Calls]

\* The type of the state.
TypeOK ==
    /\ multithreaded \in BOOLEAN
    /\ sem \in Nat
    /\ ready_list \in Seq(Fibrils)
    /\ fst \in [Fibrils -> {"new", "start", "user", "linked", "wait", "handle", "dead", "freed"}]
    /\ event \in [Fibrils -> {"initial", "waiting", "triggered", "timedout"}]
    /\ note \in [Fibrils -> BOOLEAN]
    /\ due \subseteq timeout_list /\ timeout_list \subseteq Workers
    /\ ipc_waiter_list \in Seq(Managers)
    /\ got \in [Managers -> Calls]
    /\ ipc_buffer_list \in Seq(Calls \ {"none"})
    /\ free \in 0..BufferCount
    /\ threads_in_ipc_wait \in 0..Cardinality(Runners)
    /\ box \in 0..MaxCalls /\ wakeups \in Nat
    /\ arrived \in 0..MaxCalls /\ handled \in 0..MaxCalls /\ ops \in 0..MaxOps
    /\ run \in [Runners -> RunnerStates]
    /\ clean \in [Fibrils \cup Runners -> Fibrils \cup {NoFibril}]

\* Tokens in the hands of runners.
InHand == {r \in Runners : run[r].pc \in {"pop", "ipc", "leave", "return", "deliver"}}

\* ready_semaphore counts the ready fibrils and the free buffers, although
\* neither is touched together with it: "There is one extra token on the
\* semaphore for each entry of the call buffer."
TokenAccounting == sem + Cardinality(InHand) = Len(ready_list) + free

Places(f) ==
    Cardinality({i \in DOMAIN ready_list : ready_list[i] = f})
        + Cardinality({r \in Runners : run[r].cur = f})
        + Cardinality({r \in Runners : run[r].hand = f})
        + (IF event[f] = "waiting" THEN 1 ELSE 0)

\* A fibril is on one runner, or in the ready list once, or on its way from
\* there, or waits for its event: two threads never execute one stack. A
\* dead one is nowhere, and is not freed while a runner uses its stack.
InOnePlace ==
    \A f \in Fibrils : Places(f) = IF fst[f] \in {"new", "dead", "freed"} THEN 0 ELSE 1

\* fibril_wait_timeout(): "It is guaranteed that timing out cannot cause
\* another thread's fibril_notify() to be lost." The event remembers a
\* notification until the wait returns with EOK, and no other.
NotifyNotLost == \A f \in Fibrils : note[f] = (event[f] = "triggered")

\* The assertions of the code: a buffer for every received call; a single
\* thread does not ask for calls while some are buffered; an event that is
\* waited for belongs to a fibril in fibril_wait_timeout().
AssertionsHold ==
    /\ free >= 0
    /\ ~multithreaded => ipc_buffer_list = <<>>
    /\ \A f \in Fibrils : event[f] \in {"waiting", "timedout"} => fst[f] = "wait"
    /\ \A f \in timeout_list : fst[f] = "wait" /\ event[f] # "timedout"

\* No call gets lost or doubled on its way from the answerbox through a
\* runner and a buffer or waiter to the manager that handles it.
CallsConserved ==
    arrived = handled + box
        + Cardinality({r \in Runners : run[r].call = "call"})
        + Cardinality({i \in DOMAIN ipc_buffer_list : ipc_buffer_list[i] = "call"})
        + Cardinality({f \in Managers : got[f] = "call"})

\* A runner that executes code of the program.
Busy(r) == run[r].pc = "run" /\ run[r].cur \in Workers

\* Ready fibrils run and calls are handled unless the program keeps every
\* runner busy: whoever makes a fibril ready pokes a runner that waits for
\* calls, because it may itself go on computing for ever. (Operations and
\* calls are bounded, so the work comes to an end.)
IdleRunnersWork ==
    <>[]((ready_list = <<>> /\ handled = arrived) \/ \A r \in Runners : run[r].pc = "off" \/ Busy(r))

\* If the program does not compute for ever, waits with a timeout return,
\* also when the timeout was set while all helpers were asleep already with
\* a later deadline or none: only helpers look at the timeouts.
TimedWaitsEnd ==
    (\A r \in Runners : []<>~Busy(r)) => <>[](timeout_list = {})
=============================================================================
