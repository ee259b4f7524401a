------------------------------ MODULE KernelBox ------------------------------
(***************************************************************************)
(* The kernel box of a task (kernel/generic/src/ipc/kbox.c): the answerbox *)
(* kb.box through which debuggers reach the task, the kbox thread that     *)
(* serves it, the debugging session it opens and closes, and the cleanup   *)
(* of all this when the last thread of the task exits.                     *)
(*                                                                         *)
(* Each phone stands for a debugger task of its own.  The sections under   *)
(* kb.cleanup_lock, udebug.lock and the spinlock of the box are one step   *)
(* each.  Of the udebug protocol only BEGIN and END are modelled.          *)
(***************************************************************************)
EXTENDS Naturals, Sequences, SequencesExt

CONSTANTS
    Phones,       \* phones to the kernel box, each owned by another debugger
    KThreads,     \* the kbox threads that may be created, one after the other
    None,
    AllocFails,   \* whether thread_create() and phone_alloc() may fail
    MaxCalls      \* bound on the calls a debugger makes over its phone

VARIABLES
    active,       \* kb.box.active
    finished,     \* kb.finished
    thread,       \* kb.thread
    connected,    \* kb.box.connected_phones
    calls,        \* kb.box.calls
    dispatched,   \* kb.box.dispatched_calls
    pstate,       \* phone->state
    made,         \* debugging calls made over a phone
    dt_state,     \* udebug.dt_state
    debugger,     \* udebug.debugger
    kpc,          \* kbox threads
    current,      \* the call a kbox thread has received
    dpc,          \* debuggers: in the middle of ipc_phone_hangup() or not
    cpc,          \* the thread running ipc_kbox_cleanup()
    have,         \* its have_kb_thread
    slammed       \* the phone it has disconnected and must notify about

box == <<active, connected, calls, dispatched>>
udebug == <<dt_state, debugger>>
cleanup == <<cpc, have, slammed>>
vars == <<box, finished, thread, pstate, made, udebug, kpc, current, dpc, cleanup>>

Call(p, m, s) == [phone |-> p, method |-> m, sender |-> s]

Init ==
    /\ active = TRUE /\ finished = FALSE /\ thread = None
    /\ connected = <<>> /\ calls = <<>> /\ dispatched = {}
    /\ pstate = [p \in Phones |-> "FREE"] /\ made = [p \in Phones |-> 0]
    /\ dt_state = "INACTIVE" /\ debugger = None
    /\ kpc = [k \in KThreads |-> "none"] /\ current = [k \in KThreads |-> None]
    /\ dpc = [p \in Phones |-> "user"]
    /\ cpc = "alive" /\ have = FALSE /\ slammed = None

-----------------------------------------------------------------------------
(* The debuggers.                                                          *)

\* ipc_connect_kbox(), all of it under kb.cleanup_lock.  A kbox thread is
\* created when there is none; then a phone is allocated and connected, unless
\* the box is not active.  The result of ipc_phone_connect() is ignored.
Connect(p) ==
    /\ pstate[p] = "FREE"
    /\ ~finished
    /\ IF thread = None
         THEN \E k \in KThreads : /\ kpc[k] = "none"
                                  /\ thread' = k
                                  /\ kpc' = [kpc EXCEPT ![k] = "wait"]
         ELSE UNCHANGED <<thread, kpc>>
    /\ \/ /\ active
          /\ pstate' = [pstate EXCEPT ![p] = "CONNECTED"]
          /\ connected' = Append(connected, p)
       \/ /\ ~active
          /\ pstate' = [pstate EXCEPT ![p] = "CONNECTING"]
          /\ UNCHANGED connected
       \/ /\ AllocFails
          /\ UNCHANGED <<pstate, connected>>
    /\ UNCHANGED <<active, calls, dispatched, finished, made, udebug, current, dpc, cleanup>>

\* ipc_call() of an IPC_M_DEBUG request.
Debug(p, m) ==
    /\ pstate[p] = "CONNECTED" /\ dpc[p] = "user"
    /\ made[p] < MaxCalls
    /\ made' = [made EXCEPT ![p] = @ + 1]
    /\ calls' = Append(calls, Call(p, m, p))
    /\ UNCHANGED <<active, connected, dispatched, finished, thread, pstate, udebug, kpc,
                   current, dpc, cleanup>>

\* ipc_phone_hangup(): the phone leaves the box ...
Hangup(p) ==
    /\ pstate[p] \in {"CONNECTED", "SLAMMED"} /\ dpc[p] = "user"
    /\ IF pstate[p] = "CONNECTED"
         THEN /\ connected' = SelectSeq(connected, LAMBDA q : q # p)
              /\ dpc' = [dpc EXCEPT ![p] = "hangup"]
              /\ UNCHANGED pstate
         ELSE /\ pstate' = [pstate EXCEPT ![p] = "HUNGUP"]
              /\ UNCHANGED <<connected, dpc>>
    /\ UNCHANGED <<active, calls, dispatched, finished, thread, made, udebug, kpc, current,
                   cleanup>>

\* ... and the hangup call is sent.
HangupNotify(p) ==
    /\ dpc[p] = "hangup"
    /\ calls' = Append(calls, Call(p, "HUNGUP", p))
    /\ pstate' = [pstate EXCEPT ![p] = "HUNGUP"]
    /\ dpc' = [dpc EXCEPT ![p] = "user"]
    /\ UNCHANGED <<active, connected, dispatched, finished, thread, made, udebug, kpc, current,
                   cleanup>>

\* The debugger dies: ipc_forget_call() takes the sender off its calls.
Forget(p) ==
    /\ pstate[p] = "HUNGUP" /\ dpc[p] = "user"
    /\ \E i \in DOMAIN calls : calls[i].sender = p
    /\ calls' = [i \in DOMAIN calls |->
                   IF calls[i].sender = p THEN [calls[i] EXCEPT !.sender = None] ELSE calls[i]]
    /\ UNCHANGED <<active, connected, dispatched, finished, thread, pstate, made, udebug, kpc,
                   current, dpc, cleanup>>

-----------------------------------------------------------------------------
(* The kbox thread.                                                        *)

\* ipc_wait_for_call() in kbox_thread_proc().
Receive(k) ==
    /\ kpc[k] = "wait"
    /\ calls # <<>>
    /\ current' = [current EXCEPT ![k] = Head(calls)]
    /\ calls' = Tail(calls)
    /\ dispatched' = dispatched \cup {Head(calls)}
    /\ kpc' = [kpc EXCEPT ![k] = "serve"]
    /\ UNCHANGED <<active, connected, finished, thread, pstate, made, udebug, dpc, cleanup>>

\* udebug_call_receive(): BEGIN is answered at once when all threads of the
\* task are stoppable, or stays with udebug.begin_call; a call other than
\* BEGIN from anybody but the debugger is answered with EINVAL.
UdebugReceive(k) ==
    LET c == current[k]
    IN  /\ kpc[k] = "serve" /\ c.method \in {"BEGIN", "END"}
        /\ \/ /\ c.method = "BEGIN" /\ dt_state = "INACTIVE"
              /\ debugger' = c.sender
              /\ \/ dt_state' = "ACTIVE" /\ dispatched' = dispatched \ {c}
                 \/ dt_state' = "BEGINNING" /\ UNCHANGED dispatched
           \/ /\ c.method = "BEGIN" /\ dt_state # "INACTIVE"
              /\ dispatched' = dispatched \ {c}
              /\ UNCHANGED udebug
           \/ /\ c.method = "END" /\ debugger = c.sender
              /\ dt_state' = "INACTIVE" /\ debugger' = None
              /\ dispatched' = dispatched \ {c}
           \/ /\ c.method = "END" /\ debugger # c.sender
              /\ dispatched' = dispatched \ {c}
              /\ UNCHANGED udebug
        /\ kpc' = [kpc EXCEPT ![k] = "wait"]
        /\ UNCHANGED <<active, connected, calls, finished, thread, pstate, made, current, dpc,
                       cleanup>>

\* The last thread of the task becomes stoppable (udebug_stoppable_begin()):
\* the BEGIN call is answered.
Stoppable ==
    /\ dt_state = "BEGINNING" /\ cpc = "alive"
    /\ dt_state' = "ACTIVE"
    /\ dispatched' = {c \in dispatched : c.method # "BEGIN"}
    /\ UNCHANGED <<active, connected, calls, finished, thread, pstate, made, debugger, kpc,
                   current, dpc, cleanup>>

\* kbox_proc_phone_hungup(): end the session of the debugger that hung up and
\* answer ...
PhoneHungup(k) ==
    LET c == current[k]
    IN  /\ kpc[k] = "serve" /\ c.method = "HUNGUP"
        /\ IF c.sender = debugger
             THEN dt_state' = "INACTIVE" /\ debugger' = None
             ELSE UNCHANGED udebug
        /\ dispatched' = dispatched \ {c}
        /\ kpc' = [kpc EXCEPT ![k] = "hungup"]
        /\ UNCHANGED <<active, connected, calls, finished, thread, pstate, made, current, dpc,
                       cleanup>>

\* ... then, under kb.cleanup_lock, terminate after the last phone.  The thread
\* is detached unless the cleanup is going to join it.
LastPhone(k) ==
    /\ kpc[k] = "hungup"
    /\ IF connected = <<>>
         THEN /\ kpc' = [kpc EXCEPT ![k] = "exited"]
              /\ thread' = IF finished THEN thread ELSE None
         ELSE /\ kpc' = [kpc EXCEPT ![k] = "wait"]
              /\ UNCHANGED thread
    /\ UNCHANGED <<box, finished, pstate, made, udebug, current, dpc, cleanup>>

-----------------------------------------------------------------------------
(* ipc_kbox_cleanup(), called by the last thread of the task.              *)

Inactive ==
    /\ cpc = "alive"
    /\ active' = FALSE
    /\ cpc' = "inactive"
    /\ UNCHANGED <<connected, calls, dispatched, finished, thread, pstate, made, udebug, kpc,
                   current, dpc, have, slammed>>

Finish ==
    /\ cpc = "inactive"
    /\ finished' = TRUE
    /\ cpc' = "finished"
    /\ UNCHANGED <<box, thread, pstate, made, udebug, kpc, current, dpc, have, slammed>>

\* bool have_kb_thread = (TASK->kb.thread != NULL), without the lock.
HaveThread ==
    /\ cpc = "finished"
    /\ have' = (thread # None)
    /\ cpc' = "slam"
    /\ UNCHANGED <<box, finished, thread, pstate, made, udebug, kpc, current, dpc, slammed>>

\* ipc_answerbox_slam_phones(): disconnect the first phone ...
Slam ==
    /\ cpc = "slam" /\ connected # <<>>
    /\ pstate' = [pstate EXCEPT ![Head(connected)] = "SLAMMED"]
    /\ connected' = Tail(connected)
    /\ IF have
         THEN slammed' = Head(connected) /\ cpc' = "notify"
         ELSE UNCHANGED <<slammed, cpc>>
    /\ UNCHANGED <<active, calls, dispatched, finished, thread, made, udebug, kpc, current, dpc,
                   have>>

\* ... and send its hangup call, forgotten beforehand.
SlamNotify ==
    /\ cpc = "notify"
    /\ calls' = Append(calls, Call(slammed, "HUNGUP", None))
    /\ slammed' = None
    /\ cpc' = "slam"
    /\ UNCHANGED <<active, connected, dispatched, finished, thread, pstate, made, udebug, kpc,
                   current, dpc, have>>

\* udebug_task_cleanup() once no phone is left.
EndSession ==
    /\ cpc = "slam" /\ connected = <<>>
    /\ dt_state' = "INACTIVE"
    /\ debugger' = None
    /\ cpc' = IF have THEN "join" ELSE "answer"
    /\ UNCHANGED <<box, finished, thread, pstate, made, kpc, current, dpc, have, slammed>>

\* thread_join() returns when the thread has exited.
Join ==
    /\ cpc = "join"
    /\ kpc[thread] = "exited"
    /\ thread' = None
    /\ cpc' = "answer"
    /\ UNCHANGED <<box, finished, pstate, made, udebug, kpc, current, dpc, have, slammed>>

\* ipc_cleanup_call_list() of both lists.
AnswerCalls ==
    /\ cpc = "answer"
    /\ calls' = <<>> /\ dispatched' = {}
    /\ cpc' = "gone"
    /\ UNCHANGED <<active, connected, finished, thread, pstate, made, udebug, kpc, current, dpc,
                   have, slammed>>

-----------------------------------------------------------------------------
Serve(k) == Receive(k) \/ UdebugReceive(k) \/ PhoneHungup(k) \/ LastPhone(k)

Cleanup == Finish \/ HaveThread \/ Slam \/ SlamNotify \/ EndSession \/ Join \/ AnswerCalls

Next ==
    \/ \E p \in Phones : \/ Connect(p) \/ Hangup(p) \/ HangupNotify(p) \/ Forget(p)
                         \/ \E m \in {"BEGIN", "END"} : Debug(p, m)
    \/ \E k \in KThreads : Serve(k)
    \/ Stoppable
    \/ Inactive \/ Cleanup

Spec == Init /\ [][Next]_vars

\* Kernel code runs on: the kbox thread, a hangup that has begun, and the
\* cleanup once the task exits.  What the debuggers do is up to them.
FairSpec ==
    /\ Spec
    /\ WF_vars(Cleanup)
    /\ \A k \in KThreads : WF_vars(Serve(k))
    /\ \A p \in Phones : WF_vars(HangupNotify(p))

-----------------------------------------------------------------------------
\* "This ensures the kbox thread is going to wake up and terminate": the
\* cleanup, which joins the kbox thread, comes to its end.
KboxCleanupEnds == cpc = "inactive" ~> cpc = "gone"
=============================================================================
