--------------------------------- MODULE Ipc ---------------------------------
(***************************************************************************)
(* The life of kernel IPC calls, phones and answerboxes:                   *)
(* kernel/generic/src/ipc/ipc.c with the system calls of ipc/sysipc.c that *)
(* drive it, from sending a call to the cleanup of an exiting task.        *)
(*                                                                         *)
(* Threads run system calls of their task.  A step is one section that the *)
(* code protects by phone->lock, answerbox lock or call->forget_lock (or   *)
(* that no other thread can observe); between two steps other threads run. *)
(* The wait queue of an answerbox is its counter of stored wakeups: that   *)
(* is the contract module WaitQueue is shown to implement.  The contents   *)
(* of messages are left out, but for the phone that IPC_M_CONNECT_ME_TO    *)
(* carries and for whether an answer is EOK, EHANGUP or another error.     *)
(***************************************************************************)
EXTENDS Integers, Sequences, FiniteSets

CONSTANTS
    Tasks, Threads, Phones,
    Calls,          \* calls user space makes
    SyncCalls,      \* those of them the kernel makes by ipc_req_internal()
    ConnectCalls,   \* those of them that are IPC_M_CONNECT_ME_TO
    TaskOf,         \* the task of a thread
    BootPhones,     \* phones connected when the system starts ...
    BootCaller,     \* ... the task that owns each
    BootCallee,     \* ... and the task each is connected to
    Mortal,         \* tasks that somebody kills
    UserRetvals,    \* values user space answers calls with
    MaxAsyncCalls,  \* IPC_MAX_ASYNC_CALLS
    MaxPokes,       \* how often sys_ipc_poke() is called (a bound)
    None

ASSUME IpcAssumption ==
    /\ IsFiniteSet(Tasks) /\ IsFiniteSet(Threads)
    /\ SyncCalls \subseteq Calls /\ ConnectCalls \subseteq Calls
    /\ SyncCalls \cap ConnectCalls = {}
    /\ TaskOf \in [Threads -> Tasks]
    /\ BootPhones \subseteq Phones
    /\ BootCaller \in [BootPhones -> Tasks]
    /\ BootCallee \in [BootPhones -> Tasks]
    /\ Mortal \subseteq Tasks
    /\ UserRetvals \subseteq {"EOK", "EHANGUP", "error"}
    /\ MaxAsyncCalls \in Nat /\ MaxPokes \in Nat
    /\ Calls \cap Phones = {} /\ Tasks \cap Threads = {}
    /\ None \notin Tasks \cup Threads \cup Phones \cup Calls

\* Every task has an answerbox; ipc_call_sync() gives the calling thread a
\* private one (mybox).
Boxes == Tasks \cup Threads

\* The call phone->hangup_call points to is named like its phone.
AllCalls == Calls \cup Phones

VARIABLES
    \* answerbox_t
    box_active,        \* box->active
    wq,                \* wakeups stored in box->wq
    box_active_calls,  \* box->active_calls
    calls,             \* box->calls
    dispatched,        \* box->dispatched_calls
    answers,           \* box->answers
    \* phone_t
    state, lock, caller, callee,
    linked,            \* the phone is in callee->connected_phones
    phone_active_calls,
    hangup_call,       \* phone->hangup_call is not NULL
    phone_refs,        \* references to phone->kobject
    phone_cap,         \* the capability of the phone is published
    \* call_t
    call_refs,         \* references to call->kobject
    caller_phone, callerbox, active, forget, priv, retval,
    call_cap,          \* the task in which a capability of the call is published
    \* task_t and thread_t
    active_calls,      \* TASK->active_calls
    interrupted,
    thr,               \* what each thread is doing
    pokes

box   == <<box_active, wq, box_active_calls, calls, dispatched, answers>>
phone == <<state, lock, caller, callee, linked, phone_active_calls,
           hangup_call, phone_refs, phone_cap>>
call  == <<call_refs, caller_phone, callerbox, active, forget, priv, retval, call_cap>>
vars  == <<box_active, wq, box_active_calls, calls, dispatched, answers,
           state, lock, caller, callee, linked, phone_active_calls,
           hangup_call, phone_refs, phone_cap, call_refs, caller_phone,
           callerbox, active, forget, priv, retval, call_cap, active_calls,
           interrupted, thr, pokes>>

PhoneStates == {"FREE", "CONNECTING", "CONNECTED", "HUNGUP", "SLAMMED"}
Retvals     == {"EOK", "EHANGUP", "error"}

\* Where a thread is: in user space, in a system call, in ipc_cleanup().
SyscallPCs == {"user", "wait", "dequeue", "publish", "call", "backsend", "forward",
               "sync", "race", "answered", "preprocess", "slam", "deliver", "wake",
               "hangup", "hungup"}
CleanupPCs == {"exit", "hang_all", "slam_all", "calls", "dispatched", "forget_all",
               "wait_all", "dequeue_all", "rehang", "panic", "dead"}

\* thr[t].ref: references to the call that t drops when it is done with it;
\* thr[t].phone: a phone t holds a reference to; thr[t].next: where t goes on.
ThreadType == [pc : SyscallPCs \cup CleanupPCs,
               call : AllCalls \cup {None}, phone : Phones \cup {None},
               ref : 0..1, next : SyscallPCs \cup CleanupPCs]

\* The counters are size_t in the code; Int shows where they would wrap.
TypeOK ==
    /\ box_active \in [Tasks -> BOOLEAN]
    /\ wq \in [Boxes -> Nat]
    /\ box_active_calls \in [Boxes -> Int]
    /\ calls \in [Tasks -> Seq(AllCalls)]
    /\ dispatched \in [Tasks -> SUBSET AllCalls]
    /\ answers \in [Boxes -> Seq(AllCalls)]
    /\ state \in [Phones -> PhoneStates]
    /\ lock \in [Phones -> Threads \cup {None}]
    /\ caller \in [Phones -> Tasks \cup {None}]
    /\ callee \in [Phones -> Tasks \cup {None}]
    /\ linked \in [Phones -> BOOLEAN]
    /\ phone_active_calls \in [Phones -> Int]
    /\ hangup_call \in [Phones -> BOOLEAN]
    /\ phone_refs \in [Phones -> Nat]
    /\ phone_cap \in [Phones -> BOOLEAN]
    /\ call_refs \in [AllCalls -> Nat]
    /\ caller_phone \in [AllCalls -> Phones \cup {None}]
    /\ callerbox \in [AllCalls -> Boxes \cup {None}]
    /\ active \in [AllCalls -> BOOLEAN]
    /\ forget \in [AllCalls -> BOOLEAN]
    /\ priv \in [AllCalls -> Phones \cup {None}]
    /\ retval \in [AllCalls -> Retvals]
    /\ call_cap \in [AllCalls -> Tasks \cup {None}]
    /\ active_calls \in [Tasks -> SUBSET AllCalls]
    /\ interrupted \in [Threads -> BOOLEAN]
    /\ thr \in [Threads -> ThreadType]
    /\ pokes \in 0..MaxPokes

User == [pc |-> "user", call |-> None, phone |-> None, ref |-> 0, next |-> "user"]

\* Tasks run and their first phones are connected: a capability and the list
\* of the answerbox refer to each.
Init ==
    /\ box_active = [k \in Tasks |-> TRUE]
    /\ wq = [b \in Boxes |-> 0]
    /\ box_active_calls = [b \in Boxes |-> 0]
    /\ calls = [k \in Tasks |-> <<>>]
    /\ dispatched = [k \in Tasks |-> {}]
    /\ answers = [b \in Boxes |-> <<>>]
    /\ state = [p \in Phones |-> IF p \in BootPhones THEN "CONNECTED" ELSE "FREE"]
    /\ lock = [p \in Phones |-> None]
    /\ caller = [p \in Phones |-> IF p \in BootPhones THEN BootCaller[p] ELSE None]
    /\ callee = [p \in Phones |-> IF p \in BootPhones THEN BootCallee[p] ELSE None]
    /\ linked = [p \in Phones |-> p \in BootPhones]
    /\ phone_active_calls = [p \in Phones |-> 0]
    /\ hangup_call = [p \in Phones |-> p \in BootPhones]
    /\ phone_refs = [p \in Phones |-> IF p \in BootPhones THEN 2 ELSE 0]
    /\ phone_cap = [p \in Phones |-> p \in BootPhones]
    /\ call_refs = [c \in AllCalls |-> IF c \in BootPhones THEN 1 ELSE 0]
    /\ caller_phone = [c \in AllCalls |-> None]
    /\ callerbox = [c \in AllCalls |-> None]
    /\ active = [c \in AllCalls |-> FALSE]
    /\ forget = [c \in AllCalls |-> FALSE]
    /\ priv = [c \in AllCalls |-> None]
    /\ retval = [c \in AllCalls |-> "EOK"]
    /\ call_cap = [c \in AllCalls |-> None]
    /\ active_calls = [k \in Tasks |-> {}]
    /\ interrupted = [t \in Threads |-> FALSE]
    /\ thr = [t \in Threads |-> User]
    /\ pokes = 0

-----------------------------------------------------------------------------
(* Helpers. *)

Add(f, x, n) == [f EXCEPT ![x] = @ + n]

\* kobject_put() of a phone that may be absent.
Put(f, p) == IF p \in Phones THEN Add(f, p, -1) ELSE f

\* kobject_put() n times on call c, when the phone references already are f.
\* call_destroy() drops the reference in call->caller_phone and frees the call,
\* so that what it was answered with is no longer part of the state.
PutCall(c, n, f) ==
    /\ call_refs' = Add(call_refs, c, -n)
    /\ phone_refs' = IF call_refs[c] = n THEN Put(f, caller_phone[c]) ELSE f
    /\ retval' = IF call_refs[c] = n THEN [retval EXCEPT ![c] = "EOK"] ELSE retval

Goto(t, pc) == thr' = [thr EXCEPT ![t].pc = pc]

\* The end of a system call, where syscall_handler() looks at `interrupted',
\* or of a function called by ipc_cleanup().
Return(t) ==
    thr' = [thr EXCEPT ![t] = [User EXCEPT !.pc =
               IF thr[t].next # "user" THEN thr[t].next
               ELSE IF interrupted[t] THEN "exit" ELSE "user"]]

\* _ipc_call_actions_internal() without preforget; n references to the phone
\* are dropped in the same step.
CallActions(p, c, b, n) ==
    /\ caller_phone' = [caller_phone EXCEPT ![c] = p]
    /\ callerbox' = [callerbox EXCEPT ![c] = b]
    /\ active' = [active EXCEPT ![c] = TRUE]
    /\ phone_active_calls' = Add(phone_active_calls, p, 1)
    /\ phone_refs' = Add(phone_refs, p, 2 - n)

\* The answerbox that gets the answer to a call that t makes.
ReplyBox(t, c) == IF c \in SyncCalls THEN t ELSE TaskOf[t]

\* slab_free() of mybox; the next ipc_call_sync() initializes a fresh one.
FreeMybox(f, t, empty) == [f EXCEPT ![t] = empty]

\* A call that has not been made: every one is made once.
Unused(c) == call_refs[c] = 0 /\ caller_phone[c] = None

-----------------------------------------------------------------------------
(* Sending calls. *)

\* sys_ipc_call_async_fast() and _slow() up to request_preprocess(), which may
\* refuse the request: a buffer of IPC_M_DATA_WRITE that is too large, no memory
\* for it, or none for the phone of IPC_M_CONNECT_ME_TO (phone_alloc() fails).
CallAsync(t, p, c) ==
    /\ thr[t].pc = "user"
    /\ c \notin SyncCalls /\ Unused(c)
    /\ phone_cap[p] /\ caller[p] = TaskOf[t]
    /\ phone_active_calls[p] < MaxAsyncCalls
    /\ call_refs' = [call_refs EXCEPT ![c] = 1]
    /\ phone_refs' = Add(phone_refs, p, 1)
    /\ \E pc \in {"call", "backsend"} :
          /\ pc = "call" => c \notin ConnectCalls
          /\ thr' = [thr EXCEPT ![t] = [User EXCEPT !.pc = pc, !.call = c, !.phone = p]]
    /\ UNCHANGED <<box, state, lock, caller, callee, linked, phone_active_calls,
                   hangup_call, phone_cap, caller_phone, callerbox, active, forget,
                   priv, retval, call_cap, active_calls, interrupted, pokes>>

\* The same for IPC_M_CONNECT_ME_TO that is not refused: request_preprocess() of
\* ops/conctmeto.c allocates phone q and its hangup call, and leaves the
\* reference in priv.
ConnectMeTo(t, p, c, q) ==
    /\ thr[t].pc = "user"
    /\ c \in ConnectCalls /\ Unused(c)
    /\ phone_cap[p] /\ caller[p] = TaskOf[t]
    /\ phone_active_calls[p] < MaxAsyncCalls
    /\ state[q] = "FREE"
    /\ state' = [state EXCEPT ![q] = "CONNECTING"]
    /\ caller' = [caller EXCEPT ![q] = TaskOf[t]]
    /\ hangup_call' = [hangup_call EXCEPT ![q] = TRUE]
    /\ call_refs' = [call_refs EXCEPT ![c] = 1, ![q] = 1]
    /\ phone_refs' = [phone_refs EXCEPT ![p] = @ + 1, ![q] = 1]
    /\ priv' = [priv EXCEPT ![c] = q]
    /\ thr' = [thr EXCEPT ![t] = [User EXCEPT !.pc = "call", !.call = c, !.phone = p]]
    /\ UNCHANGED <<box, lock, callee, linked, phone_active_calls, phone_cap,
                   caller_phone, callerbox, active, forget, retval, call_cap,
                   active_calls, interrupted, pokes>>

\* A page fault in memory backed by a user pager: ipc_req_internal() and
\* ipc_call_sync() up to ipc_call().  The caller keeps a reference of its own.
CallSync(t, p, c) ==
    /\ thr[t].pc = "user"
    /\ c \in SyncCalls /\ Unused(c)
    /\ phone_cap[p] /\ caller[p] = TaskOf[t]
    /\ call_refs' = [call_refs EXCEPT ![c] = 2]
    /\ phone_refs' = Add(phone_refs, p, 1)
    /\ thr' = [thr EXCEPT ![t] = [User EXCEPT !.pc = "call", !.call = c, !.phone = p]]
    /\ UNCHANGED <<box, state, lock, caller, callee, linked, phone_active_calls,
                   hangup_call, phone_cap, caller_phone, callerbox, active, forget,
                   priv, retval, call_cap, active_calls, interrupted, pokes>>

\* ipc_call() on a connected phone: _ipc_call() with phone->lock held.
Send(t) ==
    LET p == thr[t].phone
        c == thr[t].call
        b == ReplyBox(t, c)
    IN  /\ thr[t].pc = "call"
        /\ lock[p] = None /\ state[p] = "CONNECTED"
        /\ CallActions(p, c, b, IF c \in SyncCalls THEN 0 ELSE 1)
        /\ box_active_calls' = Add(box_active_calls, b, 1)
        /\ active_calls' = [active_calls EXCEPT ![TaskOf[t]] = @ \cup {c}]
        /\ calls' = [calls EXCEPT ![callee[p]] = Append(@, c)]
        /\ wq' = Add(wq, callee[p], 1)
        /\ IF c \in SyncCalls THEN Goto(t, "sync") ELSE Return(t)
        /\ UNCHANGED <<box_active, dispatched, answers, state, lock, caller, callee,
                       linked, hangup_call, phone_cap, call_refs, forget, priv,
                       retval, call_cap, interrupted, pokes>>

\* ipc_call() on any other phone.
SendRefused(t) ==
    /\ thr[t].pc = "call"
    /\ lock[thr[t].phone] = None /\ state[thr[t].phone] # "CONNECTED"
    /\ Goto(t, "backsend")
    /\ UNCHANGED <<box, phone, call, active_calls, interrupted, pokes>>

\* ipc_backsend_err(): the call is accounted for as if it were sent, and its
\* answer is put in the box of the caller (_ipc_answer_free_call()).
Backsend(t) ==
    LET p == thr[t].phone
        c == thr[t].call
        k == TaskOf[t]
    IN  /\ thr[t].pc = "backsend" /\ c \notin SyncCalls
        /\ CallActions(p, c, k, 1)
        /\ box_active_calls' = Add(box_active_calls, k, 1)
        /\ retval' = [retval EXCEPT ![c] = "error"]
        /\ answers' = [answers EXCEPT ![k] = Append(@, c)]
        /\ wq' = Add(wq, k, 1)
        /\ Return(t)
        /\ UNCHANGED <<box_active, calls, dispatched, state, lock, caller, callee,
                       linked, hangup_call, phone_cap, call_refs, forget, priv,
                       call_cap, active_calls, interrupted, pokes>>

\* The same for a synchronous call: ipc_call_sync() frees mybox with the answer
\* in it, ipc_req_internal() drops both its references to the call and the one
\* to the phone, and call_destroy() one more.
BacksendSync(t) ==
    LET p == thr[t].phone
        c == thr[t].call
    IN  /\ thr[t].pc = "backsend" /\ c \in SyncCalls
        /\ CallActions(p, c, t, 2)
        /\ call_refs' = Add(call_refs, c, -2)
        /\ Return(t)
        /\ UNCHANGED <<box, state, lock, caller, callee, linked, hangup_call,
                       phone_cap, forget, priv, retval, call_cap, active_calls,
                       interrupted, pokes>>

-----------------------------------------------------------------------------
(* Receiving calls and answers. *)

\* Wrong variant: box->active_calls is not decremented.
ReceiveAnswerKeepsBox(b, n, p) ==
    LET c == Head(answers[b])
        q == priv[c]
        accepted == retval[c] = "EOK"
        f == Put(Put(phone_refs, caller_phone[c]), p)
    IN  /\ answers' = [answers EXCEPT ![b] = Tail(@)]
        /\ phone_active_calls' = Add(phone_active_calls, caller_phone[c], -1)
        /\ UNCHANGED box_active_calls
        /\ priv' = [priv EXCEPT ![c] = None]
        /\ phone_cap' = [r \in Phones |-> phone_cap[r] \/ (r = q /\ accepted)]
        /\ PutCall(c, n, IF accepted THEN f ELSE Put(f, q))

\* Wrong variant: answer_process() does not drop the phone of a refused connection.
ReceiveAnswerKeepsPriv(b, n, p) ==
    LET c == Head(answers[b])
        q == priv[c]
        accepted == retval[c] = "EOK"
        f == Put(Put(phone_refs, caller_phone[c]), p)
    IN  /\ answers' = [answers EXCEPT ![b] = Tail(@)]
        /\ phone_active_calls' = Add(phone_active_calls, caller_phone[c], -1)
        /\ box_active_calls' = Add(box_active_calls, b, -1)
        /\ priv' = [priv EXCEPT ![c] = None]
        /\ phone_cap' = [r \in Phones |-> phone_cap[r] \/ (r = q /\ accepted)]
        /\ PutCall(c, n, f)

\* What ipc_wait_for_call() does with the first answer in box b, followed by
\* process_answer() and by dropping n references to the call and one to p.  The
\* phone of a refused connection is dropped.  answer_process() also tries to when
\* phone_alloc() had failed; the model then goes on as if there were nothing to do.
ReceiveAnswer(b, n, p) ==
    LET c == Head(answers[b])
        q == priv[c]
        accepted == retval[c] = "EOK"
        f == Put(Put(phone_refs, caller_phone[c]), p)
    IN  /\ answers' = [answers EXCEPT ![b] = Tail(@)]
        /\ phone_active_calls' = Add(phone_active_calls, caller_phone[c], -1)
        /\ box_active_calls' = Add(box_active_calls, b, -1)
        /\ priv' = [priv EXCEPT ![c] = None]
        /\ phone_cap' = [r \in Phones |-> phone_cap[r] \/ (r = q /\ accepted)]
        /\ PutCall(c, n, IF accepted THEN f ELSE Put(f, q))

\* sys_ipc_wait_for_call()
WaitForCall(t) ==
    /\ thr[t].pc = "user"
    /\ Goto(t, "wait")
    /\ UNCHANGED <<box, phone, call, active_calls, interrupted, pokes>>

\* Wrong variant: the sleep does not wait for a wakeup.
WakeupUnchecked(t) ==
    LET k == TaskOf[t]
    IN  /\ thr[t].pc = "wait"
        /\ wq' = Add(wq, k, -1)
        /\ Goto(t, "dequeue")
        /\ UNCHANGED <<box_active, box_active_calls, calls, dispatched, answers,
                       phone, call, active_calls, interrupted, pokes>>

\* The sleep ends with a wakeup ...
Wakeup(t) ==
    LET k == TaskOf[t]
    IN  /\ thr[t].pc = "wait" /\ wq[k] > 0
        /\ wq' = Add(wq, k, -1)
        /\ Goto(t, "dequeue")
        /\ UNCHANGED <<box_active, box_active_calls, calls, dispatched, answers,
                       phone, call, active_calls, interrupted, pokes>>

\* ... or, when there is none, with ETIMEOUT or EINTR.
WaitFails(t) ==
    /\ thr[t].pc = "wait" /\ wq[TaskOf[t]] = 0
    /\ Return(t)
    /\ UNCHANGED <<box, phone, call, active_calls, interrupted, pokes>>

\* An answer is received.  The answer to a hangup call has
\* IPC_CALL_DISCARD_ANSWER set: the system call starts again.
DequeueAnswer(t) ==
    LET k == TaskOf[t]
    IN  /\ thr[t].pc = "dequeue" /\ answers[k] # <<>>
        /\ ReceiveAnswer(k, 1, None)
        /\ IF Head(answers[k]) \in Phones THEN Goto(t, "wait") ELSE Return(t)
        /\ UNCHANGED <<box_active, wq, calls, dispatched, state, lock, caller, callee,
                       linked, hangup_call, caller_phone, callerbox, active, forget,
                       call_cap, active_calls, interrupted, pokes>>

\* A request is received and becomes a dispatched call.
DequeueRequest(t) ==
    LET k == TaskOf[t]
        c == Head(calls[k])
    IN  /\ thr[t].pc = "dequeue" /\ answers[k] = <<>> /\ calls[k] # <<>>
        /\ calls' = [calls EXCEPT ![k] = Tail(@)]
        /\ dispatched' = [dispatched EXCEPT ![k] = @ \cup {c}]
        /\ thr' = [thr EXCEPT ![t].pc = "publish", ![t].call = c]
        /\ UNCHANGED <<box_active, wq, box_active_calls, answers, phone, call,
                       active_calls, interrupted, pokes>>

\* ENOENT: a poke, or a wakeup left behind by ipc_cleanup_call_list().
DequeueNothing(t) ==
    /\ thr[t].pc = "dequeue" /\ answers[TaskOf[t]] = <<>> /\ calls[TaskOf[t]] = <<>>
    /\ Return(t)
    /\ UNCHANGED <<box, phone, call, active_calls, interrupted, pokes>>

\* User space gets a capability of the call, with a reference of its own ...
Publish(t) ==
    LET c == thr[t].call
    IN  /\ thr[t].pc = "publish"
        /\ call_refs' = Add(call_refs, c, 1)
        /\ call_cap' = [call_cap EXCEPT ![c] = TaskOf[t]]
        /\ Return(t)
        /\ UNCHANGED <<box, phone, caller_phone, callerbox, active, forget, priv,
                       retval, active_calls, interrupted, pokes>>

\* ... or, when cap_alloc() or the copy to user space fails, the kernel answers
\* the call with EPARTY.
PublishFails(t) ==
    LET c == thr[t].call
    IN  /\ thr[t].pc = "publish"
        /\ retval' = [retval EXCEPT ![c] = "error"]
        /\ Goto(t, "preprocess")
        /\ UNCHANGED <<box, phone, call_refs, caller_phone, callerbox, active, forget,
                       priv, call_cap, active_calls, interrupted, pokes>>

\* sys_ipc_poke()
Poke(t) ==
    /\ thr[t].pc = "user" /\ pokes < MaxPokes
    /\ pokes' = pokes + 1
    /\ wq' = Add(wq, TaskOf[t], 1)
    /\ UNCHANGED <<box_active, box_active_calls, calls, dispatched, answers, phone,
                   call, active_calls, interrupted, thr>>

-----------------------------------------------------------------------------
(* Answering and forwarding. *)

\* sys_ipc_answer_fast() and _slow(): the capability is unpublished, so that
\* no other thread answers the call.
Answer(t, c, rv) ==
    /\ thr[t].pc = "user" /\ call_cap[c] = TaskOf[t]
    /\ call_cap' = [call_cap EXCEPT ![c] = None]
    /\ retval' = [retval EXCEPT ![c] = rv]
    /\ thr' = [thr EXCEPT ![t] = [User EXCEPT !.pc = "preprocess", !.call = c, !.ref = 1]]
    /\ UNCHANGED <<box, phone, call_refs, caller_phone, callerbox, active, forget,
                   priv, active_calls, interrupted, pokes>>

\* answer_preprocess() of a call that is not forgotten takes it off the
\* sender's active calls; from then on nobody can forget it.  EOK to
\* IPC_M_CONNECT_ME_TO connects the new phone (ipc_phone_connect()).
Preprocess(t) ==
    LET c == thr[t].call
        q == priv[c]
        connect == /\ q # None /\ retval[c] = "EOK"
                   /\ box_active[TaskOf[t]] /\ state[q] = "CONNECTING"
    IN  /\ thr[t].pc = "preprocess" /\ ~forget[c]
        /\ active' = [active EXCEPT ![c] = FALSE]
        /\ active_calls' = [k \in Tasks |-> active_calls[k] \ {c}]
        /\ IF connect
           THEN /\ state' = [state EXCEPT ![q] = "CONNECTED"]
                /\ callee' = [callee EXCEPT ![q] = TaskOf[t]]
                /\ linked' = [linked EXCEPT ![q] = TRUE]
                /\ phone_refs' = Add(phone_refs, q, 1)
           ELSE UNCHANGED <<state, callee, linked, phone_refs>>
        /\ Goto(t, IF retval[c] = "EHANGUP" THEN "slam" ELSE "deliver")
        /\ UNCHANGED <<box, lock, caller, phone_active_calls, hangup_call, phone_cap,
                       call_refs, caller_phone, callerbox, forget, priv, retval,
                       call_cap, interrupted, pokes>>

\* answer_preprocess() of a forgotten call only cleans up.
PreprocessForgotten(t) ==
    /\ thr[t].pc = "preprocess" /\ forget[thr[t].call]
    /\ Goto(t, "deliver")
    /\ UNCHANGED <<box, phone, call, active_calls, interrupted, pokes>>

\* Wrong variant: the list reference is dropped in any state of the phone.
SlamCallerAlways(t) ==
    LET p == caller_phone[thr[t].call]
    IN  /\ thr[t].pc = "slam" /\ lock[p] = None
        /\ IF state[p] = "CONNECTED"
           THEN /\ state' = [state EXCEPT ![p] = "SLAMMED"]
                /\ linked' = [linked EXCEPT ![p] = FALSE]
                /\ phone_refs' = Add(phone_refs, p, -1)
           ELSE UNCHANGED <<state, linked>> /\ phone_refs' = Add(phone_refs, p, -1)
        /\ Goto(t, "deliver")
        /\ UNCHANGED <<box, lock, caller, callee, phone_active_calls, hangup_call,
                       phone_cap, call, active_calls, interrupted, pokes>>

\* Wrong variant: the slammed phone stays in connected_phones.
SlamCallerKeepsLink(t) ==
    LET p == caller_phone[thr[t].call]
    IN  /\ thr[t].pc = "slam" /\ lock[p] = None
        /\ IF state[p] = "CONNECTED"
           THEN /\ state' = [state EXCEPT ![p] = "SLAMMED"]
                /\ UNCHANGED <<linked, phone_refs>>
           ELSE UNCHANGED <<state, linked, phone_refs>>
        /\ Goto(t, "deliver")
        /\ UNCHANGED <<box, lock, caller, callee, phone_active_calls, hangup_call,
                       phone_cap, call, active_calls, interrupted, pokes>>

\* answer_preprocess() of an EHANGUP answer slams the phone of the caller.
SlamCaller(t) ==
    LET p == caller_phone[thr[t].call]
    IN  /\ thr[t].pc = "slam" /\ lock[p] = None
        /\ IF state[p] = "CONNECTED"
           THEN /\ state' = [state EXCEPT ![p] = "SLAMMED"]
                /\ linked' = [linked EXCEPT ![p] = FALSE]
                /\ phone_refs' = Add(phone_refs, p, -1)
           ELSE UNCHANGED <<state, linked, phone_refs>>
        /\ Goto(t, "deliver")
        /\ UNCHANGED <<box, lock, caller, callee, phone_active_calls, hangup_call,
                       phone_cap, call, active_calls, interrupted, pokes>>

\* Wrong variant: _ipc_answer_free_call() does not look at call->forget.
DeliverForgotten(t) ==
    LET c == thr[t].call
    IN  /\ thr[t].pc = "deliver"
        /\ dispatched' = [dispatched EXCEPT ![TaskOf[t]] = @ \ {c}]
        /\ answers' = [answers EXCEPT ![callerbox[c]] = Append(@, c)]
        /\ Goto(t, "wake")
        /\ UNCHANGED <<box_active, wq, box_active_calls, calls, phone, call,
                       active_calls, interrupted, pokes>>

\* ipc_answer(): the call leaves the list of dispatched calls, and
\* _ipc_answer_free_call() puts it in the box of the caller ...
Deliver(t) ==
    LET c == thr[t].call
    IN  /\ thr[t].pc = "deliver" /\ ~forget[c]
        /\ dispatched' = [dispatched EXCEPT ![TaskOf[t]] = @ \ {c}]
        /\ answers' = [answers EXCEPT ![callerbox[c]] = Append(@, c)]
        /\ Goto(t, "wake")
        /\ UNCHANGED <<box_active, wq, box_active_calls, calls, phone, call,
                       active_calls, interrupted, pokes>>

\* Wrong variant: _ipc_answer_free_call() does not release a forgotten call.
DiscardKeeps(t) ==
    LET c == thr[t].call
    IN  /\ thr[t].pc = "deliver" /\ forget[c]
        /\ dispatched' = [dispatched EXCEPT ![TaskOf[t]] = @ \ {c}]
        /\ PutCall(c, thr[t].ref, Put(phone_refs, thr[t].phone))
        /\ Return(t)
        /\ UNCHANGED <<box_active, wq, box_active_calls, calls, answers, state, lock,
                       caller, callee, linked, phone_active_calls, hangup_call,
                       phone_cap, caller_phone, callerbox, active, forget, priv,
                       call_cap, active_calls, interrupted, pokes>>

\* ... unless the call is forgotten: then it is released.
Discard(t) ==
    LET c == thr[t].call
    IN  /\ thr[t].pc = "deliver" /\ forget[c]
        /\ dispatched' = [dispatched EXCEPT ![TaskOf[t]] = @ \ {c}]
        /\ PutCall(c, 1 + thr[t].ref, Put(phone_refs, thr[t].phone))
        /\ Return(t)
        /\ UNCHANGED <<box_active, wq, box_active_calls, calls, answers, state, lock,
                       caller, callee, linked, phone_active_calls, hangup_call,
                       phone_cap, caller_phone, callerbox, active, forget, priv,
                       call_cap, active_calls, interrupted, pokes>>

\* Wrong variant: the answerer wakes up its own answerbox.
WakeOwnBox(t) ==
    LET c == thr[t].call
    IN  /\ thr[t].pc = "wake"
        /\ wq' = Add(wq, TaskOf[t], 1)
        /\ IF thr[t].ref = 1
           THEN PutCall(c, 1, Put(phone_refs, thr[t].phone))
           ELSE UNCHANGED <<call_refs, phone_refs, retval>>
        /\ Return(t)
        /\ UNCHANGED <<box_active, box_active_calls, calls, dispatched, answers, state,
                       lock, caller, callee, linked, phone_active_calls, hangup_call,
                       phone_cap, caller_phone, callerbox, active, forget, priv,
                       call_cap, active_calls, interrupted, pokes>>

\* The end of _ipc_answer_free_call(): waitq_wake_one(&callerbox->wq), and the
\* references the system call still has.  The caller may have received the
\* answer before.
Wake(t) ==
    LET c == thr[t].call
    IN  /\ thr[t].pc = "wake"
        /\ wq' = Add(wq, callerbox[c], 1)
        /\ IF thr[t].ref = 1
           THEN PutCall(c, 1, Put(phone_refs, thr[t].phone))
           ELSE UNCHANGED <<call_refs, phone_refs, retval>>
        /\ Return(t)
        /\ UNCHANGED <<box_active, box_active_calls, calls, dispatched, answers, state,
                       lock, caller, callee, linked, phone_active_calls, hangup_call,
                       phone_cap, caller_phone, callerbox, active, forget, priv,
                       call_cap, active_calls, interrupted, pokes>>

\* sys_ipc_forward_common() and ipc_forward() up to ipc_call(): the call is
\* taken from the dispatched calls and is in no box for a moment.
Forward(t, c, p) ==
    /\ thr[t].pc = "user" /\ call_cap[c] = TaskOf[t] /\ c \notin Phones
    /\ phone_cap[p] /\ caller[p] = TaskOf[t]
    /\ call_cap' = [call_cap EXCEPT ![c] = None]
    /\ phone_refs' = Add(phone_refs, p, 1)
    /\ dispatched' = [dispatched EXCEPT ![TaskOf[t]] = @ \ {c}]
    /\ thr' = [thr EXCEPT ![t] = [User EXCEPT !.pc = "forward", !.call = c,
                                              !.phone = p, !.ref = 1]]
    /\ UNCHANGED <<box_active, wq, box_active_calls, calls, answers, state, lock,
                   caller, callee, linked, phone_active_calls, hangup_call, phone_cap,
                   call_refs, caller_phone, callerbox, active, forget, priv, retval,
                   active_calls, interrupted, pokes>>

\* There is no such phone, or the method is not forwardable
\* (IPC_M_PHONE_HUNGUP is not): EFORWARD is the answer.
ForwardRefused(t, c) ==
    /\ thr[t].pc = "user" /\ call_cap[c] = TaskOf[t]
    /\ call_cap' = [call_cap EXCEPT ![c] = None]
    /\ retval' = [retval EXCEPT ![c] = "error"]
    /\ thr' = [thr EXCEPT ![t] = [User EXCEPT !.pc = "preprocess", !.call = c, !.ref = 1]]
    /\ UNCHANGED <<box, phone, call_refs, caller_phone, callerbox, active, forget,
                   priv, active_calls, interrupted, pokes>>

\* ipc_call() of a forwarded call: nothing is accounted for again.
ForwardSend(t) ==
    LET p == thr[t].phone
        c == thr[t].call
    IN  /\ thr[t].pc = "forward" /\ lock[p] = None /\ state[p] = "CONNECTED"
        /\ calls' = [calls EXCEPT ![callee[p]] = Append(@, c)]
        /\ wq' = Add(wq, callee[p], 1)
        /\ PutCall(c, 1, Put(phone_refs, p))
        /\ Return(t)
        /\ UNCHANGED <<box_active, box_active_calls, dispatched, answers, state, lock,
                       caller, callee, linked, phone_active_calls, hangup_call,
                       phone_cap, caller_phone, callerbox, active, forget, priv,
                       call_cap, active_calls, interrupted, pokes>>

\* ipc_call() fails and the forwarder answers with EFORWARD.
ForwardFails(t) ==
    /\ thr[t].pc = "forward" /\ lock[thr[t].phone] = None
    /\ state[thr[t].phone] # "CONNECTED"
    /\ retval' = [retval EXCEPT ![thr[t].call] = "error"]
    /\ Goto(t, "preprocess")
    /\ UNCHANGED <<box, phone, call_refs, caller_phone, callerbox, active, forget,
                   priv, call_cap, active_calls, interrupted, pokes>>

-----------------------------------------------------------------------------
(* Synchronous calls and forgetting. *)

\* Wrong variant: phone->active_calls is not decremented.
ForgetCallKeepsPhone(k, c, f) ==
    /\ forget' = [forget EXCEPT ![c] = TRUE]
    /\ active_calls' = [active_calls EXCEPT ![k] = @ \ {c}]
    /\ UNCHANGED phone_active_calls
    /\ box_active_calls' = Add(f, k, -1)
    /\ priv' = [priv EXCEPT ![c] = None]

\* ipc_forget_call() by a thread of task k: whatever box the call was accounted
\* in, TASK->answerbox.active_calls goes down (from the counters f).  request_forget() of
\* IPC_M_CONNECT_ME_TO drops the phone that was to be connected.
ForgetCall(k, c, f) ==
    /\ forget' = [forget EXCEPT ![c] = TRUE]
    /\ active_calls' = [active_calls EXCEPT ![k] = @ \ {c}]
    /\ phone_active_calls' = Add(phone_active_calls, caller_phone[c], -1)
    /\ box_active_calls' = Add(f, k, -1)
    /\ priv' = [priv EXCEPT ![c] = None]

\* The phone references that are left after ipc_forget_call().
ForgetPuts(c) == Put(Put(phone_refs, caller_phone[c]), priv[c])

\* ipc_wait_for_call(mybox) succeeds, in either of the two sleeps, and
\* ipc_req_internal() releases the call and the phone.
SyncReceive(t) ==
    /\ thr[t].pc \in {"sync", "answered"} /\ wq[t] > 0
    /\ wq' = FreeMybox(wq, t, 0)
    /\ ReceiveAnswer(t, 2, thr[t].phone)
    /\ Return(t)
    /\ UNCHANGED <<box_active, calls, dispatched, state, lock, caller, callee, linked,
                   hangup_call, caller_phone, callerbox, active, forget,
                   call_cap, active_calls, interrupted, pokes>>

\* The first sleep is interrupted.
SyncInterrupted(t) ==
    /\ thr[t].pc = "sync" /\ wq[t] = 0 /\ interrupted[t]
    /\ Goto(t, "race")
    /\ UNCHANGED <<box, phone, call, active_calls, interrupted, pokes>>

\* Wrong variant: the interrupted caller does not look at request->active.
SyncForgetAlways(t) ==
    LET c == thr[t].call
    IN  /\ thr[t].pc = "race"
        /\ ForgetCall(TaskOf[t], c, FreeMybox(box_active_calls, t, 0))
        /\ PutCall(c, 1, Put(ForgetPuts(c), thr[t].phone))
        /\ Return(t)
        /\ UNCHANGED <<box_active, wq, calls, dispatched, answers, state, lock, caller,
                       callee, linked, hangup_call, phone_cap, caller_phone, callerbox,
                       active, call_cap, interrupted, pokes>>

\* The caller wins the race: it forgets the call, frees mybox and returns EINTR.
SyncForget(t) ==
    LET c == thr[t].call
    IN  /\ thr[t].pc = "race" /\ active[c]
        /\ ForgetCall(TaskOf[t], c, FreeMybox(box_active_calls, t, 0))
        /\ PutCall(c, 1, Put(ForgetPuts(c), thr[t].phone))
        /\ Return(t)
        /\ UNCHANGED <<box_active, wq, calls, dispatched, answers, state, lock, caller,
                       callee, linked, hangup_call, phone_cap, caller_phone, callerbox,
                       active, call_cap, interrupted, pokes>>

\* The answer wins the race: the caller waits for it uninterruptibly.
SyncAnswered(t) ==
    /\ thr[t].pc = "race" /\ ~active[thr[t].call]
    /\ Goto(t, "answered")
    /\ UNCHANGED <<box, phone, call, active_calls, interrupted, pokes>>

-----------------------------------------------------------------------------
(* Hanging up. *)

\* sys_ipc_hangup()
SysHangup(t, p) ==
    /\ thr[t].pc = "user" /\ phone_cap[p] /\ caller[p] = TaskOf[t]
    /\ phone_cap' = [phone_cap EXCEPT ![p] = FALSE]
    /\ thr' = [thr EXCEPT ![t] = [User EXCEPT !.pc = "hangup", !.phone = p]]
    /\ UNCHANGED <<box, state, lock, caller, callee, linked, phone_active_calls,
                   hangup_call, phone_refs, call, active_calls, interrupted, pokes>>

\* ipc_phone_hangup() of a connected phone first takes it off the list of the
\* answerbox and drops the reference of the list; phone->lock stays held ...
Unlist(t) ==
    LET p == thr[t].phone
    IN  /\ thr[t].pc = "hangup" /\ lock[p] = None /\ state[p] = "CONNECTED"
        /\ lock' = [lock EXCEPT ![p] = t]
        /\ linked' = [linked EXCEPT ![p] = FALSE]
        /\ phone_refs' = Add(phone_refs, p, -1)
        /\ Goto(t, "hungup")
        /\ UNCHANGED <<box, state, caller, callee, phone_active_calls, hangup_call,
                       phone_cap, call, active_calls, interrupted, pokes>>

\* ... then sends IPC_M_PHONE_HUNGUP to the answerbox.  The reference of the
\* capability is dropped last.
SendHungup(t) ==
    LET p == thr[t].phone
        k == TaskOf[t]
    IN  /\ thr[t].pc = "hungup"
        /\ hangup_call' = [hangup_call EXCEPT ![p] = FALSE]
        /\ CallActions(p, p, k, 1)
        /\ box_active_calls' = Add(box_active_calls, k, 1)
        /\ active_calls' = [active_calls EXCEPT ![k] = @ \cup {p}]
        /\ calls' = [calls EXCEPT ![callee[p]] = Append(@, p)]
        /\ wq' = Add(wq, callee[p], 1)
        /\ state' = [state EXCEPT ![p] = "HUNGUP"]
        /\ lock' = [lock EXCEPT ![p] = None]
        /\ Return(t)
        /\ UNCHANGED <<box_active, dispatched, answers, caller, callee, linked,
                       phone_cap, call_refs, forget, priv, retval, call_cap,
                       interrupted, pokes>>

\* A slammed phone only changes its state.
HangupSlammed(t) ==
    LET p == thr[t].phone
    IN  /\ thr[t].pc = "hangup" /\ lock[p] = None /\ state[p] # "CONNECTED"
        /\ state' = [state EXCEPT ![p] = IF @ = "SLAMMED" THEN "HUNGUP" ELSE @]
        /\ phone_refs' = Add(phone_refs, p, -1)
        /\ Return(t)
        /\ UNCHANGED <<box, lock, caller, callee, linked, phone_active_calls,
                       hangup_call, phone_cap, call, active_calls, interrupted, pokes>>

-----------------------------------------------------------------------------
(* The end of a task: task_kill(), thread_exit() and ipc_cleanup(). *)

\* task_kill_internal(): all threads are interrupted.
Kill(k) ==
    /\ k \in Mortal
    /\ \E t \in Threads : TaskOf[t] = k /\ ~interrupted[t]
    /\ interrupted' = [t \in Threads |-> interrupted[t] \/ TaskOf[t] = k]
    /\ UNCHANGED <<box, phone, call, active_calls, thr, pokes>>

\* exc_dispatch(): an interrupted thread does not return to user space.
Leave(t) ==
    /\ thr[t].pc = "user" /\ interrupted[t]
    /\ Goto(t, "exit")
    /\ UNCHANGED <<box, phone, call, active_calls, interrupted, pokes>>

\* thread_exit(): the last thread of the task runs ipc_cleanup(), which first
\* makes the answerbox inactive.
Exit(t) ==
    LET k == TaskOf[t]
        last == \A u \in Threads \ {t} : TaskOf[u] = k => thr[u].pc = "dead"
    IN  /\ thr[t].pc = "exit"
        /\ box_active' = [box_active EXCEPT ![k] = @ /\ ~last]
        /\ Goto(t, IF last THEN "hang_all" ELSE "dead")
        /\ UNCHANGED <<wq, box_active_calls, calls, dispatched, answers, phone, call,
                       active_calls, interrupted, pokes>>

\* phone_cap_cleanup_cb() for each phone capability: hang up, unpublish, put.
HangAll(t, p) ==
    /\ thr[t].pc \in {"hang_all", "rehang"}
    /\ phone_cap[p] /\ caller[p] = TaskOf[t]
    /\ phone_cap' = [phone_cap EXCEPT ![p] = FALSE]
    /\ thr' = [thr EXCEPT ![t].pc = "hangup", ![t].phone = p, ![t].next = thr[t].pc]
    /\ UNCHANGED <<box, state, lock, caller, callee, linked, phone_active_calls,
                   hangup_call, phone_refs, call, active_calls, interrupted, pokes>>

\* Wrong variant: calls that hang up new phones are waited for.
HangAllDoneNoForget(t) ==
    /\ thr[t].pc \in {"hang_all", "rehang"}
    /\ \A p \in Phones : ~(phone_cap[p] /\ caller[p] = TaskOf[t])
    /\ Goto(t, IF thr[t].pc = "hang_all" THEN "slam_all" ELSE "wait_all")
    /\ UNCHANGED <<box, phone, call, active_calls, interrupted, pokes>>

HangAllDone(t) ==
    /\ thr[t].pc \in {"hang_all", "rehang"}
    /\ \A p \in Phones : ~(phone_cap[p] /\ caller[p] = TaskOf[t])
    /\ Goto(t, IF thr[t].pc = "hang_all" THEN "slam_all" ELSE "forget_all")
    /\ UNCHANGED <<box, phone, call, active_calls, interrupted, pokes>>

\* ipc_answerbox_slam_phones(): a phone whose lock is taken is tried again.
SlamPhone(t, p) ==
    /\ thr[t].pc = "slam_all"
    /\ linked[p] /\ callee[p] = TaskOf[t] /\ lock[p] = None
    /\ linked' = [linked EXCEPT ![p] = FALSE]
    /\ state' = [state EXCEPT ![p] = "SLAMMED"]
    /\ phone_refs' = Add(phone_refs, p, -1)
    /\ UNCHANGED <<box, lock, caller, callee, phone_active_calls, hangup_call,
                   phone_cap, call, active_calls, interrupted, thr, pokes>>

\* No phone is left; call_cap_cleanup_cb() releases the call capabilities.
SlamDone(t) ==
    LET k == TaskOf[t]
    IN  /\ thr[t].pc = "slam_all"
        /\ \A p \in Phones : ~(linked[p] /\ callee[p] = k)
        /\ call_refs' = [c \in AllCalls |-> call_refs[c] - (IF call_cap[c] = k THEN 1 ELSE 0)]
        /\ call_cap' = [c \in AllCalls |-> IF call_cap[c] = k THEN None ELSE call_cap[c]]
        /\ Goto(t, "calls")
        /\ UNCHANGED <<box, phone, caller_phone, callerbox, active, forget, priv,
                       retval, active_calls, interrupted, pokes>>

\* ipc_cleanup_call_list(): EHANGUP is the answer to every call.
AnswerCall(t, c) ==
    /\ retval' = [retval EXCEPT ![c] = "EHANGUP"]
    /\ thr' = [thr EXCEPT ![t].pc = "preprocess", ![t].call = c, ![t].next = thr[t].pc]
    /\ UNCHANGED <<box_active, wq, box_active_calls, answers, phone, call_refs,
                   caller_phone, callerbox, active, forget, priv, call_cap,
                   active_calls, interrupted, pokes>>

CleanupCalls(t) ==
    LET k == TaskOf[t]
    IN  /\ thr[t].pc = "calls" /\ calls[k] # <<>>
        /\ calls' = [calls EXCEPT ![k] = Tail(@)]
        /\ AnswerCall(t, Head(calls[k]))
        /\ UNCHANGED dispatched

CleanupDispatched(t, c) ==
    LET k == TaskOf[t]
    IN  /\ thr[t].pc = "dispatched" /\ c \in dispatched[k]
        /\ dispatched' = [dispatched EXCEPT ![k] = @ \ {c}]
        /\ AnswerCall(t, c)
        /\ UNCHANGED calls

CleanupDone(t) ==
    /\ \/ thr[t].pc = "calls" /\ calls[TaskOf[t]] = <<>> /\ Goto(t, "dispatched")
       \/ thr[t].pc = "dispatched" /\ dispatched[TaskOf[t]] = {} /\ Goto(t, "forget_all")
    /\ UNCHANGED <<box, phone, call, active_calls, interrupted, pokes>>

\* ipc_forget_all_active_calls()
ForgetAll(t, c) ==
    LET k == TaskOf[t]
    IN  /\ thr[t].pc = "forget_all" /\ c \in active_calls[k]
        /\ ForgetCall(k, c, box_active_calls)
        /\ phone_refs' = ForgetPuts(c)
        /\ UNCHANGED <<box_active, wq, calls, dispatched, answers, state, lock, caller,
                       callee, linked, hangup_call, phone_cap, call_refs, caller_phone,
                       callerbox, active, retval, call_cap, interrupted, thr, pokes>>

ForgetAllDone(t) ==
    /\ thr[t].pc = "forget_all" /\ active_calls[TaskOf[t]] = {}
    /\ Goto(t, "wait_all")
    /\ UNCHANGED <<box, phone, call, active_calls, interrupted, pokes>>

\* Wrong variant: no active call is left, but answers may be on their way.
WaitAllDoneEarly(t) ==
    /\ thr[t].pc = "wait_all" /\ active_calls[TaskOf[t]] = {}
    /\ Goto(t, "dead")
    /\ UNCHANGED <<box, phone, call, active_calls, interrupted, pokes>>

\* ipc_wait_for_all_answered_calls() ends, and with it the task ...
WaitAllDone(t) ==
    /\ thr[t].pc = "wait_all" /\ box_active_calls[TaskOf[t]] = 0
    /\ Goto(t, "dead")
    /\ UNCHANGED <<box, phone, call, active_calls, interrupted, pokes>>

\* ... or sleeps in ipc_wait_for_call() ...
WaitAll(t) ==
    LET k == TaskOf[t]
    IN  /\ thr[t].pc = "wait_all" /\ box_active_calls[k] # 0 /\ wq[k] > 0
        /\ wq' = Add(wq, k, -1)
        /\ Goto(t, "dequeue_all")
        /\ UNCHANGED <<box_active, box_active_calls, calls, dispatched, answers,
                       phone, call, active_calls, interrupted, pokes>>

\* ... and takes an answer, which may publish a new phone: hang up again.
WaitAllAnswer(t) ==
    LET k == TaskOf[t]
    IN  /\ thr[t].pc = "dequeue_all" /\ answers[k] # <<>>
        /\ ReceiveAnswer(k, 1, None)
        /\ Goto(t, "rehang")
        /\ UNCHANGED <<box_active, wq, calls, dispatched, state, lock, caller, callee,
                       linked, hangup_call, caller_phone, callerbox, active, forget,
                       call_cap, active_calls, interrupted, pokes>>

\* A wakeup without a message.
WaitAllNothing(t) ==
    LET k == TaskOf[t]
    IN  /\ thr[t].pc = "dequeue_all" /\ answers[k] = <<>> /\ calls[k] = <<>>
        /\ Goto(t, "wait_all")
        /\ UNCHANGED <<box, phone, call, active_calls, interrupted, pokes>>

\* A request instead of an answer: assert(call->flags & (IPC_CALL_ANSWERED |
\* IPC_CALL_NOTIF)) stops the kernel.
WaitAllRequest(t) ==
    LET k == TaskOf[t]
    IN  /\ thr[t].pc = "dequeue_all" /\ answers[k] = <<>> /\ calls[k] # <<>>
        /\ calls' = [calls EXCEPT ![k] = Tail(@)]
        /\ dispatched' = [dispatched EXCEPT ![k] = @ \cup {Head(calls[k])}]
        /\ Goto(t, "panic")
        /\ UNCHANGED <<box_active, wq, box_active_calls, answers, phone, call,
                       active_calls, interrupted, pokes>>

-----------------------------------------------------------------------------
\* What user space, or a page fault, may ask for.
Request(t) ==
    \/ \E p \in Phones :
          \/ \E c \in Calls : \/ CallAsync(t, p, c)
                              \/ CallSync(t, p, c)
                              \/ \E q \in Phones : ConnectMeTo(t, p, c, q)
          \/ \E c \in AllCalls : Forward(t, c, p)
          \/ SysHangup(t, p)
    \/ \E c \in AllCalls :
          \/ \E rv \in UserRetvals : Answer(t, c, rv)
          \/ ForwardRefused(t, c)
    \/ WaitForCall(t)
    \/ Poke(t)

\* What the kernel does for it.
KernelStep(t) ==
    \/ Send(t) \/ SendRefused(t) \/ Backsend(t) \/ BacksendSync(t)
    \/ Wakeup(t) \/ WaitFails(t) \/ DequeueAnswer(t) \/ DequeueRequest(t)
    \/ DequeueNothing(t) \/ Publish(t) \/ PublishFails(t)
    \/ Preprocess(t) \/ PreprocessForgotten(t) \/ SlamCaller(t)
    \/ Deliver(t) \/ Discard(t) \/ Wake(t) \/ ForwardSend(t) \/ ForwardFails(t)
    \/ SyncReceive(t) \/ SyncInterrupted(t) \/ SyncForget(t) \/ SyncAnswered(t)
    \/ Unlist(t) \/ SendHungup(t) \/ HangupSlammed(t)

\* What the kernel does for an exiting thread.
CleanupStep(t) ==
    \/ Leave(t) \/ Exit(t) \/ HangAllDone(t) \/ SlamDone(t)
    \/ \E p \in Phones : HangAll(t, p) \/ SlamPhone(t, p)
    \/ CleanupCalls(t) \/ CleanupDone(t) \/ ForgetAllDone(t)
    \/ \E c \in AllCalls : CleanupDispatched(t, c) \/ ForgetAll(t, c)
    \/ WaitAllDone(t) \/ WaitAll(t) \/ WaitAllAnswer(t) \/ WaitAllNothing(t)
    \/ WaitAllRequest(t)

Next ==
    \/ \E t \in Threads : Request(t) \/ KernelStep(t) \/ CleanupStep(t)
    \/ \E k \in Tasks : Kill(k)

Spec == Init /\ [][Next]_vars

\* Threads that execute kernel code go on; nothing is assumed of user space.
FairSpec == Spec /\ \A t \in Threads : WF_vars(KernelStep(t)) /\ WF_vars(CleanupStep(t))

-----------------------------------------------------------------------------
(* Properties. *)

Elements(s) == {s[i] : i \in 1..Len(s)}

\* The task has finished ipc_cleanup(): its answerbox may be freed.
Gone(k) == \A t \in Threads : TaskOf[t] = k => thr[t].pc = "dead"

BoxExists(b) == IF b \in Tasks THEN ~Gone(b)
                ELSE thr[b].pc \in {"sync", "race", "answered"}

\* The sender has been promised an answer that it has not yet received.
Outstanding(c) ==
    /\ ~forget[c]
    /\ \/ \E k \in Tasks : c \in active_calls[k]
       \/ \E t \in Threads : thr[t].call = c /\ thr[t].pc \in {"slam", "deliver"}
       \/ \E b \in Boxes : c \in Elements(answers[b])

\* Some list, capability or phone refers to the call.
Listed(c) ==
    \/ \E k \in Tasks : c \in Elements(calls[k]) \cup dispatched[k] \/ call_cap[c] = k
    \/ \E b \in Boxes : c \in Elements(answers[b])
    \/ c \in Phones /\ hangup_call[c]

\* Some thread has a reference to the call.
InHand(c) == \E t \in Threads :
    thr[t].call = c /\ (thr[t].pc # "wake" \/ thr[t].ref = 1)

\* How many references to phone p there ought to be: its capability, the list
\* connected_phones, the calls made through it (one as their caller_phone, one
\* more until the answer is received), call->priv and system calls.
PhoneHolders(p) ==
      (IF phone_cap[p] THEN 1 ELSE 0) + (IF linked[p] THEN 1 ELSE 0)
    + Cardinality({c \in AllCalls : caller_phone[c] = p /\ call_refs[c] > 0})
    + Cardinality({c \in AllCalls : caller_phone[c] = p /\ Outstanding(c)})
    + Cardinality({c \in AllCalls : priv[c] = p})
    + Cardinality({t \in Threads : thr[t].phone = p})

\* "Forgotten calls are discarded upon answering (the answer is not delivered)
\* and answered calls cannot be forgotten. Forgotten calls also do not figure
\* on the task's active call list." (call_t.forget): however the two race, a
\* call is never both, and never answered twice.
ForgottenXorAnswered ==
    \A c \in AllCalls :
        /\ forget[c] => /\ active[c]
                        /\ \A k \in Tasks : c \notin active_calls[k]
                        /\ \A b \in Boxes : c \notin Elements(answers[b])
        /\ \A b \in Boxes : c \in Elements(answers[b]) =>
               /\ \A k \in Tasks : c \notin active_calls[k]
               /\ Cardinality({i \in 1..Len(answers[b]) : answers[b][i] = c}) = 1

\* A call_t is destroyed when, and only when, no list, no capability and no
\* thread refers to it, in whatever order answering, forgetting, forwarding and
\* ipc_cleanup() on both sides drop their references.
CallLifetime ==
    \A c \in AllCalls : call_refs[c] > 0 <=> Listed(c) \/ InHand(c)

\* No phone_t is destroyed while somebody still refers to it.
PhoneNotDangling == \A p \in Phones : phone_refs[p] >= PhoneHolders(p)

\* Every message in an answerbox has a wakeup stored for it, a thread that is
\* about to dequeue, or an answerer that is about to call waitq_wake_one().
NoStrandedMessage ==
    \A k \in Tasks : ~Gone(k) =>
        Len(calls[k]) + Len(answers[k]) <=
            wq[k] + Cardinality({t \in Threads :
                \/ TaskOf[t] = k /\ thr[t].pc \in {"dequeue", "dequeue_all"}
                \/ thr[t].pc = "wake" /\ callerbox[thr[t].call] = k})

\* The assertions of answer_preprocess(), ipc_answerbox_slam_phones(),
\* ipc_phone_hangup() and ipc_call_sync().
AssertionsHold ==
    /\ \A t \in Threads :
          /\ thr[t].pc = "preprocess" => forget[thr[t].call] \/ active[thr[t].call]
          /\ thr[t].pc = "hungup" => hangup_call[thr[t].phone]
          /\ thr[t].pc = "race" => ~forget[thr[t].call]
          /\ thr[t].pc \in {"sync", "answered"} /\ wq[t] > 0 =>
                 answers[t] = <<thr[t].call>>
    /\ \A p \in Phones : linked[p] /\ lock[p] = None => state[p] = "CONNECTED"

\* phone->active_calls, which the limit of asynchronous calls is checked
\* against, counts the calls whose answer is to be received, and no others.
PhoneAccounting ==
    \A p \in Phones : phone_active_calls[p] =
        Cardinality({c \in AllCalls : caller_phone[c] = p /\ Outstanding(c)})

\* answerbox_t.active_calls is the "number of answers the answerbox is expecting
\* to eventually arrive".
BoxAccounting ==
    \A b \in Boxes : box_active_calls[b] =
        Cardinality({c \in AllCalls : callerbox[c] = b /\ Outstanding(c)})

\* No reference to a phone leaks: it is destroyed with its last holder.
PhoneLifetime == \A p \in Phones : phone_refs[p] = PhoneHolders(p)

\* ipc_wait_for_all_answered_calls() waits "for all answers to asynchronous
\* calls to arrive": none is on its way to a task that has finished cleanup.
AllAnswersArrived ==
    \A c \in AllCalls, k \in Tasks : Outstanding(c) /\ callerbox[c] = k => ~Gone(k)

\* Nobody puts a message in, or wakes up, an answerbox that may be freed: that
\* of a task which has finished ipc_cleanup(), or mybox of a finished
\* ipc_call_sync().
BoxAlive ==
    \A t \in Threads :
        /\ thr[t].pc = "deliver" /\ ~forget[thr[t].call] => BoxExists(callerbox[thr[t].call])
        /\ thr[t].pc = "wake" => BoxExists(callerbox[thr[t].call])
        /\ thr[t].pc = "hungup" => BoxExists(callee[thr[t].phone])

\* assert(call->flags & (IPC_CALL_ANSWERED | IPC_CALL_NOTIF)): once phones are
\* slammed and calls answered, ipc_cleanup() receives answers only.
CleanupGetsAnswersOnly == \A t \in Threads : thr[t].pc # "panic"

\* A killed task goes away, whatever the user space of its servers does: the
\* active calls are forgotten, the others are being answered by the kernel.
CleanupEnds == \A t \in Threads : interrupted[t] ~> thr[t].pc = "dead"
=============================================================================
