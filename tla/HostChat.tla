------------------------------ MODULE HostChat ------------------------------
(***************************************************************************)
(* The process that hosts the assistant: one PaiRuntime (pai-ffi) used by  *)
(* many requests.  The web client sends its requests to `pai serve         *)
(* --bridge', which gives each one a thread; the requests that are not     *)
(* marked concurrent take one lock.  The desktop application hands them    *)
(* to one worker isolate, which does them one after the other.             *)
(*                                                                         *)
(* Modelled: the active conversation, the runs with their approvals and    *)
(* their cancel token, the events on their way to the user, the limit of   *)
(* the gateway, and its requests to apps.  A run makes one call that needs *)
(* an approval, or none; what it does otherwise is AgentRun.               *)
(***************************************************************************)
EXTENDS Naturals, FiniteSets

CONSTANTS
    Req,       \* requests of the clients
    NoReq,     \* nobody
    Slots      \* MAX_INFLIGHT of the gateway

VARIABLES
    native,    \* the desktop application; otherwise the gateway
    convs,     \* conversations that exist
    active,    \* PaiRuntime::conversation
    ids,       \* conversations made so far: their ids are 1 .. ids
    op,        \* what a request asks for
    on,        \* the conversation or the call it is about
    pc,        \* how far it is
    lock,      \* who holds BridgeState::lock, or occupies the worker isolate
    inflight,  \* ServeCtx::inflight
    tokens,    \* cancel tokens made so far; the newest is PaiRuntime::cancel
    stopped,   \* tokens that were cancelled
    token,     \* the token of a run
    reads,     \* the conversation whose messages a run was given
    pending,   \* PaiRuntime::pending: calls with a sender
    verdict,   \* what the receiver of a call got
    events,    \* BridgeState::events: approvals not polled yet
    shown,     \* approvals the user has in front of him
    given,     \* calls the user said yes to
    pressed,   \* calls the user answered while their run waited for it
    hit        \* runs that were under way when the user cancelled

chat == <<convs, active, ids>>
user == <<events, shown, given, pressed, hit>>
run == <<token, reads, verdict>>
vars == <<native, chat, op, on, pc, lock, inflight, tokens, stopped, run,
          pending, user>>

Runs == {"send", "resume"}
\* bridge_op_concurrent
Concurrent == {"approve", "cancel", "poll"}
Ops == Runs \cup Concurrent \cup {"select", "new", "delete", "app"}
None == 0
UnderWay == {"wait", "in", "ready", "start", "run", "asked", "parked"}

\* Sensitivity variant of Exclusive: choosing a conversation needs no lock.
ExclusiveRuns(o) == native \/ o \notin Concurrent \cup {"app", "select"}

\* The worker isolate does everything itself; at the gateway the concurrent
\* operations and the requests to apps go past the lock.
Exclusive(o) == native \/ o \notin Concurrent \cup {"app"}

\* init_runtime: the conversation that was asked for, else the newest, else a
\* fresh one.  The tests of "the newest" are those of any that exists.
Init ==
    /\ native \in BOOLEAN
    /\ ids \in 1 .. 2 /\ convs = 1 .. ids /\ active \in convs
    /\ op = [r \in Req |-> "poll"] /\ on = [r \in Req |-> None]
    /\ pc = [r \in Req |-> "new"]
    /\ lock = NoReq /\ inflight = 0
    /\ tokens = 0 /\ stopped = {}
    /\ token = [r \in Req |-> 0] /\ reads = [r \in Req |-> None]
    /\ verdict = [r \in Req |-> "none"]
    /\ pending = {} /\ events = {} /\ shown = {} /\ given = {}
    /\ pressed = {} /\ hit = {}

-----------------------------------------------------------------------------
At(r, s) == pc' = [pc EXCEPT ![r] = s]
Release(r) == lock' = IF lock = r THEN NoReq ELSE lock
\* The thread answers and ends.
Respond(r) ==
    /\ At(r, "done")
    /\ Release(r)
    /\ inflight' = IF native THEN inflight ELSE inflight - 1

Asked(r, o, x) == op' = [op EXCEPT ![r] = o] /\ on' = [on EXCEPT ![r] = x]

\* What the clients may send: an approval only for a call they were shown.
Sensible(o, x) ==
    CASE o = "approve" -> x \in shown
      [] o \in {"select", "delete"} -> x \in 1 .. ids
      [] OTHER -> x = None

Admitted == native \/ inflight < Slots
Waiting(r) == r \in Req /\ pc[r] = "parked" /\ verdict[r] = "none"

\* Sensitivity variant of Arrive: refused requests keep their slot.
ArriveKeepSlot(r) ==
    /\ pc[r] = "new"
    /\ \E o \in Ops, x \in (1 .. ids) \cup Req \cup {None} :
          /\ Sensible(o, x) /\ (native => o \notin {"app", "poll"})
          /\ Asked(r, o, x)
          /\ shown' = IF o = "approve" THEN shown \ {x} ELSE shown
          /\ pressed' = IF o = "approve" /\ Admitted /\ Waiting(x)
                        THEN pressed \cup {x} ELSE pressed
    /\ IF ~Admitted
       THEN At(r, "refused") /\ inflight' = inflight + 1
       ELSE At(r, "wait") /\ inflight' = IF native THEN inflight ELSE inflight + 1
    /\ UNCHANGED <<native, chat, lock, tokens, stopped, run, pending, events,
                   given, hit>>

\* The accept loop of the gateway: a thread for the request, or 503.  Pressing
\* a button of an approval closes its sheet.
Arrive(r) ==
    /\ pc[r] = "new"
    /\ \E o \in Ops, x \in (1 .. ids) \cup Req \cup {None} :
          /\ Sensible(o, x) /\ (native => o \notin {"app", "poll"})
          /\ Asked(r, o, x)
          /\ shown' = IF o = "approve" THEN shown \ {x} ELSE shown
          /\ pressed' = IF o = "approve" /\ Admitted /\ Waiting(x)
                        THEN pressed \cup {x} ELSE pressed
    /\ IF ~Admitted
       THEN At(r, "refused") /\ UNCHANGED inflight
       ELSE At(r, "wait") /\ inflight' = IF native THEN inflight ELSE inflight + 1
    /\ UNCHANGED <<native, chat, lock, tokens, stopped, run, pending, events,
                   given, hit>>

\* serve_bridge: an operation that is not concurrent waits for the lock.
Enter(r) ==
    /\ pc[r] = "wait"
    /\ Exclusive(op[r]) => lock = NoReq
    /\ At(r, "in")
    /\ lock' = IF Exclusive(op[r]) THEN r ELSE lock
    /\ UNCHANGED <<native, chat, op, on, inflight, tokens, stopped, run, pending, user>>

-----------------------------------------------------------------------------
(* Conversations *)

\* ConversationStore::create, made active.
Create == ids' = ids + 1 /\ convs' = convs \cup {ids + 1} /\ active' = ids + 1

\* pai_conversation_select
Select(r) ==
    /\ pc[r] = "in" /\ op[r] = "select"
    /\ active' = IF on[r] \in convs THEN on[r] ELSE active
    /\ Respond(r)
    /\ UNCHANGED <<native, convs, ids, op, on, tokens, stopped, run, pending, user>>

\* pai_conversation_new
New(r) ==
    /\ pc[r] = "in" /\ op[r] = "new"
    /\ Create
    /\ Respond(r)
    /\ UNCHANGED <<native, op, on, tokens, stopped, run, pending, user>>

\* pai_conversation_delete: the active conversation may go.
Delete(r) ==
    /\ pc[r] = "in" /\ op[r] = "delete"
    /\ convs' = convs \ {on[r]}
    /\ Respond(r)
    /\ UNCHANGED <<native, active, ids, op, on, tokens, stopped, run, pending, user>>

-----------------------------------------------------------------------------
(* Runs *)

NewToken(r) ==
    /\ tokens' = tokens + 1
    /\ token' = [token EXCEPT ![r] = tokens + 1]

\* pai_resume: the run has its conversation with it.
Resume(r) ==
    /\ pc[r] = "in" /\ op[r] = "resume"
    /\ NewToken(r)
    /\ At(r, "run")
    /\ UNCHANGED <<native, chat, op, on, lock, inflight, stopped, reads, verdict,
                   pending, user>>

\* Sensitivity variant of Send: the messages share a token.
SendOldToken(r) ==
    /\ pc[r] = "in" /\ op[r] = "send"
    /\ IF active \notin convs THEN Create ELSE UNCHANGED chat
    /\ UNCHANGED <<tokens, token>>
    /\ At(r, "ready")
    /\ UNCHANGED <<native, op, on, lock, inflight, stopped, reads, verdict, pending, user>>

\* pai_send before the history is read: a new conversation where the active one
\* was deleted, and a token of its own.
Send(r) ==
    /\ pc[r] = "in" /\ op[r] = "send"
    /\ IF active \notin convs THEN Create ELSE UNCHANGED chat
    /\ NewToken(r)
    /\ At(r, "ready")
    /\ UNCHANGED <<native, op, on, lock, inflight, stopped, reads, verdict, pending, user>>

\* The history of the active conversation.
History(r) ==
    /\ pc[r] = "ready"
    /\ reads' = [reads EXCEPT ![r] = active]
    /\ At(r, "start")
    /\ UNCHANGED <<native, chat, op, on, lock, inflight, tokens, stopped, token,
                   verdict, pending, user>>

\* The run is given the active conversation to write to.
Start(r) ==
    /\ pc[r] = "start"
    /\ on' = [on EXCEPT ![r] = active]
    /\ At(r, "run")
    /\ UNCHANGED <<native, chat, op, lock, inflight, tokens, stopped, run, pending, user>>

Cancelled(r) == token[r] \in stopped

\* emit(ApprovalNeeded): the callback shows it in the application, or queues it
\* for the next poll of the web client.
Ask(r) ==
    /\ pc[r] = "run" /\ verdict[r] = "none" /\ ~Cancelled(r)
    /\ IF native THEN shown' = shown \cup {r} /\ UNCHANGED events
       ELSE events' = events \cup {r} /\ UNCHANGED shown
    /\ At(r, "asked")
    /\ UNCHANGED <<native, chat, op, on, lock, inflight, tokens, stopped, run,
                   pending, given, pressed, hit>>

\* UiApproval::decide: from now on the call can be resolved.
Park(r) ==
    /\ pc[r] = "asked"
    /\ pending' = pending \cup {r}
    /\ At(r, "parked")
    /\ UNCHANGED <<native, chat, op, on, lock, inflight, tokens, stopped, run, user>>

\* An approval of the call is on its way and only its own thread can delay it.
AtHand(r) == \E s \in Req :
    /\ op[s] = "approve" /\ on[s] = r
    /\ pc[s] = "in" \/ (pc[s] = "wait" /\ (Exclusive("approve") => lock = NoReq))

\* ... and after 300 s, much longer than a thread takes, it is denied; its
\* sender stays behind.
TimesOut(r) ==
    /\ Waiting(r) /\ ~AtHand(r)
    /\ verdict' = [verdict EXCEPT ![r] = "late"]
    /\ At(r, "run")
    /\ UNCHANGED <<native, chat, op, on, lock, inflight, tokens, stopped, token,
                   reads, pending, user>>

\* The answer is there.
Resolved(r) ==
    /\ pc[r] = "parked" /\ verdict[r] # "none"
    /\ At(r, "run")
    /\ UNCHANGED <<native, chat, op, on, lock, inflight, tokens, stopped, run,
                   pending, user>>

\* The run ends: it is through, or the loop notices that it was cancelled.
Finish(r) ==
    /\ pc[r] = "run"
    /\ At(r, "done") \/ (Cancelled(r) /\ At(r, "cancelled"))
    /\ Release(r)
    /\ inflight' = IF native THEN inflight ELSE inflight - 1
    /\ UNCHANGED <<native, chat, op, on, tokens, stopped, run, pending, user>>

-----------------------------------------------------------------------------
(* The operations that go past the lock *)

\* pai_approve with yes or no: the sender is taken out and used.
Approve(r) ==
    /\ pc[r] = "in" /\ op[r] = "approve"
    /\ \E yes \in BOOLEAN :
          /\ verdict' = IF on[r] \in pending /\ Waiting(on[r])
                        THEN [verdict EXCEPT ![on[r]] = IF yes THEN "yes" ELSE "no"]
                        ELSE verdict
          /\ given' = IF yes THEN given \cup {on[r]} ELSE given
    /\ pending' = pending \ {on[r]}
    /\ Respond(r)
    /\ UNCHANGED <<native, chat, op, on, tokens, stopped, token, reads, events,
                   shown, pressed, hit>>

\* pai_cancel: the newest token, whoever's it is.
Cancel(r) ==
    /\ pc[r] = "in" /\ op[r] = "cancel"
    /\ stopped' = stopped \cup {tokens}
    /\ hit' = hit \cup {s \in Req : op[s] \in Runs /\ pc[s] \in UnderWay}
    /\ Respond(r)
    /\ UNCHANGED <<native, chat, op, on, tokens, run, pending, events, shown,
                   given, pressed>>

\* pollEvents drains the queue; the answer may be lost, or go to a window that
\* has no run and drops them.
Poll(r) ==
    /\ pc[r] = "in" /\ op[r] = "poll"
    /\ events' = {}
    /\ shown' \in {shown, shown \cup events}
    /\ Respond(r)
    /\ UNCHANGED <<native, chat, op, on, tokens, stopped, run, pending, given, pressed,
                   hit>>

\* serve_request: an app runs here, or is asked for over the broker; either way
\* the thread is busy until that has ended.
App(r) ==
    /\ pc[r] = "in" /\ op[r] = "app"
    /\ Respond(r)
    /\ UNCHANGED <<native, chat, op, on, tokens, stopped, run, pending, user>>

\* bridge_dispatch and the requests to apps.
Dispatch(r) ==
    \/ Enter(r)
    \/ Select(r) \/ New(r) \/ Delete(r)
    \/ Resume(r) \/ Send(r) \/ History(r) \/ Start(r) \/ Park(r) \/ Resolved(r)
    \/ Approve(r) \/ Cancel(r) \/ Poll(r) \/ App(r)

Next == \E r \in Req :
    Arrive(r) \/ Dispatch(r) \/ Ask(r) \/ TimesOut(r) \/ Finish(r)

\* Threads go on, model calls and apps end, the approval's clock runs.  That a
\* run asks, that a user answers or that a request comes is up to them.
Proceed(r) == Dispatch(r) \/ TimesOut(r) \/ Finish(r)
Fairness == \A r \in Req : WF_vars(Proceed(r))

Spec == Init /\ [][Next]_vars
-----------------------------------------------------------------------------
PCs == UnderWay \cup {"new", "refused", "done", "cancelled"}

TypeOK ==
    /\ native \in BOOLEAN
    /\ ids \in Nat /\ convs \subseteq 1 .. ids /\ active \in 1 .. ids
    /\ pc \in [Req -> PCs] /\ op \in [Req -> Ops]
    /\ lock \in Req \cup {NoReq}
    /\ inflight \in Nat /\ stopped \subseteq 0 .. tokens
    /\ token \in [Req -> 0 .. tokens]
    /\ verdict \in [Req -> {"none", "yes", "no", "late"}]
    /\ pending \cup events \cup shown \cup given \cup pressed \cup hit \subseteq Req

\* "callers may invoke from any thread": a run writes to the conversation it was
\* told about, whatever the other requests do to the active one meanwhile.
OneConversation ==
    \A r \in Req : pc[r] \in {"run", "asked", "parked"} => reads[r] = on[r]

\* "Fail closed": a call is let through only if the user said yes to that call
\* while it waited, however late, early or often anything was answered.
OnlyGiven == \A r \in Req : verdict[r] = "yes" => r \in given

\* "Cancel the in-flight run, if any": a run ends cancelled only if the user
\* cancelled while it was under way, never by a cancel meant for an earlier one.
CancelledByUser == \A r \in Req : pc[r] = "cancelled" => r \in hit

\* The slots that are taken are those of the threads that live.
SlotsCounted ==
    ~native => /\ inflight = Cardinality({r \in Req : pc[r] \in UnderWay})
               /\ inflight <= Slots

\* "Resolves it from any thread" (ADR 0013): a call that the user answers while
\* its run waits for the answer does not time out.
AnswerCounts == \A r \in Req : verdict[r] = "late" => r \notin pressed

ChatIsSound ==
    /\ TypeOK /\ OneConversation /\ OnlyGiven /\ CancelledByUser /\ SlotsCounted
    /\ ~native => AnswerCounts

\* "never hangs forever" (ADR 0013): every request is answered, even when all
\* slots are taken by runs that wait for approvals nobody can give any more.
AllAnswered == \A r \in Req : pc[r] \notin UnderWay
Answered == []<>AllAnswered
=============================================================================
