------------------------------ MODULE AgentRun ------------------------------
(***************************************************************************)
(* One agent run: the step loop of AgentRuntime::run                       *)
(* (crates/pai-agent/src/lib.rs), its deterministic fast path              *)
(* (fastpath.rs), the tool gate both go through, the direct invocations of *)
(* workflow steps (invoke_tool), and the agent_runs row in which RunStore  *)
(* (store.rs) keeps the checkpoint a later process resumes from.           *)
(*                                                                         *)
(* A process of Procs is one host of the runtime on the device's store:    *)
(* the desktop application (pai-ffi, which serialises its own runs with a  *)
(* lock) or a command-line invocation.  Every process may drive the run.   *)
(*                                                                         *)
(* Messages are abstracted to what the loop's properties tell apart: is    *)
(* the user's input among them, how many tool observations, how many       *)
(* protocol corrections.  The row is read back through RunStore::load,     *)
(* where a NULL checkpoint and an empty list are the same thing.           *)
(***************************************************************************)
EXTENDS Naturals, Sequences

CONSTANTS
    Procs,        \* processes that host the runtime on this device
    Tools,        \* tools of the registry
    Unknown,      \* a tool name a model may produce that is not registered
    Perms,        \* permissions of the policy table
    Needs,        \* Needs[t]: the permissions tool t requires
    Allowlist,    \* Allowlist[p]: AgentDefinition.tools of process p's agent
    FastPlans,    \* tool sequences of the intents fastpath::classify knows
    MaxSteps,     \* AgentRuntime.max_steps
    MaxResumes,   \* bound: resumptions of the run
    MaxEdits,     \* bound: edits of the policy table
    MaxLost       \* bound: row writes whose error `let _ =` discards

ASSUME StepsAssumption == MaxSteps \in Nat \ {0}
ASSUME NeedsAssumption == Needs \in [Tools -> SUBSET Perms]
ASSUME AllowAssumption == Allowlist \in [Procs -> SUBSET Tools]
ASSUME PlansAssumption == FastPlans \subseteq Seq(Tools)
ASSUME BoundsAssumption ==
    MaxResumes \in Nat /\ MaxEdits \in Nat /\ MaxLost \in Nat

VARIABLES
    row,        \* the agent_runs row
    begun,      \* the run has been started by some process
    pc,         \* pc[p]: where process p is in the run, "idle" outside it
    mode,       \* mode[p]: "loop", "fast" or "direct"
    step,       \* step[p]: the loop's step counter
    msgs,       \* msgs[p]: the message list held in memory
    retries,    \* retries[p]: parse_retries
    call,       \* call[p]: name of the tool being gated or executed
    plan,       \* plan[p]: fast-path calls after the current one
    cancelled,  \* cancelled[p]: the run's CancelToken
    policy,     \* the policy table
    seen,       \* seen[p]: the table as decide read it for the current call
    how,        \* how[p]: "allowed" by the table, "granted" by the user
    resumes, edits, lost,   \* counters of the bounded events
    done,       \* tool executions of the loop, over all processes
    since       \* since[p]: those executed after the run was cancelled

rowVars  == <<row, lost>>
callVars == <<call, plan, seen, how>>
runVars  == <<mode, step, msgs, retries, callVars, cancelled, since>>
envVars  == <<begun, policy, resumes, edits>>
vars == <<row, begun, pc, mode, step, msgs, retries, call, plan, cancelled,
          policy, seen, how, resumes, edits, lost, done, since>>

Policies  == {"never", "ask", "always"}
RunStates == {"running", "completed", "failed", "timed_out", "cancelled"}
Messages  == [input : BOOLEAN, obs : Nat, fixes : Nat]
PCs == {"idle", "compose", "top", "model", "retry", "gate", "asked", "exec"}

Msgs(i, o, f) == [input |-> i, obs |-> o, fixes |-> f]
NoMsgs == Msgs(FALSE, 0, 0)

Row(st, e, s, c) == [state |-> st, ended |-> e, step |-> s, ckpt |-> c]
NoRow == Row("absent", FALSE, 0, NoMsgs)
HasRow == row.state # "absent"

Unread == [q \in Perms |-> "ask"]

Init ==
    /\ row = NoRow
    /\ begun = FALSE
    /\ pc = [p \in Procs |-> "idle"]
    /\ mode = [p \in Procs |-> "loop"]
    /\ step = [p \in Procs |-> 0]
    /\ msgs = [p \in Procs |-> NoMsgs]
    /\ retries = [p \in Procs |-> 0]
    /\ call = [p \in Procs |-> Unknown]
    /\ plan = [p \in Procs |-> <<>>]
    /\ cancelled = [p \in Procs |-> FALSE]
    /\ policy \in [Perms -> Policies]
    /\ seen = [p \in Procs |-> Unread]
    /\ how = [p \in Procs |-> "none"]
    /\ resumes = 0 /\ edits = 0 /\ lost = 0
    /\ done = 0
    /\ since = [p \in Procs |-> 0]

---------------------------------------------------------------------------
(* RunStore.  Every caller in the loop discards the error of the write.    *)

Store(r) ==
    \/ row' = r /\ lost' = lost
    \/ lost < MaxLost /\ lost' = lost + 1 /\ row' = row

\* INSERT OR REPLACE: a fresh row at step 0, without a checkpoint.
begin == Store(Row("running", FALSE, 0, NoMsgs))

\* Sensitivity variant of checkpoint: the messages without the step.
checkpointNoStep(p) ==
    Store(IF HasRow THEN Row("running", row.ended, row.step, msgs[p]) ELSE row)

\* UPDATE step, state, checkpoint_json: ended_at is left as it is.
checkpoint(p) ==
    Store(IF HasRow THEN Row("running", row.ended, step[p], msgs[p]) ELSE row)

\* UPDATE state, ended_at: step and checkpoint are left as they are.
finish(st) ==
    Store(IF HasRow THEN Row(st, TRUE, row.step, row.ckpt) ELSE row)

\* The rows RunStore::interrupted selects.
Interrupted == HasRow /\ ~row.ended

\* Sensitivity variant of decide: a rule that asks wins over one that forbids.
decideAskFirst(t) ==
    IF \E q \in Needs[t] : policy[q] = "ask" THEN "ask"
    ELSE IF \E q \in Needs[t] : policy[q] = "never" THEN "deny"
    ELSE "allow"

\* PolicyEngine::decide: the most restrictive rule of the needed permissions.
decide(t) ==
    IF \E q \in Needs[t] : policy[q] = "never" THEN "deny"
    ELSE IF \E q \in Needs[t] : policy[q] = "ask" THEN "ask"
    ELSE "allow"

\* execute_tool's check of the agent's allowlist: an empty list allows all.
Listed(p, t) == Allowlist[p] = {} \/ t \in Allowlist[p]

---------------------------------------------------------------------------
(* Starting, resuming and ending.                                          *)

Go(p, where) == pc' = [pc EXCEPT ![p] = where]

\* The run returns: its local state is gone.
Leave(p) ==
    /\ Go(p, "idle")
    /\ mode' = [mode EXCEPT ![p] = "loop"]
    /\ step' = [step EXCEPT ![p] = 0]
    /\ msgs' = [msgs EXCEPT ![p] = NoMsgs]
    /\ retries' = [retries EXCEPT ![p] = 0]
    /\ call' = [call EXCEPT ![p] = Unknown]
    /\ plan' = [plan EXCEPT ![p] = <<>>]
    /\ seen' = [seen EXCEPT ![p] = Unread]
    /\ how' = [how EXCEPT ![p] = "none"]
    /\ cancelled' = [cancelled EXCEPT ![p] = FALSE]
    /\ since' = [since EXCEPT ![p] = 0]

\* finish_run: the terminal write, then the host is free again.
finish_run(p, st) == finish(st) /\ Leave(p)

\* A fresh run up to the await in build_request: the row is inserted first.
Begin(p) ==
    /\ pc[p] = "idle" /\ ~begun
    /\ begun' = TRUE
    /\ begin
    /\ Go(p, "compose")
    /\ retries' = [retries EXCEPT ![p] = 1]
    /\ UNCHANGED <<mode, step, msgs, callVars, cancelled, since, policy,
                   resumes, edits, done>>

\* The input joins the messages and the model loop is entered.
Compose(p) ==
    /\ pc[p] = "compose"
    /\ msgs' = [msgs EXCEPT ![p] = Msgs(TRUE, 0, 0)]
    /\ Go(p, "top")
    /\ UNCHANGED <<rowVars, begun, mode, step, retries, callVars, cancelled,
                   policy, resumes, edits, done, since>>

\* classify recognises an intent: its tool calls are decided without a model.
FastPath(p) ==
    /\ pc[p] = "compose" /\ ~cancelled[p]
    /\ \E pl \in FastPlans :
         \/ pl = <<>> /\ finish_run(p, "completed")
         \/ /\ pl # <<>>
            /\ mode' = [mode EXCEPT ![p] = "fast"]
            /\ call' = [call EXCEPT ![p] = Head(pl)]
            /\ plan' = [plan EXCEPT ![p] = Tail(pl)]
            /\ Go(p, "gate")
            /\ UNCHANGED <<rowVars, step, msgs, retries, seen, how, cancelled,
                           since>>
    /\ UNCHANGED <<envVars, done>>

\* resume_from: RunStore::load, whatever the row's state and ended_at are.
Resume(p) ==
    /\ pc[p] = "idle" /\ HasRow /\ resumes < MaxResumes
    /\ resumes' = resumes + 1
    /\ Go(p, "top")
    /\ step' = [step EXCEPT ![p] = row.step]
    /\ msgs' = [msgs EXCEPT ![p] = row.ckpt]
    /\ retries' = [retries EXCEPT ![p] = 1]
    /\ UNCHANGED <<rowVars, begun, mode, callVars, cancelled, since, policy,
                   edits, done>>

\* RunStore::abandon, from any process: only an open row is marked.
Abandon ==
    /\ Interrupted
    /\ row' = Row("failed", TRUE, row.step, row.ckpt)
    /\ UNCHANGED <<begun, pc, mode, step, msgs, retries, callVars, cancelled,
                   policy, resumes, edits, lost, done, since>>

\* The process dies; only the row survives.
Crash(p) ==
    /\ pc[p] # "idle"
    /\ Leave(p)
    /\ UNCHANGED <<rowVars, envVars, done>>

---------------------------------------------------------------------------
(* The model loop.                                                         *)

\* The token is looked at here only.
StopCancelled(p) ==
    /\ pc[p] = "top" /\ step[p] < MaxSteps /\ cancelled[p]
    /\ finish_run(p, "cancelled")
    /\ UNCHANGED <<envVars, done>>

\* Sensitivity variant of Checkpoint: the token is not looked at.
CheckpointAnyway(p) ==
    /\ pc[p] = "top" /\ step[p] < MaxSteps
    /\ checkpoint(p)
    /\ Go(p, "model")
    /\ UNCHANGED <<runVars, envVars, done>>

\* Sensitivity variant of Checkpoint: only the first step is checkpointed.
CheckpointFirst(p) ==
    /\ pc[p] = "top" /\ step[p] < MaxSteps /\ ~cancelled[p]
    /\ IF step[p] = 0 THEN checkpoint(p) ELSE UNCHANGED rowVars
    /\ Go(p, "model")
    /\ UNCHANGED <<runVars, envVars, done>>

\* The checkpoint precedes the model call.
Checkpoint(p) ==
    /\ pc[p] = "top" /\ step[p] < MaxSteps /\ ~cancelled[p]
    /\ checkpoint(p)
    /\ Go(p, "model")
    /\ UNCHANGED <<runVars, envVars, done>>

\* max agent steps exceeded.
OutOfSteps(p) ==
    /\ pc[p] = "top" /\ step[p] >= MaxSteps
    /\ finish_run(p, "failed")
    /\ UNCHANGED <<envVars, done>>

\* generate_step fails or exceeds step_timeout.
ModelFails(p) ==
    /\ pc[p] = "model"
    /\ \E st \in {"failed", "timed_out"} : finish_run(p, st)
    /\ UNCHANGED <<envVars, done>>

\* Sensitivity variant of ModelMalformed: the retry budget is not checked.
ModelMalformedAgain(p) ==
    /\ pc[p] = "model"
    /\ retries' = [retries EXCEPT ![p] = retries[p] - 1]
    /\ msgs' = [msgs EXCEPT ![p] =
                    Msgs(msgs[p].input, msgs[p].obs, msgs[p].fixes + 1)]
    /\ Go(p, "retry")
    /\ UNCHANGED <<rowVars, begun, mode, step, callVars, cancelled, policy,
                   resumes, edits, done, since>>

\* Output that looks like a malformed tool call earns one correction round.
ModelMalformed(p) ==
    /\ pc[p] = "model" /\ retries[p] > 0
    /\ retries' = [retries EXCEPT ![p] = retries[p] - 1]
    /\ msgs' = [msgs EXCEPT ![p] =
                    Msgs(msgs[p].input, msgs[p].obs, msgs[p].fixes + 1)]
    /\ Go(p, "retry")
    /\ UNCHANGED <<rowVars, begun, mode, step, callVars, cancelled, policy,
                   resumes, edits, done, since>>

\* A final answer, unparsable text, or a correction round that failed.
ModelFinal(p) ==
    /\ pc[p] \in {"model", "retry"}
    /\ finish_run(p, "completed")
    /\ UNCHANGED <<envVars, done>>

\* A tool call, of a registered tool or of a name the model made up.
ModelCalls(p) ==
    /\ pc[p] \in {"model", "retry"}
    /\ \E t \in Tools \cup {Unknown} : call' = [call EXCEPT ![p] = t]
    /\ Go(p, "gate")
    /\ UNCHANGED <<rowVars, begun, mode, step, msgs, retries, plan, seen, how,
                   cancelled, policy, resumes, edits, done, since>>

---------------------------------------------------------------------------
(* The tool gate: execute_tool, and invoke_tool for direct calls.          *)

\* A workflow's tool step: no agent definition, so no allowlist.
Direct(p) ==
    /\ pc[p] = "idle"
    /\ mode' = [mode EXCEPT ![p] = "direct"]
    /\ \E t \in Tools \cup {Unknown} : call' = [call EXCEPT ![p] = t]
    /\ Go(p, "gate")
    /\ UNCHANGED <<rowVars, begun, step, msgs, retries, plan, seen, how,
                   cancelled, policy, resumes, edits, done, since>>

\* The caller gets the observation: the loop adds it and counts the step, the
\* fast path goes on to its next call unless this one failed, a direct call
\* returns.  `ran' counts the execution that led to it, if any.
Observe(p, isErr, ran) ==
    \/ /\ mode[p] = "loop"
       /\ msgs' = [msgs EXCEPT ![p] =
                      Msgs(msgs[p].input, msgs[p].obs + 1, msgs[p].fixes)]
       /\ step' = [step EXCEPT ![p] = step[p] + 1]
       /\ done' = done + ran
       /\ since' = [since EXCEPT ![p] =
                       IF cancelled[p] THEN since[p] + ran ELSE since[p]]
       /\ Go(p, "top")
       /\ UNCHANGED <<rowVars, mode, retries, callVars, cancelled, envVars>>
    \/ /\ mode[p] = "fast" /\ (isErr \/ plan[p] = <<>>)
       /\ finish_run(p, "completed")
       /\ UNCHANGED <<done, envVars>>
    \/ /\ mode[p] = "fast" /\ ~isErr /\ plan[p] # <<>>
       /\ call' = [call EXCEPT ![p] = Head(plan[p])]
       /\ plan' = [plan EXCEPT ![p] = Tail(plan[p])]
       /\ Go(p, "gate")
       /\ UNCHANGED <<rowVars, mode, step, msgs, retries, seen, how, cancelled,
                      since, done, envVars>>
    \/ /\ mode[p] = "direct"
       /\ Leave(p)
       /\ UNCHANGED <<rowVars, done, envVars>>

\* Sensitivity variant of Refuse: a refusal in the loop is not counted as a step.
RefuseUncounted(p) ==
    /\ pc[p] = "gate"
    /\ IF mode[p] = "loop"
       THEN Go(p, "top") /\ UNCHANGED <<rowVars, runVars, done, envVars>>
       ELSE Observe(p, TRUE, 0)

\* The checks that come before the policy, all but the argument schema.
Passes(p) ==
    /\ mode[p] = "direct" \/ Listed(p, call[p])
    /\ call[p] \in Tools

\* Not listed, not registered, arguments that fail the schema, or a denial.
Refuse(p) ==
    /\ pc[p] = "gate"
    /\ \E badArgs \in BOOLEAN :
         Passes(p) /\ ~badArgs => decide(call[p]) = "deny"
    /\ Observe(p, TRUE, 0)

\* The policy decides; AskUser waits for the approval handler.
Gate(p) ==
    /\ pc[p] = "gate" /\ Passes(p)
    /\ seen' = [seen EXCEPT ![p] = policy]
    /\ \/ /\ decide(call[p]) = "ask"
          /\ Go(p, "asked")
          /\ how' = [how EXCEPT ![p] = "none"]
       \/ /\ decide(call[p]) = "allow"
          /\ Go(p, "exec")
          /\ how' = [how EXCEPT ![p] = "allowed"]
    /\ UNCHANGED <<rowVars, begun, mode, step, msgs, retries, call, plan,
                   cancelled, policy, resumes, edits, done, since>>

\* The user grants the request ...
Grant(p) ==
    /\ pc[p] = "asked"
    /\ Go(p, "exec")
    /\ how' = [how EXCEPT ![p] = "granted"]
    /\ UNCHANGED <<rowVars, begun, mode, step, msgs, retries, call, plan, seen,
                   cancelled, policy, resumes, edits, done, since>>

\* ... or denies it, or lets it time out.
DenyCall(p) ==
    /\ pc[p] = "asked"
    /\ Observe(p, TRUE, 0)

\* tool.execute, with its effect on the world, then the observation.
Execute(p) ==
    /\ pc[p] = "exec"
    /\ \E isErr \in BOOLEAN : Observe(p, isErr, 1)

---------------------------------------------------------------------------
(* What happens around a run.                                              *)

\* pai_cancel, at any moment of the run.
Cancel(p) ==
    /\ pc[p] # "idle" /\ ~cancelled[p]
    /\ cancelled' = [cancelled EXCEPT ![p] = TRUE]
    /\ UNCHANGED <<rowVars, begun, pc, mode, step, msgs, retries, callVars,
                   policy, resumes, edits, done, since>>

\* PolicyEngine::set_policy: the table is live.
SetPolicy ==
    /\ edits < MaxEdits
    /\ edits' = edits + 1
    /\ \E q \in Perms, v \in Policies : policy' = [policy EXCEPT ![q] = v]
    /\ UNCHANGED <<rowVars, begun, pc, mode, step, msgs, retries, callVars,
                   cancelled, resumes, done, since>>

\* The steps a process takes by itself once the run is under way.
Drive(p) ==
    \/ Compose(p) \/ FastPath(p)
    \/ StopCancelled(p) \/ Checkpoint(p) \/ OutOfSteps(p)
    \/ ModelFails(p) \/ ModelMalformed(p) \/ ModelFinal(p) \/ ModelCalls(p)
    \/ Refuse(p) \/ Gate(p) \/ Grant(p) \/ DenyCall(p) \/ Execute(p)

Next ==
    \/ \E p \in Procs : \/ Begin(p) \/ Resume(p) \/ Direct(p)
                        \/ Drive(p) \/ Crash(p) \/ Cancel(p)
    \/ Abandon
    \/ SetPolicy

\* Model calls end within step_timeout, approvals within their own timeout,
\* tools return: a process that lives goes on.
Fairness == \A p \in Procs : WF_vars(Drive(p))

Spec == Init /\ [][Next]_vars
FairSpec == Spec /\ Fairness
---------------------------------------------------------------------------
TypeOK ==
    /\ row \in [state : RunStates \cup {"absent"}, ended : BOOLEAN,
                step : Nat, ckpt : Messages]
    /\ begun \in BOOLEAN
    /\ pc \in [Procs -> PCs]
    /\ mode \in [Procs -> {"loop", "fast", "direct"}]
    /\ step \in [Procs -> Nat]
    /\ msgs \in [Procs -> Messages]
    /\ retries \in [Procs -> Nat]
    /\ call \in [Procs -> Tools \cup {Unknown}]
    /\ plan \in [Procs -> Seq(Tools)]
    /\ cancelled \in [Procs -> BOOLEAN]
    /\ policy \in [Perms -> Policies]
    /\ seen \in [Procs -> [Perms -> Policies]]
    /\ how \in [Procs -> {"none", "allowed", "granted"}]
    /\ resumes \in 0..MaxResumes /\ edits \in 0..MaxEdits /\ lost \in 0..MaxLost
    /\ done \in Nat
    /\ since \in [Procs -> Nat]

\* The checkpoint and the step counter always belong together: the stored
\* messages hold exactly one observation per counted step, whatever processes
\* checkpoint, crash or finish in between, so that a resumed run neither skips
\* a step nor shows the model an observation twice.
CheckpointMatchesStep == row.step = row.ckpt.obs /\ row.step < MaxSteps

\* No call reaches a tool unless, in the policy table that was read for this
\* very call, every permission the tool needs was allowed outright, or asked
\* for and then granted by the user; a model's call must also pass the agent's
\* allowlist.  The policy may be edited while the approval is pending.
Gated ==
    \A p \in Procs : pc[p] = "exec" =>
        /\ call[p] \in Tools
        /\ mode[p] = "direct" \/ Allowlist[p] = {} \/ call[p] \in Allowlist[p]
        /\ \A q \in Needs[call[p]] :
              \/ seen[p][q] = "always"
              \/ seen[p][q] = "ask" /\ how[p] = "granted"

\* Crashes and resumptions repeat work, but only the step under way: over the
\* whole life of the run the loop executes at most max_steps tools, plus one
\* for every resumption (one driver, no failing write).
RepeatsOnlyOnResume == done <= MaxSteps + resumes

\* Cancelling takes effect at the next step: at most the one call that is
\* already on its way is still executed.
CancelStopsSoon == \A p \in Procs : since[p] <= 1

\* A run under way comes to an end in this process: the step counter and the
\* single correction round bound the loop, and cancellation is noticed.
Ends == \A p \in Procs : pc[p] # "idle" ~> pc[p] = "idle"
=============================================================================
