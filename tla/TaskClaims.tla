----------------------------- MODULE TaskClaims -----------------------------
(***************************************************************************)
(* One background task: the store operations of crates/pai-tasks, the      *)
(* `pai task tick` loop that scans, claims, runs and finishes it           *)
(* (apps/cli/src/cmds/tasks.rs), and the sync engine's last-writer-wins    *)
(* exchange of the whole row, claim and lease included                     *)
(* (crates/pai-sync/src/engine.rs).                                        *)
(*                                                                         *)
(* Every device has one database.  Its processes tick at any time, several *)
(* of them on one device too, and may die between any two steps.  A write  *)
(* takes one unit of time, so updated_at orders the writes.                *)
(***************************************************************************)
EXTENDS Integers, FiniteSets

CONSTANTS
    Device,
    Proc,        \* processes that run `pai task tick`
    Dev,         \* Dev[p]: the device, and so the database, of p
    Lease,       \* lease_secs
    Every,       \* 0: a manual trigger; otherwise the period of "@every Ns"
    MaxTime,     \* bound: the clock
    MaxUser,     \* bound: removals and scope changes
    MaxCrashes   \* bound: processes that die

ASSUME TaskAssumption ==
    /\ Dev \in [Proc -> Device]
    /\ Lease \in Nat \ {0}
    /\ Every \in Nat
    /\ MaxTime \in Nat
    /\ MaxUser \in Nat
    /\ MaxCrashes \in Nat

VARIABLES
    now,       \* the wall clock
    user,      \* removals and scope changes so far
    crashes,   \* deaths so far
    row,       \* row[d]: the task's row on d
    run,       \* run[p]: where p is in its tick, and when its claim ends
    mirrored,  \* mirrored[d]: the version d's sync_objects records
    folder     \* the task's object on the transport, with its pusher

vars == <<now, user, crashes, row, run, mirrored, folder>>

Null == -1

Time == Nat \cup {Null}

State == {"pending", "running", "done", "failed"}

\* A row; t is updated_at, 0 while there is no row.  claim is claimed_by, empty for NULL.
Row(state, runAt, claim, lease, t, del, sync) ==
    [state |-> state, runAt |-> runAt, claim |-> claim, lease |-> lease,
     t |-> t, del |-> del, sync |-> sync]

RowType ==
    [state: State, runAt: Time, claim: SUBSET Device, lease: Time,
     t: Nat, del: BOOLEAN, sync: BOOLEAN]

NoRow == Row("pending", Null, {}, Null, 0, FALSE, FALSE)

\* pc: idle, then due (in the scan's result), claimed, running, ok or bad (the
\* handler returned), ended (the outcome is written; the last push is left).
PC == {"idle", "due", "claimed", "running", "ok", "bad", "ended"}

At(pc, until) == [pc |-> pc, until |-> until]

Idle == At("idle", 0)

Object(r, writer) == [row |-> r, writer |-> writer]

-----------------------------------------------------------------------------
Init ==
    /\ now = 0
    /\ user = 0
    /\ crashes = 0
    /\ row = [d \in Device |-> NoRow]
    /\ run = [p \in Proc |-> Idle]
    /\ mirrored = [d \in Device |-> 0]
    /\ folder = Object(NoRow, {})

\* A write of d's row, stamped with now().
Write(d, state, runAt, claim, lease, del, sync) ==
    /\ now < MaxTime
    /\ now' = now + 1
    /\ row' = [row EXCEPT ![d] =
                 Row(state, runAt, claim, lease, now + 1, del, sync)]

-----------------------------------------------------------------------------
(* The user: create_task, remove_task, set_sync_scope *)

Create(d, runAt, sync) ==
    /\ now = 0
    /\ Write(d, "pending", runAt, {}, Null, FALSE, sync)
    /\ UNCHANGED <<user, crashes, run, mirrored, folder>>

Remove(d) ==
    LET r == row[d]
    IN  /\ r.t > 0
        /\ user < MaxUser
        /\ user' = user + 1
        /\ Write(d, r.state, r.runAt, r.claim, r.lease, TRUE, r.sync)
        /\ UNCHANGED <<crashes, run, mirrored, folder>>

SetSyncScope(d, sync) ==
    LET r == row[d]
    IN  /\ r.t > 0
        /\ r.sync # sync
        /\ user < MaxUser
        /\ user' = user + 1
        /\ Write(d, r.state, r.runAt, r.claim, r.lease, r.del, sync)
        /\ UNCHANGED <<crashes, run, mirrored, folder>>

-----------------------------------------------------------------------------
(* The exchange of the row *)

ToPush(d) == row[d].sync /\ row[d].t > mirrored[d]

\* push_tasks and push_sealed: what is newer than the mirror.
PushRow(d) ==
    /\ ToPush(d)
    /\ folder' = Object(row[d], {d})
    /\ mirrored' = [mirrored EXCEPT ![d] = row[d].t]

\* Sensitivity variant of ApplyTaskTombstone: the row loses its sync_scope.
ApplyTaskTombstoneNoScope(r, f) ==
    IF r.t > 0 /\ r.t < f.t
    THEN [state |-> r.state, runAt |-> r.runAt, claim |-> r.claim,
          lease |-> r.lease, t |-> f.t, del |-> TRUE] ELSE r

\* apply_task_tombstone
ApplyTaskTombstone(r, f) ==
    IF r.t > 0 /\ r.t < f.t
    THEN Row(r.state, r.runAt, r.claim, r.lease, f.t, TRUE, r.sync) ELSE r

\* Sensitivity variant of ApplyTask: the update keeps the local lease.
ApplyTaskKeepLease(r, f) ==
    IF f.t > r.t
    THEN Row(f.state, f.runAt, f.claim, r.lease, f.t, FALSE, r.t = 0 \/ r.sync)
    ELSE r

\* apply_task: the whole row; an inserted row is synchronized, an updated one
\* keeps its scope.
ApplyTask(r, f) ==
    IF f.t > r.t
    THEN Row(f.state, f.runAt, f.claim, f.lease, f.t, FALSE, r.t = 0 \/ r.sync)
    ELSE r

Push(d) ==
    /\ PushRow(d)
    /\ UNCHANGED <<now, user, crashes, row, run>>

Pull(d) ==
    LET f == folder.row
    IN  /\ f.t > mirrored[d]
        /\ d \notin folder.writer
        /\ row' = [row EXCEPT ![d] = IF f.del THEN ApplyTaskTombstone(row[d], f)
                                               ELSE ApplyTask(row[d], f)]
        /\ mirrored' = [mirrored EXCEPT ![d] = f.t]
        /\ UNCHANGED <<now, user, crashes, run, folder>>

-----------------------------------------------------------------------------
(* One tick of process p *)

Passed(at, time) == time # Null /\ time <= at

\* Sensitivity variant of Due: no crash recovery.
DueOnlyPending(r, at) ==
    /\ r.t > 0 /\ ~r.del
    /\ r.runAt = Null \/ r.runAt <= at
    /\ r.state = "pending" /\ (r.claim = {} \/ r.lease = Null \/ r.lease <= at)

\* due_tasks: due, and unclaimed or with an expired lease.
Due(r, at) ==
    /\ r.t > 0 /\ ~r.del
    /\ r.runAt = Null \/ r.runAt <= at
    /\ \/ r.state = "pending" /\ (r.claim = {} \/ r.lease = Null \/ r.lease <= at)
       \/ r.state = "running" /\ Passed(at, r.lease)

\* Sensitivity variant of Claimable: trusts the scan for the state and the tombstone.
ClaimableTrusting(r, d, at) ==
    r.claim = {} \/ r.claim = {d} \/ r.lease = Null \/ r.lease <= at

\* claim_task's WHERE clause.  It does not look at run_at.
Claimable(r, d, at) ==
    /\ r.t > 0 /\ ~r.del
    /\ r.state \in {"pending", "running"}
    /\ r.claim = {} \/ r.claim = {d} \/ r.lease = Null \/ r.lease <= at

\* The scan holds the task; its row may change before the claim.
Scan(p) ==
    /\ run[p].pc = "idle"
    /\ Due(row[Dev[p]], now)
    /\ run' = [run EXCEPT ![p] = At("due", 0)]
    /\ UNCHANGED <<now, user, crashes, row, mirrored, folder>>

Claim(p) ==
    LET r == row[Dev[p]]
    IN  /\ run[p].pc = "due"
        /\ Claimable(r, Dev[p], now + 1)
        /\ Write(Dev[p], "running", r.runAt, {Dev[p]}, now + 1 + Lease, r.del, r.sync)
        /\ run' = [run EXCEPT ![p] = At("claimed", now + 1 + Lease)]
        /\ UNCHANGED <<user, crashes, mirrored, folder>>

\* "claimed by another device - skipped"
Skip(p) ==
    /\ run[p].pc = "due"
    /\ ~Claimable(row[Dev[p]], Dev[p], now + 1)
    /\ run' = [run EXCEPT ![p] = Idle]
    /\ UNCHANGED <<now, user, crashes, row, mirrored, folder>>

\* The push after the claim and the one at the end; without a transport, or when
\* it fails, nothing is pushed and the tick goes on.
Advertise(p) ==
    /\ run[p].pc \in {"claimed", "ended"}
    /\ PushRow(Dev[p]) \/ UNCHANGED <<folder, mirrored>>
    /\ run' = [run EXCEPT ![p] =
                 IF run[p].pc = "claimed" THEN At("running", run[p].until) ELSE Idle]
    /\ UNCHANGED <<now, user, crashes, row>>

\* The handler returns Ok: the agent's reply went into the row with set_result.
HandleOk(p) ==
    LET r == row[Dev[p]]
    IN  /\ run[p].pc = "running"
        /\ Write(Dev[p], r.state, r.runAt, r.claim, r.lease, r.del, r.sync)
        /\ run' = [run EXCEPT ![p] = At("ok", run[p].until)]
        /\ UNCHANGED <<user, crashes, mirrored, folder>>

HandleErr(p) ==
    /\ run[p].pc = "running"
    /\ run' = [run EXCEPT ![p] = At("bad", run[p].until)]
    /\ UNCHANGED <<now, user, crashes, row, mirrored, folder>>

\* requeue_task, for a schedule that fires again; the claim is released.
Requeue(p) ==
    LET r == row[Dev[p]]
    IN  /\ run[p].pc = "ok"
        /\ Every > 0
        /\ Write(Dev[p], "pending", now + 1 + Every, {}, Null, r.del, r.sync)
        /\ run' = [run EXCEPT ![p] = At("ended", 0)]
        /\ UNCHANGED <<user, crashes, mirrored, folder>>

\* finish_task: the state, whatever the row has become; the claim stays.
Finish(p) ==
    LET r == row[Dev[p]]
    IN  /\ run[p].pc = "bad" \/ (run[p].pc = "ok" /\ Every = 0)
        /\ Write(Dev[p], IF run[p].pc = "ok" THEN "done" ELSE "failed",
                 r.runAt, r.claim, r.lease, r.del, r.sync)
        /\ run' = [run EXCEPT ![p] = At("ended", 0)]
        /\ UNCHANGED <<user, crashes, mirrored, folder>>

\* The process dies; its claim stays in the row until the lease runs out.
Crash(p) ==
    /\ run[p].pc # "idle"
    /\ crashes < MaxCrashes
    /\ crashes' = crashes + 1
    /\ run' = [run EXCEPT ![p] = Idle]
    /\ UNCHANGED <<now, user, row, mirrored, folder>>

\* Time passes until the next lease ends or the next run_at comes.
Deadlines == UNION {{row[d].lease, row[d].runAt} : d \in Device}

Pass ==
    /\ \E next \in Deadlines :
         /\ next > now
         /\ next <= MaxTime
         /\ \A time \in Deadlines : time > now => next <= time
         /\ now' = next
    /\ UNCHANGED <<user, crashes, row, run, mirrored, folder>>

-----------------------------------------------------------------------------
\* The steps that take a tick to its end.
Work(p) ==
    \/ Claim(p) \/ Skip(p) \/ Advertise(p)
    \/ HandleOk(p) \/ HandleErr(p) \/ Requeue(p) \/ Finish(p)

User(d) ==
    \/ \E runAt \in {Null, 2}, sync \in BOOLEAN : Create(d, runAt, sync)
    \/ Remove(d)
    \/ \E sync \in BOOLEAN : SetSyncScope(d, sync)

Next ==
    \/ \E d \in Device : User(d) \/ Push(d) \/ Pull(d)
    \/ \E p \in Proc : Scan(p) \/ Work(p) \/ Crash(p)
    \/ Pass

Spec == Init /\ [][Next]_vars

\* cron starts `pai task tick` and `pai sync run` again and again, a tick that
\* does not die ends, and time goes on.
Fairness ==
    /\ \A p \in Proc : WF_vars(Scan(p)) /\ WF_vars(Work(p))
    /\ \A d \in Device : WF_vars(Push(d)) /\ WF_vars(Pull(d))
    /\ WF_vars(Pass)

FairSpec == Spec /\ Fairness

-----------------------------------------------------------------------------
\* Types of the rows, the ticks, the mirror and the object.
TypeOK ==
    /\ now \in 0 .. MaxTime
    /\ user \in 0 .. MaxUser
    /\ crashes \in 0 .. MaxCrashes
    /\ row \in [Device -> RowType]
    /\ run \in [Proc -> [pc: PC, until: Nat]]
    /\ mirrored \in [Device -> Nat]
    /\ folder \in [row: RowType, writer: SUBSET Device]

\* due_tasks recovers a running task by its lease: a running row carries a claim
\* and a lease on every device, whatever ticks, removals and pulls led to it; one
\* with a NULL lease would never be due again.
Recoverable(r) == r.state = "running" => r.claim # {} /\ r.lease # Null

RunningIsRecoverable ==
    /\ \A d \in Device : Recoverable(row[d])
    /\ Recoverable(folder.row)

\* "the losing claimant's next due scan finds the row already claimed (or done)
\* and skips it" (apply_task): no process starts a task that its database records
\* as removed, finished or under the live claim of another device, although its
\* scan may be older than that record.
Free(r, d, at) ==
    /\ ~r.del
    /\ r.state \notin {"done", "failed"}
    /\ r.claim \subseteq {d} \/ r.lease <= at

StartsOnlyFree ==
    [][\A p \in Proc :
         (run[p].pc = "due" /\ run'[p].pc = "claimed")
           => Free(row[Dev[p]], Dev[p], now')]_vars

\* A crashed runner's task "becomes claimable again" after the lease: a one-shot
\* task ends finished or removed on every device that ticks.
Settled(r) == r.t = 0 \/ r.del \/ r.state \in {"done", "failed"}

Settles == <>[](\A p \in Proc : Settled(row[Dev[p]]))
=============================================================================
