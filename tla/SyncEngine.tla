----------------------------- MODULE SyncEngine -----------------------------
(***************************************************************************)
(* The last-writer-wins row engine of crates/pai-sync/src/engine.rs over   *)
(* one transport (a shared folder or the relay).                           *)
(*                                                                         *)
(* Every device keeps a table of rows and a mirror table (sync_objects)    *)
(* of the object versions it has written or applied.  A sync process is    *)
(* one invocation of `pai sync push` or `pai sync pull` (or of the push    *)
(* half and the pull half of `pai sync run`); several may run on a device, *)
(* next to the program that edits the rows.  Every step below is one       *)
(* SQLite transaction or one transport call, which is the grain at which   *)
(* the processes interleave and at which one can crash.                    *)
(***************************************************************************)
EXTENDS Naturals, FiniteSets

CONSTANTS
    Device,     \* paired devices
    NoDevice,   \* the author of an absent row
    Proc,       \* sync processes
    Dev,        \* Dev[p]: the device that process p runs on
    Key,        \* object keys, one per synced row
    Memory,     \* the keys of kind memory/<id>; the others are task/, wf/, ntf/
    Grain,      \* clock instants per version unit (versions are milliseconds)
    Advance,    \* how far the clock may move between two edits
    MaxEdits,   \* bound: local edits in a behaviour
    MaxAborts   \* bound: crashes and transport errors in a behaviour

ASSUME SyncAssumption ==
    /\ NoDevice \notin Device
    /\ Dev \in [Proc -> Device]
    /\ Memory \subseteq Key
    /\ Grain \in Nat \ {0}
    /\ Advance \subseteq Nat
    /\ MaxEdits \in Nat
    /\ MaxAborts \in Nat

VARIABLES
    handoff,  \* TRUE: users edit a row only where its newest edit is visible
    now,      \* the wall clock
    edits,    \* number of local edits so far; identifies the content of a row
    row,      \* row[d][k]: the row of k in d's database
    mirror,   \* mirror[d][k]: updated_at of k's object in d's sync_objects, or 0
    folder,   \* folder[k]: the object on the transport
    proc,     \* proc[p]: where process p is, and what it holds in memory
    latest,   \* history: latest[k] is the row of the last edit of k anywhere
    aborts    \* number of aborted invocations so far

vars == <<handoff, now, edits, row, mirror, folder, proc, latest, aborts>>

\* A row: updated_at, the edit that made its content, that edit's device, and
\* the soft-delete flag.  An absent row has t = 0.
RowType ==
    [t: Nat, rev: Nat, by: Device \cup {NoDevice}, del: BOOLEAN]

NoRow == [t |-> 0, rev |-> 0, by |-> NoDevice, del |-> FALSE]

\* A SyncObject: the sealed row under its key, with the device that pushed it.
Object(k, r, d) ==
    [key |-> k, t |-> r.t, rev |-> r.rev, by |-> r.by, del |-> r.del, writer |-> d]

ObjectType ==
    [key: Key, t: Nat, rev: Nat, by: Device \cup {NoDevice}, del: BOOLEAN,
     writer: Device \cup {NoDevice}]

\* Sensitivity variant of RowOf: the deleted column is not restored.
RowOfNoFlag(o) == [t |-> o.t, rev |-> o.rev, by |-> o.by]

RowOf(o) == [t |-> o.t, rev |-> o.rev, by |-> o.by, del |-> o.del]

NoObject(k) == Object(k, NoRow, NoDevice)

\* Sensitivity variant of VersionOf: every row is published as version 1.
VersionConstant(t) == IF t = 0 THEN 0 ELSE 1

\* version_of: the millisecond of a timestamp, at least 1; 0 when there is none.
VersionOf(t) ==
    IF t = 0 THEN 0 ELSE IF t \div Grain = 0 THEN 1 ELSE t \div Grain

-----------------------------------------------------------------------------
(* Applying an object to a row: what the SQL of the apply_* functions does. *)

\* Sensitivity variants of the two guards: a tie replaces the row; a tombstone
\* of any age deletes a row of the same author.
MergeLiveOnTie(r, o) == IF o.t >= r.t THEN RowOf(o) ELSE r

MergeTombstoneAnyAge(r, o) ==
    IF r.t # 0 /\ (r.t < o.t \/ r.by = o.by) THEN RowOf(o) ELSE r

\* ON CONFLICT DO UPDATE ... WHERE excluded.updated_at > updated_at, deleted=0.
MergeLive(r, o) == IF o.t > r.t THEN RowOf(o) ELSE r

\* UPDATE ... SET deleted=1 WHERE id=? AND updated_at < ?: never creates a row.
MergeTombstone(r, o) == IF r.t # 0 /\ r.t < o.t THEN RowOf(o) ELSE r

Merge(r, o) == IF o.del THEN MergeTombstone(r, o) ELSE MergeLive(r, o)

-----------------------------------------------------------------------------
\* A process: its next step, the keys still to fetch, the objects still to push
\* or to apply, and the object in hand (a set of at most one).
Process(at, keys, batch, cur) ==
    [at |-> at, keys |-> keys, batch |-> batch, cur |-> cur]

Idle == Process("idle", {}, {}, {})

Becomes(p, at, keys, batch, cur) ==
    proc' = [proc EXCEPT ![p] = Process(at, keys, batch, cur)]

Init ==
    /\ handoff \in BOOLEAN
    /\ now = 1
    /\ edits = 0
    /\ row = [d \in Device |-> [k \in Key |-> NoRow]]
    /\ mirror = [d \in Device |-> [k \in Key |-> 0]]
    /\ folder = [k \in Key |-> NoObject(k)]
    /\ proc = [p \in Proc |-> Idle]
    /\ latest = [k \in Key |-> NoRow]
    /\ aborts = 0

(* Local edits, by the program that owns the database. *)

\* One edit on device d makes the row of k content number edits+1, stamped now().
Write(d, k, del) ==
    /\ edits < MaxEdits
    /\ \E a \in Advance :
          LET r == [t |-> now + a, rev |-> edits + 1, by |-> d, del |-> del]
          IN  /\ now' = now + a
              /\ row' = [row EXCEPT ![d][k] = r]
              /\ latest' = [latest EXCEPT ![k] = r]
    /\ edits' = edits + 1
    /\ UNCHANGED <<handoff, mirror, folder, proc, aborts>>

\* Where edits are handed off, the editor has the newest edit on screen.
MayEdit(d, k) == handoff => row[d][k] = latest[k]

\* put / create: ids are UUIDs, so one device creates a row.
Create(d, k) ==
    /\ latest[k] = NoRow
    /\ Write(d, k, FALSE)

\* correct / rename / update: the soft-delete flag keeps its value.
Edit(d, k) ==
    /\ row[d][k] # NoRow
    /\ MayEdit(d, k)
    /\ Write(d, k, row[d][k].del)

\* delete / remove: soft delete, updated_at bumped.
Delete(d, k) ==
    /\ row[d][k] # NoRow
    /\ MayEdit(d, k)
    /\ Write(d, k, TRUE)

-----------------------------------------------------------------------------
(* push *)

UnchangedByProc == UNCHANGED <<handoff, now, edits, latest, aborts>>

\* SELECT ... WHERE sync_scope='synchronized': the rows are read once.
PushStart(p) ==
    LET d == Dev[p] IN
    /\ proc[p].at = "idle"
    /\ Becomes(p, "push", {},
               {Object(k, row[d][k], d) : k \in {j \in Key : row[d][j] # NoRow}}, {})
    /\ UnchangedByProc /\ UNCHANGED <<row, mirror, folder>>

\* mirror_version(key) >= version: skipped; otherwise the object is sealed.
PushCheck(p) ==
    LET d == Dev[p] IN
    /\ proc[p].at = "push"
    /\ \E o \in proc[p].batch :
          IF VersionOf(mirror[d][o.key]) >= VersionOf(o.t)
            THEN Becomes(p, "push", {}, proc[p].batch \ {o}, {})
            ELSE Becomes(p, "send", {}, proc[p].batch \ {o}, {o})
    /\ UnchangedByProc /\ UNCHANGED <<row, mirror, folder>>

\* transport.push: the file of the key is replaced, whatever it holds.
PushSend(p) ==
    /\ proc[p].at = "send"
    /\ \E o \in proc[p].cur : folder' = [folder EXCEPT ![o.key] = o]
    /\ Becomes(p, "sent", {}, proc[p].batch, proc[p].cur)
    /\ UnchangedByProc /\ UNCHANGED <<row, mirror>>

\* set_mirror after a push.
PushMirror(p) ==
    /\ proc[p].at = "sent"
    /\ \E o \in proc[p].cur :
          mirror' = [mirror EXCEPT ![Dev[p]][o.key] = o.t]
    /\ Becomes(p, "push", {}, proc[p].batch, {})
    /\ UnchangedByProc /\ UNCHANGED <<row, folder>>

PushDone(p) ==
    /\ proc[p].at = "push"
    /\ proc[p].batch = {}
    /\ proc' = [proc EXCEPT ![p] = Idle]
    /\ UnchangedByProc /\ UNCHANGED <<row, mirror, folder>>

-----------------------------------------------------------------------------
(* pull *)

\* list(): the keys another device wrote that are newer than the mirror.
PullList(p) ==
    LET d == Dev[p] IN
    /\ proc[p].at = "idle"
    /\ Becomes(p, "fetch", {k \in Key : /\ folder[k] # NoObject(k)
                                        /\ folder[k].writer # d
                                        /\ folder[k].t > mirror[d][k]}, {}, {})
    /\ UnchangedByProc /\ UNCHANGED <<row, mirror, folder>>

\* transport.pull(key): the object as it is now, not as it was listed.
PullFetch(p) ==
    /\ proc[p].at = "fetch"
    /\ \E k \in proc[p].keys :
          Becomes(p, "fetch", proc[p].keys \ {k}, proc[p].batch \cup {folder[k]}, {})
    /\ UnchangedByProc /\ UNCHANGED <<row, mirror, folder>>

\* Everything is fetched: pending.sort_by_key, then apply from the oldest.
PullSort(p) ==
    /\ proc[p].at = "fetch"
    /\ proc[p].keys = {}
    /\ Becomes(p, "apply", {}, proc[p].batch, {})
    /\ UnchangedByProc /\ UNCHANGED <<row, mirror, folder>>

NextToApply(p) ==
    {o \in proc[p].batch : \A q \in proc[p].batch : o.t <= q.t}

\* apply_task, apply_workflow, apply_notification and every tombstone: one
\* guarded statement.
ApplyGuarded(p) ==
    LET d == Dev[p] IN
    /\ proc[p].at = "apply"
    /\ \E o \in NextToApply(p) :
          /\ o.key \notin Memory \/ o.del
          /\ row' = [row EXCEPT ![d][o.key] = Merge(@, o)]
          /\ Becomes(p, "applied", {}, proc[p].batch, {o})
    /\ UnchangedByProc /\ UNCHANGED <<mirror, folder>>

\* apply_memory, first statement: is the local row at least as new?
ApplyMemoryCheck(p) ==
    LET d == Dev[p] IN
    /\ proc[p].at = "apply"
    /\ \E o \in NextToApply(p) :
          /\ o.key \in Memory /\ ~o.del
          /\ IF row[d][o.key].t >= o.t
               THEN Becomes(p, "applied", {}, proc[p].batch, {o})
               ELSE Becomes(p, "upsert", {}, proc[p].batch, {o})
    /\ UnchangedByProc /\ UNCHANGED <<row, mirror, folder>>

\* apply_memory, second statement: INSERT ... ON CONFLICT DO UPDATE, no WHERE.
ApplyMemoryUpsert(p) ==
    /\ proc[p].at = "upsert"
    /\ \E o \in proc[p].cur : row' = [row EXCEPT ![Dev[p]][o.key] = RowOf(o)]
    /\ Becomes(p, "applied", {}, proc[p].batch, proc[p].cur)
    /\ UnchangedByProc /\ UNCHANGED <<mirror, folder>>

\* Sensitivity variant of PullMirror: an applied object is not mirrored.
PullMirrorForgotten(p) ==
    /\ proc[p].at = "applied"
    /\ \E o \in proc[p].cur : Becomes(p, "apply", {}, proc[p].batch \ {o}, {})
    /\ UnchangedByProc /\ UNCHANGED <<row, mirror, folder>>

\* set_mirror after an apply.
PullMirror(p) ==
    /\ proc[p].at = "applied"
    /\ \E o \in proc[p].cur :
          /\ mirror' = [mirror EXCEPT ![Dev[p]][o.key] = o.t]
          /\ Becomes(p, "apply", {}, proc[p].batch \ {o}, {})
    /\ UnchangedByProc /\ UNCHANGED <<row, folder>>

PullDone(p) ==
    /\ proc[p].at = "apply"
    /\ proc[p].batch = {}
    /\ proc' = [proc EXCEPT ![p] = Idle]
    /\ UnchangedByProc /\ UNCHANGED <<row, mirror, folder>>

-----------------------------------------------------------------------------
\* A crash, or a `?` that returns a transport error: what is in memory is lost.
Abort(p) ==
    /\ proc[p].at # "idle"
    /\ aborts < MaxAborts
    /\ aborts' = aborts + 1
    /\ proc' = [proc EXCEPT ![p] = Idle]
    /\ UNCHANGED <<handoff, now, edits, row, mirror, folder, latest>>

Push(p) == PushStart(p) \/ PushCheck(p) \/ PushSend(p) \/ PushMirror(p) \/ PushDone(p)

Pull(p) ==
    \/ PullList(p) \/ PullFetch(p) \/ PullSort(p) \/ ApplyGuarded(p)
    \/ ApplyMemoryCheck(p) \/ ApplyMemoryUpsert(p) \/ PullMirror(p) \/ PullDone(p)

Next ==
    \/ \E d \in Device, k \in Key : Create(d, k) \/ Edit(d, k) \/ Delete(d, k)
    \/ \E p \in Proc : Push(p) \/ Pull(p) \/ Abort(p)

Spec == Init /\ [][Next]_vars

\* A process that has started runs to its end, and both commands are started
\* again and again (a timer or the user runs `pai sync run`).
Fairness ==
    \A p \in Proc :
      /\ WF_vars(/\ proc[p].at # "idle"
                 /\ Push(p) \/ Pull(p))
      /\ SF_vars(PushStart(p))
      /\ SF_vars(PullList(p))

FairSpec == Spec /\ Fairness

-----------------------------------------------------------------------------
(* Properties *)

Stage == {"idle", "push", "send", "sent", "fetch", "apply", "upsert", "applied"}

ProcType ==
    [at: Stage, keys: SUBSET Key, batch: SUBSET ObjectType, cur: SUBSET ObjectType]

\* Types of the engine's tables, of the transport and of the processes' memory.
TypeOK ==
    /\ handoff \in BOOLEAN
    /\ now \in Nat
    /\ edits \in 0 .. MaxEdits
    /\ row \in [Device -> [Key -> RowType]]
    /\ mirror \in [Device -> [Key -> Nat]]
    /\ folder \in [Key -> ObjectType]
    /\ proc \in [Proc -> ProcType]
    /\ latest \in [Key -> RowType]
    /\ aborts \in 0 .. MaxAborts

\* The last edit anyone made of a row is still in the database of the device
\* that made it: no pull, of however stale an object, by however many sync
\* processes at once, replaces it.  It is about the strict WHERE guards of the
\* apply_* statements; apply_memory has none, and memory rows are left out.
LastEditKept ==
    \A k \in Key \ Memory :
        latest[k] # NoRow => row[latest[k].by][k] = latest[k]

\* Outside the memory/ kind, the updated_at of a row never goes back, whatever
\* order objects are listed, fetched and applied in (apply_* guards).
RowsAdvance ==
    [][\A d \in Device, k \in Key \ Memory : row'[d][k].t >= row[d][k].t]_vars

\* The processes of a device follow one another.
OneAtATime == \A p, q \in Proc :
    p # q /\ Dev[p] = Dev[q] => proc[p].at = "idle" \/ proc[q].at = "idle"

\* No invocation dies between what it did to the transport or to a row and the
\* mirror.
OrderlyAborts == \A p \in Proc : proc[p].at \in {"sent", "applied"} => proc'[p].at # "idle"

\* "sync_objects mirrors the sealed objects we've written or applied, so a pull
\* doesn't echo straight back out as a new push" (engine.rs): where edits are
\* handed off, what a device has pushed are edits of its own.
NoEcho == handoff => \A k \in Key : folder[k].writer = folder[k].by

\* What a reader of the row sees: a deleted row and an absent one are the same.
Visible(r) == IF r.del THEN NoRow ELSE r

\* "devices converge" (lib.rs): once editing stops, every device ends up showing
\* the last edit of every row.
Converges ==
    <>[](\A d \in Device, k \in Key : Visible(row[d][k]) = Visible(latest[k]))
=============================================================================
