------------------------------ MODULE CrdtDocs ------------------------------
(***************************************************************************)
(* App CRDT documents: crates/pai-sync/src/crdt.rs and the part of the     *)
(* sync engine that ships them (engine.rs: push_app_crdts, push_sealed,    *)
(* pull).                                                                  *)
(*                                                                         *)
(* One document of one app, on every device: the plain JSON file the app   *)
(* reads and writes, the table app_crdt_cells with every writer's field    *)
(* set, the table app_crdt_view with what the file was last rewritten      *)
(* from, and the mirror of the versions pushed and applied.  A device runs *)
(* one sync at a time; the app may write its file between any two steps of *)
(* it.  Timestamps are instants of one clock; a writer's object on the     *)
(* transport is remote[w].                                                 *)
(***************************************************************************)
EXTENDS Naturals, Sequences, FiniteSets, FiniteSetsExt

CONSTANTS
    Device,      \* the devices, numbered in the order of their ids
    Fields,      \* fields of the document
    Values,      \* JSON values a field may hold
    NoValue,     \* the value of a cell that has none
    Worlds       \* what apps may do and what may fail, see World

VARIABLES
    world,      \* the world of this behaviour
    clock,      \* the wall clock of all devices
    installed,  \* installed[d]: the package is on d
    file,       \* file[d]: the document on d's disk
    cells,      \* cells[d][w]: app_crdt_cells on d, the rows of writer w
    view,       \* view[d]: app_crdt_view on d
    mirror,     \* mirror[d][w]: version and date of w's object, as d knows it
    remote,     \* remote[w]: w's object on the transport
    sync,       \* sync[d]: the sync that runs on d
    pushes,     \* number of pushes so far: the dates of objects
    newest,     \* history: newest[f] is the last write of f by any app
    writes, aborts   \* counters of the bounded events

docs == <<world, clock, installed, file, cells, view, mirror, remote, sync, pushes,
          newest, writes, aborts>>

Kinds == world.kinds       \* what apps do: "set", "unset", "tomb", "delete"
Formats == world.formats   \* TRUE: an app writes the bytes to_vec_pretty would
Advance == world.advance   \* how far the clock may move between two writes
Calm == world.calm         \* TRUE: apps write only while their device does not
                           \* sync, and every sync is a full `pai sync run'
MaxWrites == world.edits    \* bound: writes by apps
MaxAborts == world.aborts  \* bound: syncs that die or fail

\* A cell: absent, a plain value (only in files), a value or a tombstone.
Cell(k, v, t) == [kind |-> k, v |-> v, t |-> t]
None == Cell("none", NoValue, 0)
Plain(v) == Cell("plain", v, 0)
Val(v, t) == Cell("val", v, t)
Tomb(t) == Cell("tomb", NoValue, t)
CellType == [kind : {"none", "plain", "val", "tomb"},
             v : Values \cup {NoValue}, t : Nat]

FieldSet == [Fields -> CellType]
NoFields == [f \in Fields |-> None]

\* A file: whether it exists, its entries, whether its bytes are those the
\* merge would write for them, and its modification time.
File(x, m, c, t) == [exists |-> x, map |-> m, pretty |-> c, mtime |-> t]

\* An object and its version; versions are compared with the date as tie-break.
Object(n, at, fs) == [version |-> n, at |-> at, fields |-> fs]
Newer(a, b) ==
    a.version > b.version \/ (a.version = b.version /\ a.at > b.at)

\* A sync: where it is; collecting: was the document on disk, how often it is
\* still looked at, the field set in hand, the field sets to push; pulling:
\* the writers to fetch, the objects to apply.
Sync(at, was, left, hand, out, todo, batch) ==
    [at |-> at, was |-> was, left |-> left, hand |-> hand, out |-> out,
     todo |-> todo, batch |-> batch]
Idle == Sync("idle", FALSE, 0, NoFields, <<>>, {}, {})
Collecting(was, left, out) == Sync("collect", was, left, NoFields, out, {}, {})
Pulling(at, todo, batch) == Sync(at, FALSE, 0, NoFields, <<>>, todo, batch)

DocsInit ==
    /\ world \in Worlds
    /\ clock = 1
    /\ installed \in [Device -> BOOLEAN]
    /\ file = [d \in Device |-> File(FALSE, NoFields, FALSE, 0)]
    /\ cells = [d \in Device |-> [w \in Device |-> NoFields]]
    /\ view = [d \in Device |-> NoFields]
    /\ mirror = [d \in Device |-> [w \in Device |-> Object(0, 0, NoFields)]]
    /\ remote = [w \in Device |-> Object(0, 0, NoFields)]
    /\ sync = [d \in Device |-> Idle]
    /\ pushes = 0
    /\ newest = NoFields
    /\ writes = 0 /\ aborts = 0

-----------------------------------------------------------------------------
(* The merge.                                                              *)

Holders(cs, f) == {w \in Device : cs[w][f].kind # "none"}

\* Sensitivity variant of Winner: ORDER BY t_ms ASC.
WinnerOldest(cs, f) ==
    CHOOSE w \in Holders(cs, f) : \A u \in Holders(cs, f) :
        \/ cs[w][f].t < cs[u][f].t
        \/ cs[w][f].t = cs[u][f].t /\ w <= u

\* ORDER BY t_ms DESC, writer ASC; the first row of a field is its winner.
Winner(cs, f) ==
    CHOOSE w \in Holders(cs, f) : \A u \in Holders(cs, f) :
        \/ cs[w][f].t > cs[u][f].t
        \/ cs[w][f].t = cs[u][f].t /\ w <= u

\* winners: the rows of the merged document; a tombstone removes its field.
winners(cs) ==
    [f \in Fields |->
        IF Holders(cs, f) = {} \/ cs[Winner(cs, f)][f].kind = "tomb"
        THEN None
        ELSE cs[Winner(cs, f)][f]]

PlainOf(fs) ==
    [f \in Fields |-> IF fs[f].kind = "none" THEN None ELSE Plain(fs[f].v)]

\* materialize: the file and the view are rewritten, unless the app is not
\* installed or the file has the very bytes already.
materialize(d, cs) ==
    LET rows == winners(cs)
        same == /\ file[d].exists /\ file[d].pretty
                /\ file[d].map = PlainOf(rows)
    IN  IF ~installed[d] \/ same
        THEN UNCHANGED <<file, view>>
        ELSE /\ file' = [file EXCEPT ![d] =
                            File(TRUE, PlainOf(rows), TRUE, clock)]
             /\ view' = [view EXCEPT ![d] = rows]

\* replace_cells, then materialize.
Absorb(d, w, fs) ==
    LET cs == [cells[d] EXCEPT ![w] = fs]
    IN  /\ cells' = [cells EXCEPT ![d] = cs]
        /\ materialize(d, cs)

\* Sensitivity variant of collect_doc: a changed value stays a plain one.
collect_docPlain(d) ==
    [f \in Fields |->
        LET e == file[d].map[f]
        IN  IF ~file[d].exists THEN None
            ELSE IF /\ e.kind = "plain" /\ view[d][f].kind = "val"
                    /\ view[d][f].v = e.v
                 THEN Val(e.v, view[d][f].t)
                 ELSE e]

\* collect_doc: explicit cells as they are; a plain value has the view's
\* timestamp when the view has that value, the file's otherwise.
collect_doc(d) ==
    [f \in Fields |->
        LET e == file[d].map[f]
        IN  IF ~file[d].exists THEN None
            ELSE IF e.kind # "plain" THEN e
            ELSE IF view[d][f].kind = "val" /\ view[d][f].v = e.v
                 THEN Val(e.v, view[d][f].t)
                 ELSE Val(e.v, file[d].mtime)]

-----------------------------------------------------------------------------
(* The app, and the installation of its package.                           *)

Stamp(f, c) == newest' = [newest EXCEPT ![f] = c]

Write(d, m, t) ==
    \E pretty \in Formats : file' = [file EXCEPT ![d] = File(TRUE, m, pretty, t)]

\* Entry by entry, what the file holds when the app rewrites it.
Entry(d, f, c) ==
    [g \in Fields |-> IF g = f THEN c
                      ELSE IF file[d].exists THEN file[d].map[g] ELSE None]

Current(d, f) == IF file[d].exists THEN file[d].map[f] ELSE None

AppWrites(d) ==
    /\ installed[d] /\ writes < MaxWrites
    /\ Calm => sync[d] = Idle
    /\ writes' = writes + 1
    /\ \E a \in Advance : clock' = clock + a
    /\ \/ \E f \in Fields, v \in Values :
             /\ "set" \in Kinds /\ Current(d, f) # Plain(v)
             /\ Write(d, Entry(d, f, Plain(v)), clock')
             /\ Stamp(f, Val(v, clock'))
       \/ \E f \in Fields :
             /\ "tomb" \in Kinds /\ Current(d, f).kind # "none"
             /\ Write(d, Entry(d, f, Tomb(clock')), clock')
             /\ Stamp(f, Tomb(clock'))
       \/ \E f \in Fields :
             /\ "unset" \in Kinds /\ Current(d, f).kind # "none"
             /\ Write(d, Entry(d, f, None), clock')
             /\ UNCHANGED newest
       \/ /\ "delete" \in Kinds /\ file[d].exists
          /\ file' = [file EXCEPT ![d] = File(FALSE, NoFields, FALSE, 0)]
          /\ UNCHANGED newest
    /\ UNCHANGED <<world, installed, cells, view, mirror, remote, sync, pushes,
                   aborts>>

\* apply_app puts the package there and calls materialize_all: documents that
\* have cells are written.
Install(d) ==
    /\ ~installed[d]
    /\ installed' = [installed EXCEPT ![d] = TRUE]
    /\ IF \E w \in Device : cells[d][w] # NoFields
       THEN /\ file' = [file EXCEPT ![d] =
                           File(TRUE, PlainOf(winners(cells[d])), TRUE, clock)]
            /\ view' = [view EXCEPT ![d] = winners(cells[d])]
       ELSE UNCHANGED <<file, view>>
    /\ UNCHANGED <<world, clock, cells, mirror, remote, sync, pushes, newest,
                   writes, aborts>>

-----------------------------------------------------------------------------
(* pai sync run: collect, push, pull.                                      *)

At(d, s) == sync' = [sync EXCEPT ![d] = s]

\* collect lists the documents on disk, then those with cells of ours: a
\* published document is looked at twice.
Begin(d) ==
    /\ sync[d].at = "idle"
    /\ LET onDisk == IF file[d].exists THEN 1 ELSE 0
           ours   == IF cells[d][d] # NoFields THEN 1 ELSE 0
           n      == IF installed[d] THEN onDisk + ours ELSE 0
       IN  At(d, Collecting(installed[d] /\ file[d].exists, n, <<>>))
    /\ UNCHANGED <<clock, installed, file, cells, view, mirror, remote, pushes,
                   newest, writes, aborts>>

\* collect_doc, and `continue' when nothing changed since the last publish.
Collect(d) ==
    LET s == sync[d]
        fs == collect_doc(d)
    IN  /\ s.at = "collect" /\ s.left > 0
        /\ IF s.was /\ fs = cells[d][d]
           THEN At(d, Collecting(s.was, s.left - 1, s.out))
           ELSE At(d, Sync("store", s.was, s.left, fs, s.out, {}, {}))
        /\ UNCHANGED <<clock, installed, file, cells, view, mirror, remote,
                       pushes, newest, writes, aborts>>

\* The payload is queued; our cells are replaced and the document rewritten.
Store(d) ==
    LET s == sync[d]
    IN  /\ s.at = "store"
        /\ Absorb(d, d, s.hand)
        /\ At(d, Collecting(s.was, s.left - 1, Append(s.out, s.hand)))
        /\ UNCHANGED <<clock, installed, mirror, remote, pushes, newest, writes,
                       aborts>>

\* push_app_crdts and push_sealed: a version above the mirror's.
Push(d) ==
    LET s == sync[d]
        fs == Head(s.out)
        hint == IF fs = NoFields THEN clock
                ELSE Max({fs[f].t : f \in Fields})
        n == Max({hint, mirror[d][d].version + 1})
    IN  /\ s.at = "collect" /\ s.left = 0 /\ s.out # <<>>
        /\ pushes' = pushes + 1
        /\ remote' = [remote EXCEPT ![d] = Object(n, pushes', fs)]
        /\ At(d, Sync("pushed", FALSE, 0, NoFields, s.out, {},
                      {<<d, remote'[d]>>}))
        /\ UNCHANGED <<clock, installed, file, cells, view, mirror, newest,
                       writes, aborts>>

SetMirror(d, w, o) == mirror' = [mirror EXCEPT ![d][w] = o]

Pushed(d) ==
    LET s == sync[d]
    IN  /\ s.at = "pushed"
        /\ \E b \in s.batch :
              SetMirror(d, d, Object(b[2].version, b[2].at, NoFields))
        /\ At(d, Collecting(FALSE, 0, Tail(s.out)))
        /\ UNCHANGED <<clock, installed, file, cells, view, remote, pushes,
                       newest, writes, aborts>>

\* The listing of pull: others' objects newer than the mirror.
List(d) ==
    LET s == sync[d]
        new == {w \in Device \ {d} : Newer(remote[w], mirror[d][w])}
    IN  /\ s.at = "collect" /\ s.left = 0 /\ s.out = <<>>
        /\ At(d, Pulling("fetch", new, {}))
        /\ UNCHANGED <<clock, installed, file, cells, view, mirror, remote,
                       pushes, newest, writes, aborts>>

\* `pai sync pull' starts here.
PullOnly(d) ==
    LET new == {w \in Device \ {d} : Newer(remote[w], mirror[d][w])}
    IN  /\ sync[d].at = "idle" /\ new # {} /\ ~Calm
        /\ At(d, Pulling("fetch", new, {}))
        /\ UNCHANGED <<clock, installed, file, cells, view, mirror, remote,
                       pushes, newest, writes, aborts>>

\* Sensitivity variant of Fetch: the mirror is set as objects come in.
FetchMirrors(d) ==
    LET s == sync[d]
    IN  /\ s.at = "fetch"
        /\ IF s.todo = {}
           THEN /\ UNCHANGED mirror
                /\ At(d, IF s.batch = {} THEN Idle
                         ELSE Pulling("apply", {}, s.batch))
           ELSE \E w \in s.todo :
                   /\ SetMirror(d, w, Object(remote[w].version, remote[w].at,
                                             NoFields))
                   /\ At(d, Pulling("fetch", s.todo \ {w},
                                    s.batch \cup {<<w, remote[w]>>}))
        /\ UNCHANGED <<clock, installed, file, cells, view, remote, pushes,
                       newest, writes, aborts>>

Fetch(d) ==
    LET s == sync[d]
    IN  /\ s.at = "fetch"
        /\ IF s.todo = {} /\ s.batch = {}
           THEN At(d, Idle)
           ELSE IF s.todo = {}
           THEN At(d, Pulling("apply", {}, s.batch))
           ELSE \E w \in s.todo :
                   At(d, Pulling("fetch", s.todo \ {w},
                                 s.batch \cup {<<w, remote[w]>>}))
        /\ UNCHANGED <<clock, installed, file, cells, view, mirror, remote,
                       pushes, newest, writes, aborts>>

First(batch) == CHOOSE b \in batch : \A c \in batch : b[2].at <= c[2].at

\* Sensitivity variant of Apply: the rows are replaced, the file is not.
ApplyTableOnly(d) ==
    LET s == sync[d]
        b == First(s.batch)
    IN  /\ s.at = "apply"
        /\ cells' = [cells EXCEPT ![d][b[1]] = b[2].fields]
        /\ At(d, Pulling("applied", {}, s.batch))
        /\ UNCHANGED <<clock, installed, file, view, mirror, remote, pushes,
                       newest, writes, aborts>>

\* crdt::apply: the writer's rows are replaced and the document rewritten.
Apply(d) ==
    LET s == sync[d]
        b == First(s.batch)
    IN  /\ s.at = "apply"
        /\ Absorb(d, b[1], b[2].fields)
        /\ At(d, Pulling("applied", {}, s.batch))
        /\ UNCHANGED <<clock, installed, mirror, remote, pushes, newest, writes,
                       aborts>>

\* Sensitivity variant of Applied: the mirror does not learn the version.
AppliedUnmirrored(d) ==
    LET s == sync[d]
        b == First(s.batch)
    IN  /\ s.at = "applied"
        /\ IF s.batch = {b} THEN At(d, Idle)
           ELSE At(d, Pulling("apply", {}, s.batch \ {b}))
        /\ UNCHANGED <<clock, installed, file, cells, view, mirror, remote,
                       pushes, newest, writes, aborts>>

Applied(d) ==
    LET s == sync[d]
        b == First(s.batch)
    IN  /\ s.at = "applied"
        /\ SetMirror(d, b[1], Object(b[2].version, b[2].at, NoFields))
        /\ IF s.batch = {b} THEN At(d, Idle)
           ELSE At(d, Pulling("apply", {}, s.batch \ {b}))
        /\ UNCHANGED <<clock, installed, file, cells, view, remote, pushes,
                       newest, writes, aborts>>

\* The transport fails or the process dies: the sync is over.
Abort(d) ==
    /\ sync[d].at # "idle" /\ aborts < MaxAborts
    /\ aborts' = aborts + 1
    /\ At(d, Idle)
    /\ UNCHANGED <<world, clock, installed, file, cells, view, mirror, remote,
                   pushes, newest, writes>>

SyncStep(d) ==
    /\ \/ Begin(d) \/ Collect(d) \/ Store(d) \/ Push(d) \/ Pushed(d)
       \/ List(d) \/ PullOnly(d) \/ Fetch(d) \/ Apply(d) \/ Applied(d)
    /\ UNCHANGED world

DocsNext == \E d \in Device : AppWrites(d) \/ Install(d) \/ SyncStep(d) \/ Abort(d)

\* Devices keep syncing; the package arrives everywhere.
Fairness == \A d \in Device : WF_docs(SyncStep(d)) /\ WF_docs(Install(d))

DocsSpec == DocsInit /\ [][DocsNext]_docs
-----------------------------------------------------------------------------
ObjectType == [version : Nat, at : Nat, fields : FieldSet]

DocsTypeOK ==
    /\ world \in Worlds /\ clock \in Nat /\ pushes \in Nat
    /\ installed \in [Device -> BOOLEAN]
    /\ \A d \in Device :
         /\ file[d] \in [exists : BOOLEAN, map : FieldSet, pretty : BOOLEAN,
                         mtime : Nat]
         /\ \A w \in Device : cells[d][w] \in FieldSet
         /\ \A w \in Device : mirror[d][w] \in ObjectType
         /\ view[d] \in FieldSet /\ remote[d] \in ObjectType
         /\ \A f \in Fields : /\ view[d][f].kind \in {"none", "val"}
                              /\ \A w \in Device : cells[d][w][f].kind # "plain"
         /\ sync[d].at \in {"idle", "collect", "store", "pushed", "fetch",
                            "apply", "applied"}

\* d has nothing to publish and nothing to learn.
QuietAt(d) ==
    /\ installed[d]
    /\ IF file[d].exists THEN collect_doc(d) = cells[d][d]
       ELSE cells[d][d] = NoFields
    /\ \A w \in Device \ {d} : ~Newer(remote[w], mirror[d][w])
Settled == \A d \in Device : QuietAt(d) /\ sync[d] = Idle

Shown(d) == [f \in Fields |-> Current(d, f)]

\* A device whose mirror is at a writer's version holds exactly the field set
\* the writer published with it: no interleaving of pushes, pulls, crashes and
\* local edits makes it miss a version or keep a withdrawn field.
MirrorMeansCells ==
    \A d, w \in Device :
        d # w /\ mirror[d][w].version = remote[w].version
              /\ mirror[d][w].at = remote[w].at
        => cells[d][w] = remote[w].fields

\* Convergence, in a calm world: when no device has anything left to publish or to learn, every
\* device shows the same document ("every peer converges by merging cells
\* field-wise").
Agreement == Calm /\ Settled => \A d, e \in Device : Shown(d) = Shown(e)

\* ... and it is the document the apps wrote: the last value of every field,
\* or no field where the last write was a tombstone.
LastEditShown ==
    Calm /\ Settled => \A d \in Device, f \in Fields :
        Shown(d)[f] = IF newest[f].kind = "val" THEN Plain(newest[f].v) ELSE None

\* Once the apps stop writing, the syncs have nothing to do any more: merged
\* fields that are re-published do not set each other off for ever.
Settles == Calm => <>[](\A d \in Device : QuietAt(d))
=============================================================================
