------------------------------- MODULE AppHome -------------------------------
(***************************************************************************)
(* Where an app lives: the apps row with its active_device, the installed  *)
(* package, its live data/ directory and its backups, on every device      *)
(* (crates/pai-sync/src/backup.rs, crates/pai-apps/src/lib.rs, `pai apps'  *)
(* in apps/cli/src/cmds/apps.rs, `pai deploy'), and the app/ and bkp/      *)
(* objects that carry them (push_apps, push_backups, pull, apply_app in    *)
(* crates/pai-sync/src/engine.rs).                                         *)
(*                                                                         *)
(* On a device one command of the user, one push or pull and one run of    *)
(* the app are under way at a time, interleaved; a command may die and a   *)
(* push fail between two steps.  The data of an app is the set of the      *)
(* writes its runs made.  A stamped write of a row takes one unit of time. *)
(***************************************************************************)
EXTENDS Naturals, FiniteSets

CONSTANTS
    Devices,
    None,       \* no active_device: the app runs everywhere
    MaxTime,    \* bound: stamped writes of rows
    MaxRuns,    \* bound: runs that write
    MaxDeaths   \* bound: commands and pushes that break off

ASSUME AppHomeAssumption ==
    /\ None \notin Devices
    /\ MaxTime \in Nat \ {0} /\ MaxRuns \in Nat /\ MaxDeaths \in Nat

VARIABLES
    now,
    row,       \* row[d]: the app's row in apps
    pkg,       \* the devices where the package is installed
    live,      \* live[d]: the data in apps/<id>/data
    parked,    \* parked[d]: the data in .<id>.data.inactive-*
    held,      \* held[d][w]: the backup of writer w in d's app_backups
    running,   \* running[d]: where the directory a run has open is by now
    cmd,       \* cmd[d]: the command under way, with the device it names
    syn,       \* syn[d]: whether a push has its backups still to ship
    pend,      \* pend[d]: the objects pulled and not yet applied
    seen,      \* seen[d][k]: the version of object k in d's sync_objects
    remote,    \* remote[k]: the object with key k on the transport
    writes,    \* history: the writes of all runs so far, numbered
    dropped,   \* history: those a command or a restore threw away, or that a
               \* run made whose app had moved on meanwhile
    moving,    \* history: moving[d]: the backup that a migration to d waits for
    clash,     \* history: what went against the order of the edits
    deaths

\* The key of the app/ object is None; that of a bkp/ object, its writer.
Keys == Devices \cup {None}

Row(home, t, gone) == [home |-> home, t |-> t, gone |-> gone]
NoRow == Row(None, 0, TRUE)

\* A backup: the data, the row's home when it was made, and where it migrates to.
Pak(t, data, home, to, gone) ==
    [t |-> t, data |-> data, home |-> home, to |-> to, gone |-> gone]
NoPak == Pak(0, {}, None, None, TRUE)

Empty == [k \in Keys |-> IF k = None THEN NoRow ELSE NoPak]

vars == <<now, row, pkg, live, parked, held, running, cmd, syn, pend, seen,
          remote, writes, dropped, moving, clash, deaths>>
app == <<row, pkg, live, parked, held, running>>
exchange == <<syn, pend, seen, remote>>
history == <<writes, dropped, moving, clash>>

\* An app that was deployed on a device and pulled on all but some new devices,
\* placed on a device (by a migration that ended) or not at all.
Init ==
    /\ now = 1
    /\ \E home \in Keys, new \in SUBSET Devices :
         /\ home \notin new /\ new # Devices
         /\ row = [d \in Devices |-> IF d \in new THEN NoRow ELSE Row(home, 1, FALSE)]
         /\ pkg = Devices \ new
         /\ seen = [d \in Devices |-> [k \in Keys |->
                       IF k = None /\ d \notin new THEN 1 ELSE 0]]
         /\ remote = [k \in Keys |->
              [obj |-> IF k = None THEN Row(home, 1, FALSE) ELSE NoPak, by |-> None]]
         /\ clash = IF home = None THEN {"unplaced"} ELSE {}
    /\ live = [d \in Devices |-> {}]
    /\ parked = [d \in Devices |-> {}]
    /\ held = [d \in Devices |-> [w \in Devices |-> NoPak]]
    /\ running = [d \in Devices |-> "no"]
    /\ cmd = [d \in Devices |-> <<"idle", None>>]
    /\ syn = [d \in Devices |-> "idle"]
    /\ pend = [d \in Devices |-> Empty]
    /\ writes = 0
    /\ dropped = {} /\ moving = [d \in Devices |-> 0]
    /\ deaths = 0

-----------------------------------------------------------------------------
(* Parts of the commands.                                                  *)

\* Sensitivity variant of Elsewhere: runs, backups and restores go unguarded.
Anywhere(d) == FALSE

\* active_elsewhere
Elsewhere(d) == row[d].home \notin {None, d}

Home(d) == row[d].home = d

\* A row is stamped on a device that does not know of the newest version, which
\* a restore may have made older where it is known.
Stale(d) ==
    IF \E e \in Devices : \E t \in {row[e].t, seen[e][None]} :
          t > row[d].t /\ t > seen[d][None]
    THEN {"stale"} ELSE {}

\* Something is done at a new home that does not have the app's data yet.
Early(d) == IF moving[d] > 0 THEN {"early"} ELSE {}

Stamp(d, home, gone) ==
    /\ now < MaxTime
    /\ now' = now + 1
    /\ row' = [row EXCEPT ![d] = Row(home, now + 1, gone)]

\* Sensitivity variant of Follow: a run writes by path, wherever the directory went.
ByPath(d, where) == running' = running

\* A run that has the live directory open keeps it where it goes.
Follow(d, where) ==
    running' = [running EXCEPT ![d] = IF @ = "live" THEN where ELSE @]

\* AppRegistry::place with upgrade: data/ is moved aside, merged back into the
\* new directory and the old one deleted.
Place(d) == pkg' = pkg \cup {d} /\ Follow(d, "gone")

\* AppRegistry::deactivate_data
Deactivate(d) ==
    /\ parked' = [parked EXCEPT ![d] = @ \cup live[d]]
    /\ live' = [live EXCEPT ![d] = {}]

\* restore_unchecked: the package, the row and the data of a backup.  The row
\* keeps its placement and takes the backup's time.
RestoreFrom(d, pak) ==
    /\ Place(d)
    /\ row' = [row EXCEPT ![d] =
                 Row(IF @ = NoRow THEN pak.home ELSE @.home, pak.t, FALSE)]
    /\ live' = [live EXCEPT ![d] = pak.data]
    /\ dropped' = dropped \cup (live[d] \ pak.data)

\* The row that a push would ship, or one of a removed app, gets the time of a
\* backup that is not newer than the mirror: no push ships it any more.
Sunk(d, pak) ==
    IF pak.t <= seen[d][None] /\ (row[d].gone \/ row[d].t > seen[d][None])
    THEN {"sunk"} ELSE {}

\* A removed app whose row this device never had comes back from a backup, with
\* the placement of that time.
Reborn(d, pak) ==
    IF row[d] = NoRow /\ seen[d][None] > pak.t THEN {"forgot"} ELSE {}

Idle(d) == cmd[d] = <<"idle", None>>
Do(d, what, to) == cmd' = [cmd EXCEPT ![d] = <<what, to>>]

-----------------------------------------------------------------------------
(* The commands.                                                           *)

\* Sensitivity variant of Deploy: the upgrade takes the app over.
DeployHere(d) ==
    /\ Idle(d)
    /\ Stamp(d, d, FALSE)
    /\ Place(d)
    /\ clash' = clash \cup Stale(d)
    /\ UNCHANGED <<live, parked, held, cmd, exchange, writes, dropped, moving,
                   deaths>>

\* pai deploy --upgrade: the row keeps the placement this device knows of, which
\* is none where the app was removed before it arrived.
Deploy(d) ==
    /\ Idle(d)
    /\ Stamp(d, row[d].home, FALSE)
    /\ Place(d)
    /\ clash' = clash \cup Stale(d) \cup
                  IF row[d].home = None THEN {"unplaced"} ELSE {}
    /\ UNCHANGED <<live, parked, held, cmd, exchange, writes, dropped, moving,
                   deaths>>

\* apps remove: the directory with its data, and a tombstone.
Remove(d) ==
    /\ Idle(d) /\ d \in pkg
    /\ Stamp(d, row[d].home, TRUE)
    /\ pkg' = pkg \ {d}
    /\ live' = [live EXCEPT ![d] = {}]
    /\ dropped' = dropped \cup live[d]
    /\ Follow(d, "gone")
    /\ clash' = clash \cup Stale(d)
    /\ UNCHANGED <<parked, held, cmd, exchange, writes, moving, deaths>>

\* backup::create, from the active device only.
Create(d, to) ==
    /\ Idle(d) /\ ~Elsewhere(d) /\ d \in pkg
    /\ now < MaxTime
    /\ now' = now + 1
    /\ held' = [held EXCEPT ![d][d] =
                  Pak(now + 1, live[d], row[d].home, to, FALSE)]
    /\ clash' = clash \cup Early(d)
    /\ UNCHANGED <<row, pkg, live, parked, running, exchange, writes, dropped,
                   moving, deaths>>

Backup(d) == Create(d, None) /\ UNCHANGED cmd

\* backup::delete: a tombstone of the own backup.
BackupDelete(d) ==
    /\ Idle(d) /\ ~held[d][d].gone
    /\ now < MaxTime
    /\ now' = now + 1
    /\ held' = [held EXCEPT ![d][d] = Pak(now + 1, {}, None, None, TRUE)]
    /\ clash' = clash \cup IF held[d][d].to = None THEN {} ELSE {"deleted"}
    /\ UNCHANGED <<row, pkg, live, parked, running, cmd, exchange, writes,
                   dropped, moving, deaths>>

\* apps migrate: a backup flagged for the target, ...
Migrate(d) == \E to \in Devices \ {d} : Create(d, to) /\ Do(d, "hand", to)

\* ... the placement, ...
Hand(d) ==
    /\ cmd[d][1] = "hand"
    /\ Stamp(d, cmd[d][2], row[d].gone)
    /\ Do(d, "park", cmd[d][2])
    /\ moving' = [moving EXCEPT ![cmd[d][2]] =
                    IF seen[cmd[d][2]][d] < held[d][d].t THEN held[d][d].t ELSE 0]
    /\ clash' = clash \cup Stale(d)
    /\ UNCHANGED <<pkg, live, parked, held, running, exchange, writes, dropped,
                   deaths>>

\* ... and the local data, moved aside.
Park(d) ==
    /\ cmd[d][1] = "park"
    /\ Deactivate(d) /\ Follow(d, "parked")
    /\ Do(d, "idle", None)
    /\ clash' = clash \cup IF Home(d) \/ \E w \in Devices : held[d][w].t > held[d][d].t
                          THEN {"late"} ELSE {}
    /\ UNCHANGED <<now, row, pkg, held, exchange, writes, dropped, moving, deaths>>

\* apps rescue: claim_active, then restore.
Rescue(d) ==
    /\ Idle(d) /\ row[d] # NoRow /\ ~row[d].gone
    /\ Stamp(d, d, FALSE)
    /\ Do(d, "claimed", None)
    /\ clash' = clash \cup {"rescue"}
    /\ UNCHANGED <<pkg, live, parked, held, running, exchange, writes, dropped,
                   moving, deaths>>

Stored(d) == {w \in Devices : ~held[d][w].gone}

\* apps restore: the newest backup.
Restore(d) ==
    /\ cmd[d][1] \in {"idle", "claimed"} /\ ~Elsewhere(d)
    /\ \E w \in Stored(d) :
         /\ \A x \in Stored(d) : held[d][x].t <= held[d][w].t
         /\ RestoreFrom(d, held[d][w])
         /\ clash' = clash \cup Early(d) \cup Stale(d) \cup Sunk(d, held[d][w])
                             \cup Reborn(d, held[d][w])
    /\ Do(d, "idle", None)
    /\ UNCHANGED <<now, parked, held, exchange, writes, moving, deaths>>

\* A rescue that finds no backup: the claim stands.
ClaimOnly(d) ==
    /\ cmd[d][1] = "claimed" /\ Stored(d) = {}
    /\ Do(d, "idle", None)
    /\ UNCHANGED <<now, app, exchange, history, deaths>>

Dies(d) ==
    /\ ~Idle(d) /\ deaths < MaxDeaths
    /\ deaths' = deaths + 1
    /\ Do(d, "idle", None)
    /\ UNCHANGED <<now, app, exchange, history>>

Command(d) ==
    \/ Deploy(d) \/ Remove(d) \/ Backup(d) \/ BackupDelete(d)
    \/ Migrate(d) \/ Rescue(d) \/ Restore(d) \/ Dies(d)

\* The steps that take a command to its end.
Carry(d) == Hand(d) \/ Park(d) \/ ClaimOnly(d) \/ (Restore(d) /\ ~Idle(d))

-----------------------------------------------------------------------------
(* apps run: guarded by the placement when it starts.                      *)

RunStart(d) ==
    /\ running[d] = "no" /\ d \in pkg /\ ~Elsewhere(d)
    /\ running' = [running EXCEPT ![d] = "live"]
    /\ clash' = clash \cup Early(d)
    /\ UNCHANGED <<now, row, pkg, live, parked, held, cmd, exchange, writes,
                   dropped, moving, deaths>>

RunEnd(d) ==
    /\ running[d] # "no" /\ writes < MaxRuns
    /\ running' = [running EXCEPT ![d] = "no"]
    /\ writes' = writes + 1
    /\ live' = IF running[d] = "live"
               THEN [live EXCEPT ![d] = @ \cup {writes + 1}] ELSE live
    /\ parked' = IF running[d] = "parked"
                 THEN [parked EXCEPT ![d] = @ \cup {writes + 1}] ELSE parked
    /\ dropped' = IF running[d] = "live" /\ Idle(d) /\ ~Elsewhere(d)
                  THEN dropped ELSE dropped \cup {writes + 1}
    /\ UNCHANGED <<now, row, pkg, held, cmd, exchange, moving, clash, deaths>>

-----------------------------------------------------------------------------
(* The exchange: push, then pull.                                          *)

\* push_apps: the row, when it is newer than the mirror and the package is there.
Ships(d) == row[d].t > seen[d][None] /\ (row[d].gone \/ d \in pkg)

PushApp(d) ==
    /\ syn[d] = "idle" /\ pend[d] = Empty
    /\ syn' = [syn EXCEPT ![d] = "bkp"]
    /\ IF Ships(d)
       THEN /\ remote' = [remote EXCEPT ![None] = [obj |-> row[d], by |-> d]]
            /\ seen' = [seen EXCEPT ![d][None] = row[d].t]
            /\ clash' = clash \cup
                 IF remote[None].obj.t >= row[d].t THEN {"hidden"} ELSE {}
       ELSE UNCHANGED <<remote, seen, clash>>
    /\ UNCHANGED <<now, app, cmd, pend, writes, dropped, moving, deaths>>

\* push_backups: the own backup only.
PushBackups(d) ==
    /\ syn[d] = "bkp"
    /\ syn' = [syn EXCEPT ![d] = "idle"]
    /\ IF held[d][d].t > seen[d][d]
       THEN /\ remote' = [remote EXCEPT ![d] = [obj |-> held[d][d], by |-> d]]
            /\ seen' = [seen EXCEPT ![d][d] = held[d][d].t]
       ELSE UNCHANGED <<remote, seen>>
    /\ UNCHANGED <<now, app, cmd, pend, history, deaths>>

\* The push of the app was stored and the next one fails, or the process dies;
\* a pull is cut off.
SyncFails(d) ==
    /\ (syn[d] = "bkp" \/ pend[d] # Empty)
    /\ deaths < MaxDeaths
    /\ deaths' = deaths + 1
    /\ syn' = [syn EXCEPT ![d] = "idle"]
    /\ pend' = [pend EXCEPT ![d] = Empty]
    /\ UNCHANGED <<now, app, cmd, seen, remote, history>>

Newer(d) == {k \in Keys : remote[k].by # d /\ remote[k].obj.t > seen[d][k]}

\* pull: what is newer than the mirror is fetched, ...
Pull(d) ==
    /\ syn[d] = "idle" /\ pend[d] = Empty /\ Newer(d) # {}
    /\ pend' = [pend EXCEPT ![d] =
                  [k \in Keys |-> IF k \in Newer(d) THEN remote[k].obj ELSE @[k]]]
    /\ UNCHANGED <<now, app, cmd, syn, seen, remote, history, deaths>>

Applied(d, k) ==
    /\ pend' = [pend EXCEPT ![d][k] = Empty[k]]
    /\ seen' = [seen EXCEPT ![d][k] = pend[d][k].t]

\* An object replaces a newer row, or one of which a newer version was applied.
Undone(d, obj) ==
    IF row[d].t > obj.t \/ seen[d][None] > obj.t THEN {"undone"} ELSE {}

\* An older placement arrives after the backup of a migration to this device:
\* the data that the backup brought is parked.
Ahead(d, obj) ==
    IF /\ obj.home \notin {None, d} /\ live[d] # {}
       /\ \E w \in Devices : held[d][w].to = d
    THEN {"ahead"} ELSE {}

\* The tombstone carries no placement: the row keeps the one it had, which may
\* be older, and gets the tombstone's time.
Forgot(d, obj) ==
    IF row[d].home \notin {None, obj.home} THEN {"forgot"} ELSE {}

\* Sensitivity variant of ApplyApp: an existing row keeps its placement.
ApplyAppThere(d) ==
    LET obj == pend[d][None]
        home == IF row[d] = NoRow THEN obj.home ELSE row[d].home
    IN  /\ obj # NoRow /\ ~obj.gone
        /\ Applied(d, None)
        /\ Place(d)
        /\ row' = [row EXCEPT ![d] = Row(home, obj.t, FALSE)]
        /\ IF home \notin {None, d} THEN Deactivate(d) ELSE UNCHANGED <<live, parked>>
        /\ clash' = clash \cup Undone(d, obj)
        /\ UNCHANGED <<now, held, cmd, syn, remote, writes, dropped, moving,
                       deaths>>

\* ... and applied by rank and time.  apply_app: whatever the local row is, ...
ApplyApp(d) ==
    LET obj == pend[d][None]
        away == obj.home \notin {None, d}
    IN  /\ obj # NoRow /\ ~obj.gone
        /\ Applied(d, None)
        /\ Place(d)
        /\ row' = [row EXCEPT ![d] = obj]
        /\ IF away THEN Deactivate(d) ELSE UNCHANGED <<live, parked>>
        /\ clash' = clash \cup Undone(d, obj) \cup Ahead(d, obj)
        /\ UNCHANGED <<now, held, cmd, syn, remote, writes, dropped, moving,
                       deaths>>

\* ... and so apply_app_tombstone: the directory goes, data and all.
ApplyAppTombstone(d) ==
    LET obj == pend[d][None]
    IN  /\ obj # NoRow /\ obj.gone
        /\ Applied(d, None)
        /\ row' = IF row[d] = NoRow THEN row
                  ELSE [row EXCEPT ![d] = Row(row[d].home, obj.t, TRUE)]
        /\ pkg' = pkg \ {d} /\ Follow(d, "gone")
        /\ live' = [live EXCEPT ![d] = {}]
        /\ dropped' = dropped \cup live[d]
        /\ clash' = clash \cup Undone(d, obj) \cup Forgot(d, obj)
        /\ UNCHANGED <<now, parked, held, cmd, syn, remote, writes, moving,
                       deaths>>

\* The next backup to apply.
Due(d, w) ==
    /\ pend[d][None] = NoRow /\ pend[d][w] # NoPak
    /\ \A x \in Devices : pend[d][x] # NoPak => pend[d][w].t <= pend[d][x].t

\* backup::apply: it is stored.
ApplyBackup(d, w) ==
    /\ Due(d, w) /\ pend[d][w].to # d
    /\ Applied(d, w)
    /\ held' = [held EXCEPT ![d][w] =
                  IF pend[d][w].gone
                  THEN Pak(@.t, {}, @.home, @.to, TRUE)
                  ELSE pend[d][w]]
    /\ UNCHANGED <<now, row, pkg, live, parked, running, cmd, syn, remote, history,
                   deaths>>

\* Sensitivity variant of MigrateIn: the restore asks for the placement first.
MigrateInHome(d, w) ==
    /\ Due(d, w) /\ pend[d][w].to = d
    /\ Applied(d, w)
    /\ held' = [held EXCEPT ![d][w] = pend[d][w]]
    /\ IF Elsewhere(d)
       THEN UNCHANGED <<row, pkg, live, running, dropped, moving, clash>>
       ELSE /\ RestoreFrom(d, pend[d][w])
            /\ moving' = [moving EXCEPT ![d] = IF @ <= pend[d][w].t THEN 0 ELSE @]
            /\ clash' = clash \cup Sunk(d, pend[d][w]) \cup Reborn(d, pend[d][w])
    /\ UNCHANGED <<now, parked, cmd, syn, remote, writes, deaths>>

\* One flagged for this device is restored as well, wherever the app's home is.
MigrateIn(d, w) ==
    /\ Due(d, w) /\ pend[d][w].to = d
    /\ Applied(d, w)
    /\ held' = [held EXCEPT ![d][w] = pend[d][w]]
    /\ RestoreFrom(d, pend[d][w])
    /\ moving' = [moving EXCEPT ![d] = IF @ <= pend[d][w].t THEN 0 ELSE @]
    /\ clash' = clash \cup Sunk(d, pend[d][w]) \cup Reborn(d, pend[d][w])
    /\ UNCHANGED <<now, parked, cmd, syn, remote, writes, deaths>>

Apply(d) ==
    \/ ApplyApp(d) \/ ApplyAppTombstone(d)
    \/ \E w \in Devices : ApplyBackup(d, w) \/ MigrateIn(d, w)

Sync(d) == PushApp(d) \/ PushBackups(d) \/ Pull(d) \/ Apply(d)

Next == \E d \in Devices :
    Command(d) \/ Carry(d) \/ RunStart(d) \/ RunEnd(d) \/ Sync(d) \/ SyncFails(d)

Spec == Init /\ [][Next]_vars

-----------------------------------------------------------------------------
Data == SUBSET (1 .. MaxRuns)
Clashes == {"unplaced", "rescue", "stale", "early", "deleted", "undone", "hidden", "sunk",
            "late", "ahead", "forgot"}
Rows == [home : Keys, t : Nat, gone : BOOLEAN]
Paks == [t : Nat, data : Data, home : Keys, to : Keys, gone : BOOLEAN]

TypeOK ==
    /\ now \in 1 .. MaxTime
    /\ row \in [Devices -> Rows] /\ pkg \subseteq Devices
    /\ live \in [Devices -> Data] /\ parked \in [Devices -> Data]
    /\ \A d, w \in Devices : held[d][w] \in Paks /\ pend[d][w] \in Paks
    /\ \A d \in Devices : pend[d][None] \in Rows
    /\ \A d \in Devices : running[d] = "live" => d \in pkg
    /\ \A d \in Devices : \A k \in Keys : seen[d][k] <= now
    /\ writes <= MaxRuns /\ dropped \subseteq 1 .. writes
    /\ (\A d \in Devices : moving[d] <= now) /\ clash \subseteq Clashes

\* "Exactly one live instance per placed app" (ADR 0019): two devices take the
\* app for theirs only after a rescue, an edit of a device that did not have the
\* newest row, a push or a pull that put an older row back, or a removal with a
\* device that had missed a migration or the app, however the migrations, backups
\* and syncs interleave and break off.
OneInstance ==
    clash \subseteq {"early", "deleted", "sunk", "late", "ahead"}
    => \A d, e \in Devices : Home(d) /\ Home(e) => d = e

\* Where the app lives it has all the data that its runs wrote on any device,
\* but for what a restore, a removal or a new package took from under a run,
\* once the migration's backup is there, unless that backup came ahead of an
\* older placement.
HomeHasData ==
    clash = {} => \A d \in Devices :
        Home(d) /\ moving[d] = 0 /\ ~row[d].gone
        => (1 .. writes) \ dropped \subseteq live[d]

\* "a device that misses an app/ update heals on the next pull": when there is
\* nothing left to push or pull, the devices agree on the home, forks of a
\* rescue included, unless a push put an older object back or none ships the newest row.
Quiet == \A d \in Devices :
    /\ syn[d] = "idle" /\ pend[d] = Empty /\ Newer(d) = {}
    /\ ~Ships(d) /\ held[d][d].t <= seen[d][d]

Agree == \A d, e \in Devices :
    row[d] # NoRow /\ ~row[e].gone => ~row[d].gone /\ row[d].home = row[e].home

Heals == Quiet /\ clash \cap {"hidden", "sunk"} = {} => Agree

\* "The claim propagates via the `app/' object on next push; if the old device
\* returns, its pull parks its stale data/, bounding the fork window"
\* (backup.rs): after a rescue by a device that has the newest row and backup,
\* and nothing else than rescues going wrong, the devices agree on the home.
\* It does not hold: the restore that follows the claim gives the row the time
\* of the backup, and push_apps ships it only when that is newer than the mirror.
RescueSpreads == Quiet /\ clash \subseteq {"rescue", "sunk"} => Agree

\* A migration arrives, whatever breaks off, while the order of the edits is kept:
\* when there is nothing left to exchange, its target has restored the backup,
\* unless it was deleted, or made again by a source that had got the app back
\* before the backup arrived.
Arrives ==
    Quiet /\ clash \subseteq {"late", "ahead"}
    => \A d \in Devices : moving[d] = 0

\* When there is nothing left to push or pull, the devices agree on the home and
\* every migration has arrived.
Settled == TypeOK /\ Heals /\ Arrives
=============================================================================
