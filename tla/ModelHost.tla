----------------------------- MODULE ModelHost -----------------------------
(***************************************************************************)
(* Local models and the llama-server that the host process runs one of     *)
(* them with: pai-models (install, packs on removable drives, scan,        *)
(* locate) and the part of pai-ffi that serves a model, points the chat at *)
(* it and watches the drives.                                              *)
(*                                                                         *)
(* Commands of the host run one after the other (its callers hold a lock); *)
(* the watcher is a thread of its own.  All servers are on the managed     *)
(* port.  A pack is known by its drive, which always appears at the same   *)
(* place.                                                                  *)
(***************************************************************************)
EXTENDS Naturals, FiniteSets

CONSTANTS
    Slug,        \* models whose digest is pinned, numbered from the smallest
    Drive,       \* removable drives with a pack
    Home,        \* the model directory on the device itself
    Unknown,     \* the row of a model that is not registered
    MaxProcs,    \* bound: servers started
    MaxCrashes,  \* bound: deaths of the host
    MaxMoves     \* bound: drives plugged or unplugged

VARIABLES
    \* the host
    host,        \* off, up, or busy with: auto, serve (waiting for a server), copy
    job,         \* its model, the place it goes to and the one it is copied from
    child,       \* PaiRuntime::llama_child
    badge,       \* PaiRuntime::serving_slug
    chat,        \* the model that chat asks for at the managed port
    saved,       \* provider.json
    \* the servers
    server,      \* server[i]: state and model of the i-th server
    started,     \* servers started so far
    crashes,
    \* the files
    file,        \* file[p][s]: the file of s at place p
    listed,      \* listed[p]: models in p's index.json
    row,         \* row[s]: models.path of s, or none, or not registered
    mounted,     \* drives that are plugged in
    last,        \* drives the watcher saw at its last look
    todo,        \* files that the watcher's scan has yet to look at
    moves

hostvars == <<host, job, child, badge, chat, saved>>
servers == <<server, started>>
files == <<file, listed, row>>
drives == <<mounted, moves>>
watcher == <<last, todo>>
vars == <<hostvars, servers, crashes, files, drives, watcher>>

None == 0
Place == Drive \cup {Home}
Procs == 1 .. MaxProcs
Live == {"loading", "up", "doomed"}
Server(st, s) == [st |-> st, s |-> s]
Job(s, to, from) == [s |-> s, to |-> to, from |-> from]

\* Some models have been installed; drives may hold a damaged file, and what is
\* on them is listed.
Init ==
    /\ host = "off" /\ job = Job(None, Home, None)
    /\ child = None /\ badge = None /\ chat = None /\ saved = None
    /\ server = [i \in Procs |-> Server("dead", None)] /\ started = 0 /\ crashes = 0
    /\ \E installed \in SUBSET Slug,
          g \in [Drive -> [Slug -> {"none", "good", "bad"}]] :
          /\ file = [p \in Place |->
                       IF p \in Drive THEN g[p]
                       ELSE [s \in Slug |-> IF s \in installed THEN "good" ELSE "none"]]
          /\ row = [s \in Slug |-> IF s \in installed THEN Home ELSE Unknown]
    /\ listed = [p \in Place |-> {s \in Slug : file[p][s] # "none"}]
    /\ mounted \in SUBSET Drive /\ last = {} /\ todo = {} /\ moves = 0

-----------------------------------------------------------------------------
(* Files *)

Reachable(p) == p = Home \/ p \in mounted
Exists(p, s) == Reachable(p) /\ file[p][s] # "none"
Recorded(s) == row[s] \in Place /\ Exists(row[s], s)

\* Sensitivity variant of Adoptable: whatever is there is taken.
AdoptableAnyway(p, s) == s \in listed[p] /\ Exists(p, s)

\* adopt: a file that fails verification is skipped.
Adoptable(p, s) == s \in listed[p] /\ Exists(p, s) /\ file[p][s] = "good"

\* scan: every pack is looked at in turn, and the last one that has the model
\* is recorded.  Drives are numbered in the order of their mount points.
ScannedRow ==
    [s \in Slug |->
        IF \E d \in mounted : Adoptable(d, s)
        THEN CHOOSE d \in mounted : /\ Adoptable(d, s)
                                    /\ \A e \in mounted : Adoptable(e, s) => e <= d
        ELSE row[s]]

\* locate: the recorded path while there is a file, else what a scan finds.
Locate(s) == IF Recorded(s) THEN row ELSE ScannedRow
Located(s) == LET r == Locate(s)[s] IN r \in Place /\ Exists(r, s)

Scan ==
    /\ row' = ScannedRow
    /\ UNCHANGED <<hostvars, servers, crashes, file, listed, drives, watcher>>

\* The command line registers a model before it installs it.
Registered(s) == [row EXCEPT ![s] = IF @ = Unknown THEN None ELSE @]

\* install_to: nothing to do, a copy of the file on disk, or a download.  The
\* bytes go to a .part file; a host that dies leaves that behind.
\* pai_models_install does not register the model.
Install(s, p) ==
    /\ host = "up" /\ Reachable(p)
    /\ ~(Recorded(s) /\ row[s] = p)
    /\ host' = "copy"
    /\ job' = Job(s, p, IF Recorded(s) THEN row[s] ELSE None)
    /\ row' \in {row, Registered(s)}
    /\ UNCHANGED <<child, badge, chat, saved, servers, crashes, file, listed, drives,
                   watcher>>

Copied == file[job.from][job.s]

\* Sensitivity variant of Placed: a copy is not verified.
PlacedAnyway ==
    /\ host = "copy" /\ Reachable(job.to)
    /\ job.from # None => Exists(job.from, job.s)
    /\ file' = [file EXCEPT ![job.to][job.s] = IF job.from # None THEN Copied ELSE "bad"]
    /\ host' = "record"
    /\ UNCHANGED <<job, child, badge, chat, saved, servers, crashes, listed, row,
                   drives, watcher>>

\* place, copy_to: verified, then renamed into place.
Placed ==
    /\ host = "copy" /\ Reachable(job.to)
    /\ job.from # None => Exists(job.from, job.s) /\ Copied = "good"
    /\ file' = [file EXCEPT ![job.to][job.s] = "good"]
    /\ host' = "record"
    /\ UNCHANGED <<job, child, badge, chat, saved, servers, crashes, listed, row,
                   drives, watcher>>

\* The download fails, does not verify, or the drive is gone.
InstallFails ==
    /\ host = "copy" \/ (host \in {"record", "index"} /\ ~Reachable(job.to))
    /\ host' = "up"
    /\ UNCHANGED <<job, child, badge, chat, saved, servers, crashes, files, drives,
                   watcher>>

\* mark_installed: a model that is not registered has no row to update.
Record ==
    /\ host = "record"
    /\ row' = [row EXCEPT ![job.s] = IF @ = Unknown THEN @ ELSE job.to]
    /\ host' = "index"
    /\ UNCHANGED <<job, child, badge, chat, saved, servers, crashes, file, listed,
                   drives, watcher>>

\* upsert_pack_index
Index ==
    /\ host = "index" /\ Reachable(job.to)
    /\ listed' = [listed EXCEPT ![job.to] = @ \cup {job.s}]
    /\ host' = "up"
    /\ UNCHANGED <<job, child, badge, chat, saved, servers, crashes, file, row,
                   drives, watcher>>

\* uninstall, by the command line: the recorded file, if it can be reached, and
\* its line in the index.
Uninstall(s) ==
    /\ row[s] \in Place
    /\ IF Reachable(row[s])
       THEN /\ file' = [file EXCEPT ![row[s]][s] = "none"]
            /\ listed' = [listed EXCEPT ![row[s]] = @ \ {s}]
       ELSE UNCHANGED <<file, listed>>
    /\ row' = [row EXCEPT ![s] = None]
    /\ UNCHANGED <<hostvars, servers, crashes, drives, watcher>>

-----------------------------------------------------------------------------
(* Drives *)

Plug(d) ==
    /\ moves < MaxMoves /\ moves' = moves + 1
    /\ mounted' = IF d \in mounted THEN mounted \ {d} ELSE mounted \cup {d}
    /\ UNCHANGED <<hostvars, servers, crashes, files, watcher>>

\* spawn_drive_watcher, every four seconds: when the set of packs has changed
\* everything is scanned.
Look ==
    /\ host # "off" /\ todo = {} /\ last # mounted
    /\ last' = mounted
    /\ todo' = {f \in mounted \X Slug : f[2] \in listed[f[1]]}
    /\ UNCHANGED <<hostvars, servers, crashes, files, drives>>

\* One file of its scan: hashed and, if it verifies, recorded.
Adopt ==
    /\ host # "off"
    /\ \E f \in todo :
          /\ todo' = todo \ {f}
          /\ row' = IF Adoptable(f[1], f[2]) THEN [row EXCEPT ![f[2]] = f[1]] ELSE row
    /\ UNCHANGED <<hostvars, servers, crashes, file, listed, drives, last>>

-----------------------------------------------------------------------------
(* Servers *)

LiveProcs == {i \in Procs : server[i].st \in Live}
Bound == \E i \in Procs : server[i].st \in {"loading", "up"}
Answers == {i \in Procs : server[i].st = "up"}
Spawned(sv, s) ==
    [sv EXCEPT ![started + 1] = Server(IF \E i \in Procs : sv[i].st \in {"loading", "up"}
                                       THEN "doomed" ELSE "loading", s)]
Killed(sv, i) == IF i = None THEN sv ELSE [sv EXCEPT ![i] = Server("dead", None)]

\* A server has loaded its model; or it exits: the port is taken, the model is
\* too large, the operating system ends it.
Load(i) ==
    /\ server[i].st = "loading"
    /\ server' = [server EXCEPT ![i] = Server("up", @.s)]
    /\ UNCHANGED <<hostvars, started, crashes, files, drives, watcher>>
Exits(i) ==
    /\ server[i].st \in Live
    /\ server' = Killed(server, i)
    /\ UNCHANGED <<hostvars, started, crashes, files, drives, watcher>>

\* init_runtime with the provider `auto': a server that was left at the managed
\* port is used, else one is started for the smallest model, else the chat is
\* restored from provider.json.
Smallest ==
    {s \in Slug : Recorded(s) /\ \A r \in Slug : Recorded(r) => s <= r}
StartHost ==
    /\ host = "off"
    /\ last' = mounted
    /\ badge' = None
    /\ IF Answers # {}
       THEN /\ host' = "up" /\ child' = None
            /\ chat' \in {server[i].s : i \in Answers}
            /\ UNCHANGED <<job, servers>>
       ELSE IF Smallest # {} /\ started < MaxProcs
       THEN \E s \in Smallest :
            /\ host' = "auto" /\ job' = Job(s, Home, None)
            /\ server' = Spawned(server, s) /\ started' = started + 1
            /\ UNCHANGED <<child, chat>>
       ELSE /\ host' = "up" /\ chat' = saved /\ UNCHANGED <<child, job, servers>>
    /\ UNCHANGED <<saved, crashes, files, drives, todo>>

\* spawn_llama_server returns in auto_serve: the child is kept unless it has
\* exited, whether it answers by then or not.
AutoReady ==
    /\ host = "auto" /\ host' = "up"
    /\ IF server[started].st = "dead"
       THEN chat' = saved /\ UNCHANGED child
       ELSE chat' = job.s /\ child' = started
    /\ UNCHANGED <<job, badge, saved, servers, crashes, files, drives, watcher>>

\* Sensitivity variant of Serve: the old server goes on.
ServeKeepOld(s) ==
    /\ host = "up" /\ Located(s) /\ started < MaxProcs
    /\ row' = Locate(s)
    /\ host' = "serve" /\ job' = Job(s, Home, None)
    /\ child' = None
    /\ server' = Spawned(server, s) /\ started' = started + 1
    /\ UNCHANGED <<badge, chat, saved, crashes, file, listed, drives, watcher>>

\* pai_models_serve: located, the child of before killed, a new one spawned.
Serve(s) ==
    /\ host = "up" /\ Located(s) /\ started < MaxProcs
    /\ row' = Locate(s)
    /\ host' = "serve" /\ job' = Job(s, Home, None)
    /\ child' = None
    /\ server' = Spawned(Killed(server, child), s) /\ started' = started + 1
    /\ UNCHANGED <<badge, chat, saved, crashes, file, listed, drives, watcher>>

\* A look a second: its own child first, then whether anything answers at the
\* port.  apply_provider stores the choice.
ServeReady ==
    /\ host = "serve" /\ server[started].st # "dead" /\ Answers # {}
    /\ host' = "up" /\ child' = started
    /\ badge' = job.s /\ chat' = job.s /\ saved' = job.s
    /\ UNCHANGED <<job, servers, crashes, files, drives, watcher>>

\* Sensitivity variant of ServeFails: the server that was too slow is left alone.
ServeFailsQuietly ==
    /\ host = "serve"
    /\ server[started].st = "dead" \/ Answers = {}
    /\ host' = "up"
    /\ UNCHANGED <<job, child, badge, chat, saved, servers, crashes, files, drives,
                   watcher>>

\* It exited, or did not come up in 45 seconds and is killed.
ServeFails ==
    /\ host = "serve"
    /\ server[started].st = "dead" \/ Answers = {}
    /\ host' = "up"
    /\ server' = Killed(server, started)
    /\ UNCHANGED <<job, child, badge, chat, saved, started, crashes, files, drives,
                   watcher>>

\* pai_free
Free ==
    /\ host = "up" /\ host' = "off"
    /\ server' = Killed(server, child) /\ child' = None
    /\ todo' = {}
    /\ UNCHANGED <<job, badge, chat, saved, started, crashes, files, drives, last>>

\* The host dies; the servers do not.
Crash ==
    /\ host # "off" /\ crashes < MaxCrashes
    /\ crashes' = crashes + 1
    /\ host' = "off" /\ child' = None /\ todo' = {}
    /\ UNCHANGED <<job, badge, chat, saved, servers, files, drives, last>>

-----------------------------------------------------------------------------
HostStep ==
    \/ Placed \/ InstallFails \/ Record \/ Index
    \/ AutoReady \/ ServeReady \/ ServeFails
Watch == Look \/ Adopt

Next ==
    \/ HostStep \/ Watch
    \/ StartHost \/ Scan \/ Free \/ Crash
    \/ \E s \in Slug : Serve(s) \/ Uninstall(s) \/ \E p \in Place : Install(s, p)
    \/ \E d \in Drive : Plug(d)
    \/ \E i \in Procs : Load(i) \/ Exits(i)

\* Threads go on: the command under way, the watcher.
Fairness == WF_vars(HostStep) /\ WF_vars(Watch)

Spec == Init /\ [][Next]_vars
-----------------------------------------------------------------------------
TypeOK ==
    /\ host \in {"off", "up", "auto", "serve", "copy", "record", "index"}
    /\ job \in [s : Slug \cup {None}, to : Place, from : Place \cup {None}]
    /\ child \in Procs \cup {None}
    /\ {badge, chat, saved} \subseteq Slug \cup {None}
    /\ server \in [Procs -> [st : Live \cup {"dead"}, s : Slug \cup {None}]]
    /\ row \in [Slug -> Place \cup {None, Unknown}]
    /\ todo \subseteq Drive \X Slug /\ last \subseteq Drive

\* "Files that fail verification are skipped, never adopted": whatever is
\* scanned, copied, removed and unplugged in between, and wherever the host
\* dies, the file that a model's row leads to is one that verifies.
InstalledVerifies == \A s \in Slug : Recorded(s) => file[row[s]][s] = "good"

\* Every server that lives is the host's child, or the one it is waiting for;
\* a host that was freed leaves none, as long as none died before.
NoStray ==
    crashes = 0 =>
        LiveProcs \subseteq {child} \cup (IF host \in {"auto", "serve"}
                                          THEN {started} ELSE {})

\* What answers at the managed port is the model that chat was told to ask for.
RightModelAnswers ==
    crashes = 0 /\ host = "up" => \A i \in Answers : chat = server[i].s

ModelsAreSound == TypeOK /\ InstalledVerifies /\ NoStray /\ RightModelAnswers

\* "freshly plugged drive counts": when drives stay where they are, the watcher
\* has seen them all, and every model on them that verifies has a row.
PacksSeen ==
    host # "off" => last = mounted /\ todo = {}
=============================================================================
