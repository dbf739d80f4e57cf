---------------------------- MODULE MCTaskClaims ----------------------------
(* Small instances of TaskClaims and ModelHost (`focus').                    *)
(*                                                                           *)
(* recurring: a recurring task and a tick on each of two devices, its owner  *)
(*   at work.                                                                *)
(* once: a task that is due once, with two ticks on one device, one of which *)
(*   may die, where ticks and syncs are fair.                                *)
(* files: two models, a drive that is plugged and unplugged, installs of one *)
(*   of them, scans and a host that dies.                                    *)
(* servers: two installed models, three servers, a host that dies.           *)
EXTENDS TaskHost, TLC

CONSTANTS a, b, p1, p2, p3

VARIABLE focus

all == <<focus, vars, models>>

Devices == (p1 :> a) @@ (p2 :> b) @@ (p3 :> a)

Once == INSTANCE TaskClaims WITH
    Lease <- 10, Every <- 0, MaxTime <- 90, MaxUser <- 0

OnTasks(f) == focus = f /\ UNCHANGED <<focus, models>>
OnModels == focus \in {"files", "servers"} /\ UNCHANGED <<focus, vars>>

MCInit ==
    /\ Init /\ M!Init
    /\ focus \in {"recurring", "once", "files", "servers"}
    /\ table[2] = 2 => table[1] = 2    \* the models' numbers make no difference here
    /\ focus # "files" => /\ mounted = {} /\ \A s \in Slug : table[s] = 2
                          /\ \A d \in Drive, s \in Slug : file[d][s] = "none"
MCNext ==
    \/ OnTasks("recurring") /\ Next /\ run'[p3] = Idle
    \/ OnTasks("once") /\ Once!Next /\ row'[b] = NoRow /\ run'[p2] = Idle
    \/ /\ OnModels /\ M!Next
       /\ IF focus = "files" THEN started' = 0 /\ job'.s # 2
          ELSE UNCHANGED files /\ host' # "copy"

MCFairness ==
    /\ \A p \in {p1, p3} : /\ WF_all(OnTasks("once") /\ Once!Scan(p))
                           /\ WF_all(OnTasks("once") /\ Once!Work(p))
    /\ WF_all(OnTasks("once") /\ Once!Push(a))
    /\ WF_all(OnTasks("once") /\ Once!Pull(a))
    /\ WF_all(OnTasks("once") /\ Once!Pass)
    /\ WF_all(OnModels /\ M!HostStep)
    /\ WF_all(OnModels /\ M!Watch)

MCSpec == MCInit /\ [][MCNext]_all /\ MCFairness

\* TypeOK, with the constants of the choice.
TypesOK == IF focus = "once" THEN Once!TypeOK ELSE TypeOK

\* What ticks and syncs bring about, for a task that is due once; and the host's
\* watcher comes to know every pack that stays plugged in.
EverythingIsDone ==
    <>[](CASE focus = "once" -> \A p \in Proc : Settled(row[Dev[p]])
           [] focus \in {"files", "servers"} -> M!PacksSeen
           [] OTHER -> TRUE)
=============================================================================
