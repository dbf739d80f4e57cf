------------------------------ MODULE MCAppHome ------------------------------
(***************************************************************************)
(* A small instance of AppHome for TLC: every command on a short history   *)
(* with a run or a death, or a longer one of migrations (there and back),  *)
(* chosen at the start.                                                    *)
(***************************************************************************)
EXTENDS AppHome, TLC

CONSTANTS
    a, b,
    ShortTime   \* bound: stamped writes when every command is tried

VARIABLE world
Sym == Permutations(Devices)

Migration == \E d \in Devices :
    \/ Migrate(d) \/ Hand(d) \/ Park(d) \/ Dies(d)
    \/ RunStart(d) \/ RunEnd(d) \/ Sync(d)

MCInit ==
    /\ Init
    /\ world \in {"any", "moves"}
    /\ world = "moves" => pkg = Devices /\ clash = {}
MCNext ==
    /\ world' = world
    /\ IF world = "moves" THEN Migration
       ELSE Next /\ now' <= ShortTime /\ writes' + deaths' <= 1
MCSpec == MCInit /\ [][MCNext]_<<vars, world>>

\* Backups, upgrades and rescues only.
RescueNext ==
    /\ world' = world
    /\ \E d \in Devices :
         Backup(d) \/ Deploy(d) \/ Rescue(d) \/ (Restore(d) /\ ~Idle(d)) \/ Sync(d)
RescueSpec == MCInit /\ world = "moves" /\ [][RescueNext]_<<vars, world>>
=============================================================================
