----------------------------- MODULE SyncTarget -----------------------------
(***************************************************************************)
(* Where a device syncs to: the request of the application (pai_sync_now)  *)
(* and the timer (spawn_sync_scheduler) both take what they are not told   *)
(* from the saved target, a few rows of the meta table, and save what they *)
(* used (run_sync).  They are threads of their own; looking for a paired   *)
(* peer on the local network takes seconds.                                *)
(***************************************************************************)
EXTENDS Naturals, FiniteSets

CONSTANTS
    Folder,       \* shared folders
    Url,          \* relays one can name
    Local,        \* those at loopback or private addresses
    MaxCalls      \* bound: requests of the application

VARIABLES
    saved,        \* the meta rows sync.lan, dir, relay, allow_remote
    auto,         \* sync.auto_minutes is set
    due,          \* sync.last_auto is that long ago
    job,          \* job[t]: what the application and the timer are doing
    calls,
    consented,    \* history: relays named or saved when allow_remote was given
    used          \* history: where objects went

vars == <<saved, auto, due, job, calls, consented, used>>

None == "none"
Thread == {"app", "timer"}
Args(lan, dir, relay, allow) == [lan |-> lan, dir |-> dir, relay |-> relay, allow |-> allow]
NoArgs == Args(FALSE, None, None, FALSE)
Job(pc, args, to) == [pc |-> pc, args |-> args, to |-> to]
Idle == Job("idle", NoArgs, NoArgs)

Init ==
    /\ saved = NoArgs
    /\ auto = FALSE /\ due = FALSE
    /\ job = [t \in Thread |-> Idle]
    /\ calls = 0 /\ consented = {} /\ used = {}

Or(given, else) == IF given # None THEN given ELSE else

\* An argument, or else what is saved; `lan' once saved stays.
Resolved(args) ==
    Args(args.lan \/ saved.lan, Or(args.dir, saved.dir), Or(args.relay, saved.relay),
         args.allow)

\* pai_sync_now: its arguments, and the schedule.
Ask ==
    /\ job["app"].pc = "idle" /\ calls < MaxCalls
    /\ calls' = calls + 1
    /\ \E lan, allow \in BOOLEAN, dir \in Folder \cup {None}, relay \in Url \cup {None} :
          job' = [job EXCEPT !["app"] = Job("asked", Args(lan, dir, relay, allow), NoArgs)]
    /\ auto' \in {auto, TRUE, FALSE}
    /\ UNCHANGED <<saved, due, consented, used>>

\* Time passes.
Due ==
    /\ ~due /\ due' = TRUE
    /\ UNCHANGED <<saved, auto, job, calls, consented, used>>

\* spawn_sync_scheduler stamps last_auto before the attempt.
Timer ==
    /\ job["timer"].pc = "idle" /\ auto /\ due
    /\ due' = FALSE
    /\ job' = [job EXCEPT !["timer"] = Job("asked", NoArgs, NoArgs)]
    /\ UNCHANGED <<saved, auto, calls, consented, used>>

Resolve(t) ==
    /\ job[t].pc = "asked"
    /\ job' = [job EXCEPT ![t] = Job("gate", @.args, Resolved(@.args))]
    /\ consented' = IF job[t].args.allow
                    THEN consented \cup ({Resolved(job[t].args).relay} \ {None})
                    ELSE consented
    /\ UNCHANGED <<saved, auto, due, calls, used>>

\* Sensitivity variant of Allowed: the saved consent is for any relay.
AllowedOnce(args, relay) == relay \in Local \cup {None} \/ args.allow \/ saved.allow

\* require_local_or_flag: consent was given with this request, or is saved and
\* this request names no relay.
Allowed(args, relay) ==
    relay \in Local \cup {None} \/ args.allow \/ (saved.allow /\ args.relay = None)

Gate(t) ==
    /\ job[t].pc = "gate"
    /\ job' = [job EXCEPT ![t] = IF Allowed(@.args, @.to.relay)
                                 THEN Job("target", @.args, @.to) ELSE Idle]
    /\ UNCHANGED <<saved, auto, due, calls, consented, used>>

\* The local network before a folder before a relay; nobody may answer, the folder
\* may be unusable, or there is no target at all.
Target(t) ==
    /\ job[t].pc = "target"
    /\ LET to == job[t].to IN
       \/ /\ to.lan \/ to.dir # None \/ to.relay # None
          /\ job' = [job EXCEPT ![t] = Job("save", @.args, @.to)]
       \/ /\ to.lan \/ to.dir # None \/ to.relay = None
          /\ job' = [job EXCEPT ![t] = Idle]
    /\ UNCHANGED <<saved, auto, due, calls, consented, used>>

\* The choice is saved, a row of the meta table after the other.
Save(t) ==
    /\ job[t].pc = "save"
    /\ LET to == job[t].to IN
       saved' = Args(to.lan, Or(to.dir, saved.dir), Or(to.relay, saved.relay),
                     saved.allow \/ (to.allow /\ to.relay # None))
    /\ job' = [job EXCEPT ![t] = Job("run", @.args, @.to)]
    /\ UNCHANGED <<auto, due, calls, consented, used>>

\* The engine runs on it, unless there is no vault key yet.
Chosen(to) == IF to.lan THEN "lan" ELSE IF to.dir # None THEN to.dir ELSE to.relay
Run(t) ==
    /\ job[t].pc = "run"
    /\ used' \in {used, used \cup {Chosen(job[t].to)}}
    /\ job' = [job EXCEPT ![t] = Idle]
    /\ UNCHANGED <<saved, auto, due, calls, consented>>

Next ==
    \/ Ask \/ Due \/ Timer
    \/ \E t \in Thread : Resolve(t) \/ Gate(t) \/ Target(t) \/ Save(t) \/ Run(t)

Spec == Init /\ [][Next]_vars
-----------------------------------------------------------------------------
Choice == [lan : BOOLEAN, dir : Folder \cup {None}, relay : Url \cup {None},
           allow : BOOLEAN]
TypeOK ==
    /\ saved \in Choice
    /\ job \in [Thread -> [pc : {"idle", "asked", "gate", "target", "save", "run"},
                           args : Choice, to : Choice]]
    /\ consented \subseteq Url /\ used \subseteq Url \cup Folder \cup {None, "lan"}

\* Its names are those of different things.
Apart == Url \cap (Folder \cup {None, "lan"}) = {}

\* "a public URL needs an explicit opt-in": whatever the timer and the requests
\* read of each other's rows, nothing goes to a public relay for which consent
\* was never given.
PublicByConsent == used \cap Url \subseteq Local \cup consented
=============================================================================
