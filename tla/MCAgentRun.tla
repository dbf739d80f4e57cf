----------------------------- MODULE MCAgentRun -----------------------------
(* Small instances of AgentRun, HostChat and MemoryScopes for TLC (`focus'). *)
(*                                                                          *)
(* A run: a tool with one permission and a tool with two; the desktop       *)
(* application, whose agent may use one of them, and a command line that    *)
(* may use both.  The application is alone with its run, and the policy is  *)
(* edited, or both processes drive the run, the command line resuming what  *)
(* the application began, and writes of the row get lost.                   *)
(*                                                                          *)
(* A host: three requests of any kind, which come in the order of their     *)
(* numbers, and two slots.                                                  *)
(*                                                                          *)
(* A memory: it may be written by a run in the conversation of one device,  *)
(* and runs outside of it happen on another.                                *)
EXTENDS AgentHost, TLC

CONSTANTS read, shell, files, exec, gui, cli, a, b, m1

VARIABLE focus

all == <<focus, alone, vars, hvars, mvars>>

BothPermissions == (read :> {files}) @@ (shell :> {files, exec})
ReadToGui == (gui :> {read}) @@ (cli :> {})
TwoPlans == {<<>>, <<read>>, <<read, shell>>}

RunNext ==
    /\ Next
    /\ IF alone
       THEN pc'[cli] = "idle" /\ lost' = 0
       ELSE /\ edits' = 0 /\ resumes' <= 1
            /\ ~cancelled'[cli] /\ pc'[cli] # "compose"
            /\ \A p \in Procs : /\ call'[p] # shell /\ mode'[p] # "direct"
                                /\ pc'[p] # "retry"

HostNext ==
    /\ H!Next
    /\ \A r \in 2 .. 3 : hpc'[r] # "new" => hpc'[r - 1] # "new"

MemoryNext ==
    /\ S!Next
    /\ run'[a].pc = "idle" \/ run'[a].place = "inside"
    /\ run'[b].place = "outside" /\ run'[b].pc \notin {"put", "cut"}
    /\ touches' + modes' + crashes' > touches + modes + crashes =>
          clock' + touches' + modes' + crashes' <= 4 /\ conv'[b] = conv[b]

MCInit ==
    /\ Init /\ H!Init /\ S!Init
    /\ alone \in BOOLEAN /\ focus \in {"run", "host", "memory"}
    /\ ~alone => policy = Unread
    /\ focus # "host" => native /\ ids = 1 /\ active = 1
    /\ focus # "run" => ~alone
OnRun == focus = "run" /\ UNCHANGED <<focus, alone, hvars, mvars>>
OnHost == focus = "host" /\ UNCHANGED <<focus, alone, vars, mvars>>
OnMemory == focus = "memory" /\ UNCHANGED <<focus, alone, vars, hvars>>
MCNext ==
    \/ OnRun /\ RunNext
    \/ OnHost /\ HostNext
    \/ OnMemory /\ MemoryNext
MCFairness ==
    /\ \A p \in Procs : WF_all(OnRun /\ Drive(p))
    /\ \A r \in 1 .. 3 : WF_all(OnHost /\ H!Proceed(r))
MCSpec == MCInit /\ [][MCNext]_all /\ MCFairness

\* Every run of a process and every request of a client comes to its end.
EverythingEnds ==
    /\ \A p \in Procs : []<>(focus = "run" => pc[p] = "idle")
    /\ []<>(focus = "host" => H!AllAnswered)

\* The native application alone.
NativeSpec ==
    /\ MCInit /\ focus = "host" /\ native = TRUE
    /\ [][OnHost /\ HostNext]_all
AnswerCounts == H!AnswerCounts
=============================================================================
