---------------------------- MODULE MCWorkflowRun ----------------------------
(* Small instances of WorkflowRun and CrdtDocs for TLC (`focus').              *)
(*                                                                             *)
(* Workflows: a two-step definition, the same with a step put in front, and    *)
(* two that validate refuses; two processes and one run.                       *)
(*                                                                             *)
(* Documents of apps: two devices, numbered like their ids, and one field.     *)
EXTENDS WorkflowRun, CrdtDocs, TLC

CONSTANTS short, long, forward, foreign, p1, p2, r1, t1, f, x, y

VARIABLE focus

all == <<focus, vars, docs>>

Prompt(id, refs) == [id |-> id, refs |-> refs, tool |-> {}]
ToolStep(id, refs) == [id |-> id, refs |-> refs, tool |-> {t1}]

StepsOf ==
    (short :> <<Prompt("x", {}), ToolStep("y", {"x"})>>) @@
    (long :> <<Prompt("w", {}), Prompt("x", {"w"}), ToolStep("y", {"x"})>>) @@
    (forward :> <<Prompt("x", {"y"}), Prompt("y", {})>>) @@
    (foreign :> <<ToolStep("x", {})>>)

ToolsOf == (short :> {t1}) @@ (long :> {t1}) @@ (forward :> {}) @@ (foreign :> {})

StepIds == {"w", "x", "y"}

World(calm, kinds, formats, advance, e, a) ==
    [calm |-> calm, kinds |-> kinds, formats |-> formats, advance |-> advance,
     edits |-> e, aborts |-> a]

\* Apps that write while no sync runs; apps that write at any time, with a
\* sync that dies; apps whose writes may be as the merge would write them, at
\* equal instants.
CalmAndNot ==
    {World(TRUE, {"set"}, {FALSE}, {1}, 3, 0),
     World(FALSE, {"set", "unset", "tomb", "delete"}, {FALSE}, {1}, 2, 1),
     World(FALSE, {"set", "tomb"}, BOOLEAN, {0, 1}, 2, 0)}

Two == {1, 2}

-----------------------------------------------------------------------------
OnWorkflows == focus = "workflows" /\ UNCHANGED <<focus, docs>>
OnDocs == focus = "documents" /\ UNCHANGED <<focus, vars>>

\* Values are only compared with each other: the first one written is x.
FirstIsX == writes' = 1 => \A d \in Two : file'[d].map[f].v # y

MCInit ==
    /\ Init /\ DocsInit
    /\ focus \in {"workflows", "documents"}
    /\ focus = "workflows" => /\ world = World(TRUE, {"set"}, {FALSE}, {1}, 3, 0)
                              /\ \A d \in Two : installed[d]
    /\ focus = "documents" => /\ wf = {short}
                              /\ \A p \in Proc : drv[p].def = short
MCNext ==
    \/ OnWorkflows /\ Next
    \/ OnDocs /\ DocsNext /\ FirstIsX
\* Only in the calm world are documents expected to settle.
MCFairness ==
    /\ \A p \in Proc : WF_all(OnWorkflows /\ Drive(p))
    /\ \A r \in Run : WF_all(OnWorkflows /\ \E p \in Proc : Resume(p, r))
    /\ \A d \in Two : /\ WF_all(Calm /\ OnDocs /\ SyncStep(d))
                         /\ WF_all(Calm /\ OnDocs /\ Install(d))
MCSpec == MCInit /\ [][MCNext]_all /\ MCFairness

\* What the devices have of one app's document fits together: every mirror entry
\* stands for the field set its writer published with it and, once nothing is
\* left to exchange, all show the document the apps wrote.
DocumentsAgree ==
    DocsTypeOK /\ MirrorMeansCells /\ Agreement /\ LastEditShown

\* Every run that is started ends, or waits for a definition that can be run;
\* and once the apps stop writing, the syncs have nothing left to do: merged
\* fields that are re-published do not set each other off for ever.
EverythingSettles ==
    <>[](CASE focus = "workflows" ->
                \A r \in Run : row[r].status = "running" => ~Runnable
           [] focus = "documents" -> Calm => \A d \in Two : QuietAt(d))
===========================================================================
