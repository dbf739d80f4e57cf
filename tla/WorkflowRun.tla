----------------------------- MODULE WorkflowRun -----------------------------
(***************************************************************************)
(* Runs of one workflow (crates/pai-workflows/src/lib.rs): the definition  *)
(* row, which the user edits and the sync engine may replace, the          *)
(* workflow_runs rows with their step cursor, and the processes that start *)
(* a run, resume it and drive it step by step.                             *)
(*                                                                         *)
(* A driver reads the definition and the run row once and then works from  *)
(* memory.  A step's effect and the save of the cursor are two moments; the*)
(* process may die between them.  Nothing stops a second process from      *)
(* resuming a run that is being driven: both are 'running'.                *)
(***************************************************************************)
EXTENDS Integers, Sequences

CONSTANTS
    Proc,
    Run,          \* run ids
    Definition,   \* definitions the workflow row may hold
    Steps,        \* Steps[def]: its steps, [id, refs, tool], tool = {} for a prompt
    Tools,        \* Tools[def]: its tool allowlist
    StepId,
    Tool,
    MaxEdits,     \* bound: changes of the definition row
    MaxCrashes    \* bound: processes that die

StepType == [id: StepId, refs: SUBSET StepId, tool: SUBSET Tool]

ASSUME WorkflowAssumption ==
    /\ Steps \in [Definition -> Seq(StepType)]
    /\ Tools \in [Definition -> SUBSET Tool]
    /\ MaxEdits \in Nat
    /\ MaxCrashes \in Nat

VARIABLES
    wf,       \* the workflow's row: its definition, or empty when removed
    edits,    \* changes of the definition so far
    crashes,  \* deaths so far
    row,      \* row[r]: status, step_index and the ids with an output
    drv,      \* drv[p]: what p drives, and its copy of the cursor and outputs
    took,     \* took[r]: the steps of run r that took effect
    again,    \* again[r]: how often one of them took effect that had before
    joined    \* history: runs that a second process resumed while one drove them

vars == <<wf, edits, crashes, row, drv, took, again, joined>>

Status == {"none", "running", "done", "failed"}

RunRow(status, cursor, outs) == [status |-> status, cursor |-> cursor, outs |-> outs]

\* pc: idle; ready (to take the next step or to end); acted (effect, not yet saved).
Driver(pc, run, def, i, outs) ==
    [pc |-> pc, run |-> run, def |-> def, i |-> i, outs |-> outs]

NSteps(def) == Len(Steps[def])

IdsUpTo(def, n) == {Steps[def][k].id : k \in 1 .. n}

\* validate: a step, ids without duplicates, tools from the allowlist, references
\* to the definition's own steps only backwards.
Valid(def) ==
    LET n == NSteps(def)
        step(k) == Steps[def][k]
    IN  /\ n > 0
        /\ \A j, k \in 1 .. n : j # k => step(j).id # step(k).id
        /\ \A k \in 1 .. n : step(k).tool \subseteq Tools[def]
        /\ \A j, k \in 1 .. n : step(j).id \in step(k).refs => j < k

-----------------------------------------------------------------------------
\* create_workflow has stored a checked definition; an idle driver's copies mean nothing.
Init ==
    /\ \E def \in Definition : Valid(def) /\ wf = {def}
    /\ edits = 0
    /\ crashes = 0
    /\ row = [r \in Run |-> RunRow("none", 0, {})]
    /\ \E r \in Run, def \in Definition :
         drv = [p \in Proc |-> Driver("idle", r, def, 0, {})]
    /\ took = [r \in Run |-> {}]
    /\ again = [r \in Run |-> 0]
    /\ joined = {}

(* The definition row *)

Edit(next) ==
    /\ edits < MaxEdits
    /\ edits' = edits + 1
    /\ wf' = next
    /\ UNCHANGED <<crashes, row, drv, took, again, joined>>

\* update_workflow: checked before it is stored; a removed row is left alone.
UpdateWorkflow(def) ==
    /\ wf # {}
    /\ Valid(def)
    /\ Edit({def})

\* apply_workflow stores what a peer pushed, as it is.
SyncIn(def) == Edit({def})

RemoveWorkflow ==
    /\ wf # {}
    /\ Edit({})

-----------------------------------------------------------------------------
(* WorkflowRunner::run and resume *)

\* run: the row is inserted, then drive checks the definition; when that fails the
\* row stays 'running'.
Start(p, r) ==
    /\ drv[p].pc = "idle"
    /\ row[r].status = "none"
    /\ row' = [row EXCEPT ![r] = RunRow("running", 0, {})]
    /\ \E def \in wf :
         drv' = [drv EXCEPT ![p] =
                   Driver(IF Valid(def) THEN "ready" ELSE "idle", r, def, 0, {})]
    /\ UNCHANGED <<wf, edits, crashes, took, again, joined>>

Driven(r, p) == \E q \in Proc \ {p} : drv[q].pc # "idle" /\ drv[q].run = r

Join(p, r) == joined' = IF Driven(r, p) THEN joined \cup {r} ELSE joined

\* Sensitivity variant of Resume: the definition is not checked again.
ResumeUnchecked(p, r) ==
    /\ drv[p].pc = "idle"
    /\ row[r].status = "running"
    /\ \E def \in wf :
         drv' = [drv EXCEPT ![p] = Driver("ready", r, def, row[r].cursor, row[r].outs)]
    /\ Join(p, r)
    /\ UNCHANGED <<wf, edits, crashes, row, took, again>>

\* Sensitivity variant of Resume: a run with no saved step is not picked up.
ResumeStarted(p, r) ==
    /\ drv[p].pc = "idle"
    /\ row[r].status = "running"
    /\ row[r].cursor > 0
    /\ \E def \in wf :
         /\ Valid(def)
         /\ drv' = [drv EXCEPT ![p] =
                      Driver("ready", r, def, row[r].cursor, row[r].outs)]
    /\ Join(p, r)
    /\ UNCHANGED <<wf, edits, crashes, row, took, again>>

\* resume: only a running run, by the definition the row holds now.
Resume(p, r) ==
    /\ drv[p].pc = "idle"
    /\ row[r].status = "running"
    /\ \E def \in wf :
         /\ Valid(def)
         /\ drv' = [drv EXCEPT ![p] =
                      Driver("ready", r, def, row[r].cursor, row[r].outs)]
    /\ Join(p, r)
    /\ UNCHANGED <<wf, edits, crashes, row, took, again>>

-----------------------------------------------------------------------------
(* drive *)

\* The next step runs and its output joins the others, in memory.
Act(p) ==
    LET v == drv[p]
        s == Steps[v.def][v.i + 1].id
    IN  /\ v.pc = "ready"
        /\ v.i < NSteps(v.def)
        /\ drv' = [drv EXCEPT ![p] =
                     Driver("acted", v.run, v.def, v.i + 1, v.outs \cup {s})]
        /\ took' = [took EXCEPT ![v.run] = @ \cup {s}]
        /\ again' = [again EXCEPT ![v.run] = @ + (IF s \in took[v.run] THEN 1 ELSE 0)]
        /\ UNCHANGED <<wf, edits, crashes, row, joined>>

\* Sensitivity variant of Save: the outputs are stored, the cursor is not.
SaveOutputsOnly(p) ==
    LET v == drv[p]
    IN  /\ v.pc = "acted"
        /\ row' = [row EXCEPT ![v.run] =
                     RunRow(row[v.run].status, row[v.run].cursor, v.outs)]
        /\ drv' = [drv EXCEPT ![p] = Driver("ready", v.run, v.def, v.i, v.outs)]
        /\ UNCHANGED <<wf, edits, crashes, took, again, joined>>

\* Sensitivity variant of Save: only the cursor is stored.
SaveCursorOnly(p) ==
    LET v == drv[p]
    IN  /\ v.pc = "acted"
        /\ row' = [row EXCEPT ![v.run] =
                     RunRow(row[v.run].status, v.i, row[v.run].outs)]
        /\ drv' = [drv EXCEPT ![p] = Driver("ready", v.run, v.def, v.i, v.outs)]
        /\ UNCHANGED <<wf, edits, crashes, took, again, joined>>

\* save_progress: cursor and outputs together, whatever the row has become.
Save(p) ==
    LET v == drv[p]
    IN  /\ v.pc = "acted"
        /\ row' = [row EXCEPT ![v.run] = RunRow(row[v.run].status, v.i, v.outs)]
        /\ drv' = [drv EXCEPT ![p] = Driver("ready", v.run, v.def, v.i, v.outs)]
        /\ UNCHANGED <<wf, edits, crashes, took, again, joined>>

\* Sensitivity variant of Close: the step's error becomes the status.
CloseWithError(p, status) ==
    LET v == drv[p]
    IN  /\ row' = [row EXCEPT ![v.run] =
                     RunRow(IF status = "failed" THEN "error" ELSE status,
                            row[v.run].cursor, row[v.run].outs)]
        /\ drv' = [drv EXCEPT ![p] = Driver("idle", v.run, v.def, v.i, v.outs)]
        /\ UNCHANGED <<wf, edits, crashes, took, again, joined>>

\* finish_run
Close(p, status) ==
    LET v == drv[p]
    IN  /\ row' = [row EXCEPT ![v.run] =
                     RunRow(status, row[v.run].cursor, row[v.run].outs)]
        /\ drv' = [drv EXCEPT ![p] = Driver("idle", v.run, v.def, v.i, v.outs)]
        /\ UNCHANGED <<wf, edits, crashes, took, again, joined>>

\* The step fails: no answer, a denied or failing tool, a provider error.
Fail(p) ==
    /\ drv[p].pc = "ready"
    /\ drv[p].i < NSteps(drv[p].def)
    /\ Close(p, "failed")

\* Sensitivity variant of Finish: an off-by-one ends the run before its last step.
FinishEarly(p) ==
    /\ drv[p].pc = "ready"
    /\ drv[p].i + 1 >= NSteps(drv[p].def)
    /\ Close(p, "done")

\* Past the last step; a cursor beyond a shorter definition is past it too.
Finish(p) ==
    /\ drv[p].pc = "ready"
    /\ drv[p].i >= NSteps(drv[p].def)
    /\ Close(p, "done")

Crash(p) ==
    /\ drv[p].pc # "idle"
    /\ crashes < MaxCrashes
    /\ crashes' = crashes + 1
    /\ drv' = [drv EXCEPT ![p] =
                 Driver("idle", drv[p].run, drv[p].def, drv[p].i, drv[p].outs)]
    /\ UNCHANGED <<wf, edits, row, took, again, joined>>

-----------------------------------------------------------------------------
Drive(p) == Act(p) \/ Save(p) \/ Fail(p) \/ Finish(p)

Next ==
    \/ \E def \in Definition : UpdateWorkflow(def) \/ SyncIn(def)
    \/ RemoveWorkflow
    \/ \E p \in Proc, r \in Run : Start(p, r) \/ Resume(p, r)
    \/ \E p \in Proc : Drive(p) \/ Crash(p)

Spec == Init /\ [][Next]_vars

\* A driver that does not die goes on, and the user resumes what is left running.
FairSpec ==
    /\ Spec
    /\ \A p \in Proc : WF_vars(Drive(p))
    /\ \A r \in Run : WF_vars(\E p \in Proc : Resume(p, r))

-----------------------------------------------------------------------------
\* Types of the rows and of the drivers' copies.
TypeOK ==
    /\ wf \in SUBSET Definition
    /\ edits \in 0 .. MaxEdits
    /\ crashes \in 0 .. MaxCrashes
    /\ row \in [Run -> [status: Status, cursor: Nat, outs: SUBSET StepId]]
    /\ drv \in [Proc -> [pc: {"idle", "ready", "acted"}, run: Run, def: Definition,
                         i: Nat, outs: SUBSET StepId]]
    /\ took \in [Run -> SUBSET StepId]
    /\ again \in [Run -> Nat]
    /\ joined \in SUBSET Run

\* "a crash resumes *this* step, never skips it" (drive): when the one driver of a
\* run closes it as done, every step of its definition has left an output in the row.
DoneMeansAll ==
    [][\A p \in Proc :
         LET r == drv[p].run
         IN  (edits = 0 /\ r \notin joined /\ drv[p].pc = "ready" /\ drv'[p].pc = "idle"
                /\ row[r].status # "done" /\ row'[r].status = "done")
               => IdsUpTo(drv[p].def, NSteps(drv[p].def)) \subseteq row[r].outs]_vars

\* "resumes from the last completed step, not from scratch": with one driver at a
\* time, a crash makes at most one step of a run take effect once more.
RepeatsOnlyByCrash ==
    edits = 0 => \A r \in Run \ joined : again[r] <= crashes

\* "a forward ref would render literally, silently corrupting the step's input"
\* (validate): as long as the definition is not edited, when a step is about to run
\* every step that it references has an output, after any crash, with any number of
\* drivers.
RefsResolved ==
    edits = 0 =>
      \A p \in Proc :
        LET v == drv[p]
        IN  (v.pc = "ready" /\ v.i < NSteps(v.def))
              => Steps[v.def][v.i + 1].refs \cap IdsUpTo(v.def, NSteps(v.def)) \subseteq v.outs

\* "called on save AND on load-before-run": what a peer syncs in is driven only if it
\* is valid, whenever it arrives.
OnlyValidRuns == \A p \in Proc : drv[p].pc # "idle" => Valid(drv[p].def)

\* Every run that is started ends, or waits for a definition that can be run.
Ended(r) == row[r].status \in {"done", "failed"}

Runnable == \E def \in wf : Valid(def)

Ends == \A r \in Run : (row[r].status = "running") ~> (Ended(r) \/ ~Runnable)
=============================================================================
