-------------------------- MODULE WorkflowRunProofs --------------------------
(***************************************************************************)
(* For any definitions, runs, processes and crashes: no invalid definition *)
(* is driven; and while the definition is not edited, no step runs before  *)
(* the steps it references, with any number of drivers on one run.         *)
(***************************************************************************)
EXTENDS WorkflowRun, TLAPS

DriverType ==
    [pc: {"idle", "ready", "acted"}, run: Run, def: Definition, i: Nat, outs: SUBSET StepId]

RunType == [status: Status, cursor: Nat, outs: SUBSET StepId]

LEMMA DriverTyped ==
    ASSUME NEW pc \in {"idle", "ready", "acted"}, NEW run \in Run, NEW def \in Definition,
           NEW i \in Nat, NEW outs \in SUBSET StepId
    PROVE  Driver(pc, run, def, i, outs) \in DriverType
  BY DEF Driver, DriverType

LEMMA RunTyped ==
    ASSUME NEW status \in Status, NEW cursor \in Nat, NEW outs \in SUBSET StepId
    PROVE  RunRow(status, cursor, outs) \in RunType
  BY DEF RunRow, RunType

\* The length of a definition, and the ids of its steps.
LEMMA StepFacts ==
    ASSUME NEW def \in Definition
    PROVE  /\ NSteps(def) \in Nat
           /\ \A k \in 1 .. NSteps(def) : Steps[def][k] \in StepType
           /\ \A k \in 1 .. NSteps(def) :
                Steps[def][k].id \in StepId /\ Steps[def][k].refs \in SUBSET StepId
  <1>1. Steps[def] \in Seq(StepType)
    BY WorkflowAssumption
  <1>2. NSteps(def) \in Nat /\ \A k \in 1 .. NSteps(def) : Steps[def][k] \in StepType
    BY <1>1 DEF NSteps
  <1> QED  BY <1>2 DEF StepType

-----------------------------------------------------------------------------
LEMMA InitType == Init => TypeOK
  <1> SUFFICES ASSUME Init PROVE TypeOK
    OBVIOUS
  <1>1. RunRow("none", 0, {}) \in RunType
    BY RunTyped DEF Status
  <1>2. row \in [Run -> RunType]
    BY <1>1 DEF Init
  <1>3. PICK r \in Run, def \in Definition :
          drv = [p \in Proc |-> Driver("idle", r, def, 0, {})]
    BY DEF Init
  <1>4. Driver("idle", r, def, 0, {}) \in DriverType
    BY DriverTyped
  <1>5. drv \in [Proc -> DriverType]
    BY <1>3, <1>4
  <1>6. took \in [Run -> SUBSET StepId] /\ again \in [Run -> Nat]
    BY DEF Init
  <1>7. /\ wf \in SUBSET Definition /\ edits \in 0 .. MaxEdits
        /\ crashes \in 0 .. MaxCrashes /\ joined \in SUBSET Run
    BY WorkflowAssumption DEF Init
  <1> QED  BY <1>2, <1>5, <1>6, <1>7 DEF TypeOK, RunType, DriverType

\* The columns of the rows and the fields of the drivers.
LEMMA Fields ==
    ASSUME TypeOK
    PROVE  /\ row \in [Run -> RunType] /\ drv \in [Proc -> DriverType]
           /\ \A p \in Proc : /\ drv[p] \in DriverType
                              /\ drv[p].run \in Run /\ drv[p].def \in Definition
                              /\ drv[p].i \in Nat /\ drv[p].outs \in SUBSET StepId
                              /\ drv[p].pc \in {"idle", "ready", "acted"}
           /\ \A r \in Run : /\ row[r].status \in Status /\ row[r].cursor \in Nat
                             /\ row[r].outs \in SUBSET StepId
  BY DEF TypeOK, RunType, DriverType

LEMMA TypeStep == TypeOK /\ [Next]_vars => TypeOK'
  <1> SUFFICES ASSUME TypeOK, [Next]_vars PROVE TypeOK'
    OBVIOUS
  <1>0. /\ row \in [Run -> RunType] /\ drv \in [Proc -> DriverType]
        /\ took \in [Run -> SUBSET StepId] /\ again \in [Run -> Nat]
        /\ wf \in SUBSET Definition
        /\ edits \in 0 .. MaxEdits /\ crashes \in 0 .. MaxCrashes
        /\ joined \in SUBSET Run
    BY Fields DEF TypeOK
  <1>d. ASSUME NEW p \in Proc, NEW v \in DriverType, drv' = [drv EXCEPT ![p] = v]
        PROVE  drv' \in [Proc -> DriverType]
    BY <1>0, <1>d
  <1>r. ASSUME NEW r \in Run, NEW v \in RunType, row' = [row EXCEPT ![r] = v]
        PROVE  row' \in [Run -> RunType]
    BY <1>0, <1>r
  <1>z. ASSUME row' \in [Run -> RunType], drv' \in [Proc -> DriverType],
               took' \in [Run -> SUBSET StepId], again' \in [Run -> Nat],
               wf' \in SUBSET Definition,
               edits' \in 0 .. MaxEdits, crashes' \in 0 .. MaxCrashes,
               joined' \in SUBSET Run
        PROVE  TypeOK'
    BY <1>z DEF TypeOK, RunType, DriverType
  <1>1. ASSUME NEW next \in SUBSET Definition, Edit(next)
        PROVE  TypeOK'
    <2>1. edits' \in 0 .. MaxEdits /\ wf' \in SUBSET Definition
      BY <1>1, <1>0, WorkflowAssumption DEF Edit
    <2> QED  BY <1>0, <1>1, <1>z, <2>1 DEF Edit
  <1>2. ASSUME NEW p \in Proc, NEW r \in Run, Start(p, r)
        PROVE  TypeOK'
    <2>1. RunRow("running", 0, {}) \in RunType
      BY RunTyped DEF Status
    <2>2. row' \in [Run -> RunType]
      BY <1>2, <1>r, <2>1 DEF Start
    <2>3. PICK def \in wf :
            drv' = [drv EXCEPT ![p] =
                      Driver(IF Valid(def) THEN "ready" ELSE "idle", r, def, 0, {})]
      BY <1>2 DEF Start
    <2>4. Driver(IF Valid(def) THEN "ready" ELSE "idle", r, def, 0, {}) \in DriverType
      BY <1>0, DriverTyped
    <2>5. drv' \in [Proc -> DriverType]
      BY <1>d, <2>3, <2>4
    <2> QED  BY <1>0, <1>2, <1>z, <2>2, <2>5 DEF Start
  <1>3. ASSUME NEW p \in Proc, NEW r \in Run, Resume(p, r)
        PROVE  TypeOK'
    <2>1. PICK def \in wf :
            drv' = [drv EXCEPT ![p] = Driver("ready", r, def, row[r].cursor, row[r].outs)]
      BY <1>3 DEF Resume
    <2>2. Driver("ready", r, def, row[r].cursor, row[r].outs) \in DriverType
      BY <1>0, Fields, DriverTyped
    <2>3. drv' \in [Proc -> DriverType]
      BY <1>d, <2>1, <2>2
    <2>4. joined' \in SUBSET Run
      BY <1>0, <1>3 DEF Resume, Join
    <2> QED  BY <1>0, <1>3, <1>z, <2>3, <2>4 DEF Resume
  <1>4. ASSUME NEW p \in Proc, Act(p)
        PROVE  TypeOK'
    <2> DEFINE v == drv[p]
               s == Steps[v.def][v.i + 1].id
               new == Driver("acted", v.run, v.def, v.i + 1, v.outs \cup {s})
               more == again[v.run] + (IF s \in took[v.run] THEN 1 ELSE 0)
    <2>0. /\ v.run \in Run /\ v.def \in Definition /\ v.i \in Nat /\ v.outs \in SUBSET StepId
      BY Fields
    <2>1. v.i + 1 \in 1 .. NSteps(v.def)
      BY <1>4, <2>0, StepFacts DEF Act
    <2>2. s \in StepId /\ v.i + 1 \in Nat /\ v.outs \cup {s} \in SUBSET StepId
      BY <2>0, <2>1, StepFacts
    <2>3. new \in DriverType
      BY <2>0, <2>2, DriverTyped
    <2>4. drv' = [drv EXCEPT ![p] = new] 
          /\ took' = [took EXCEPT ![v.run] = took[v.run] \cup {s}]
          /\ again' = [again EXCEPT ![v.run] = more]
      BY <1>4 DEF Act
    <2>5. more \in Nat
      BY <1>0, <2>0
    <2> HIDE DEF new, more
    <2>6. drv' \in [Proc -> DriverType]
      BY <1>d, <2>3, <2>4
    <2>7. took' \in [Run -> SUBSET StepId] /\ again' \in [Run -> Nat]
      BY <1>0, <2>0, <2>2, <2>4, <2>5
    <2> QED  BY <1>0, <1>4, <1>z, <2>6, <2>7 DEF Act
  <1>5. ASSUME NEW p \in Proc, Save(p)
        PROVE  TypeOK'
    <2> DEFINE v == drv[p]
    <2>0. /\ v.run \in Run /\ v.def \in Definition /\ v.i \in Nat /\ v.outs \in SUBSET StepId
          /\ row[v.run].status \in Status
      BY Fields
    <2>1. RunRow(row[v.run].status, v.i, v.outs) \in RunType
      BY <2>0, RunTyped
    <2>2. Driver("ready", v.run, v.def, v.i, v.outs) \in DriverType
      BY <2>0, DriverTyped
    <2>3. row' \in [Run -> RunType] /\ drv' \in [Proc -> DriverType]
      BY <1>5, <1>d, <1>r, <2>0, <2>1, <2>2 DEF Save
    <2> QED  BY <1>0, <1>5, <1>z, <2>3 DEF Save
  <1>6. ASSUME NEW p \in Proc, NEW status \in Status, Close(p, status)
        PROVE  TypeOK'
    <2> DEFINE v == drv[p]
    <2>0. /\ v.run \in Run /\ v.def \in Definition /\ v.i \in Nat /\ v.outs \in SUBSET StepId
          /\ row[v.run].cursor \in Nat /\ row[v.run].outs \in SUBSET StepId
      BY Fields
    <2>1. RunRow(status, row[v.run].cursor, row[v.run].outs) \in RunType
      BY <2>0, RunTyped
    <2>2. Driver("idle", v.run, v.def, v.i, v.outs) \in DriverType
      BY <2>0, DriverTyped
    <2>3. row' \in [Run -> RunType] /\ drv' \in [Proc -> DriverType]
      BY <1>6, <1>d, <1>r, <2>0, <2>1, <2>2 DEF Close
    <2> QED  BY <1>0, <1>6, <1>z, <2>3 DEF Close
  <1>7. ASSUME NEW p \in Proc, Crash(p)
        PROVE  TypeOK'
    <2> DEFINE v == drv[p]
    <2>0. /\ v.run \in Run /\ v.def \in Definition /\ v.i \in Nat /\ v.outs \in SUBSET StepId
      BY Fields
    <2>1. Driver("idle", v.run, v.def, v.i, v.outs) \in DriverType
      BY <2>0, DriverTyped
    <2>2. drv' \in [Proc -> DriverType]
      BY <1>7, <1>d, <2>1 DEF Crash
    <2>3. crashes' \in 0 .. MaxCrashes
      BY <1>0, <1>7, WorkflowAssumption DEF Crash
    <2> QED  BY <1>0, <1>7, <1>z, <2>2, <2>3 DEF Crash
  <1>8. ASSUME UNCHANGED vars
        PROVE  TypeOK'
    BY <1>0, <1>8, <1>z DEF vars
  <1>9. {} \in SUBSET Definition /\ \A def \in Definition : {def} \in SUBSET Definition
    OBVIOUS
  <1>10. "done" \in Status /\ "failed" \in Status
    BY DEF Status
  <1> QED
    BY <1>1, <1>2, <1>3, <1>4, <1>5, <1>6, <1>7, <1>8, <1>9, <1>10
    DEF Next, UpdateWorkflow, SyncIn, RemoveWorkflow, Drive, Fail, Finish

-----------------------------------------------------------------------------
\* What a step makes of one driver: the shape every action gives drv.
LEMMA DriversMove ==
    ASSUME TypeOK, NEW p \in Proc, NEW v, drv' = [drv EXCEPT ![p] = v]
    PROVE  \A q \in Proc : drv'[q] = IF q = p THEN v ELSE drv[q]
  BY DEF TypeOK

LEMMA InitIdle == ASSUME Init PROVE \A p \in Proc : drv[p].pc = "idle"
  <1>1. PICK r \in Run, def \in Definition :
          drv = [p \in Proc |-> Driver("idle", r, def, 0, {})]
    BY DEF Init
  <1>2. Driver("idle", r, def, 0, {}).pc = "idle"
    BY DEF Driver
  <1> QED  BY <1>1, <1>2

LEMMA ValidStep == TypeOK /\ OnlyValidRuns /\ [Next]_vars => OnlyValidRuns'
  <1> SUFFICES ASSUME TypeOK, OnlyValidRuns, [Next]_vars,
                      NEW q \in Proc, drv'[q].pc # "idle"
               PROVE  Valid(drv'[q].def)
    BY DEF OnlyValidRuns
  <1>0. drv[q].pc # "idle" => Valid(drv[q].def)
    BY DEF OnlyValidRuns
  <1>1. ASSUME UNCHANGED drv
        PROVE  Valid(drv'[q].def)
    BY <1>0, <1>1
  <1>2. ASSUME NEW p \in Proc, NEW r \in Run, Start(p, r)
        PROVE  Valid(drv'[q].def)
    <2>1. PICK def \in wf :
            drv' = [drv EXCEPT ![p] =
                      Driver(IF Valid(def) THEN "ready" ELSE "idle", r, def, 0, {})]
      BY <1>2 DEF Start
    <2> DEFINE v == Driver(IF Valid(def) THEN "ready" ELSE "idle", r, def, 0, {})
    <2>2. v.pc = (IF Valid(def) THEN "ready" ELSE "idle") /\ v.def = def
      BY DEF Driver
    <2>a. drv' = [drv EXCEPT ![p] = v]
      BY <2>1
    <2> HIDE DEF v
    <2>b. drv \in [Proc -> DriverType]
      BY Fields
    <2>3. drv'[q] = IF q = p THEN v ELSE drv[q]
      BY <2>a, <2>b
    <2> QED  BY <1>0, <2>2, <2>3
  <1>3. ASSUME NEW p \in Proc, NEW r \in Run, Resume(p, r)
        PROVE  Valid(drv'[q].def)
    <2>1. PICK def \in wf :
            /\ Valid(def)
            /\ drv' = [drv EXCEPT ![p] = Driver("ready", r, def, row[r].cursor, row[r].outs)]
      BY <1>3 DEF Resume
    <2> DEFINE v == Driver("ready", r, def, row[r].cursor, row[r].outs)
    <2>2. v.def = def
      BY DEF Driver
    <2>a. drv' = [drv EXCEPT ![p] = v]
      BY <2>1
    <2>b. drv \in [Proc -> DriverType]
      BY Fields
    <2> HIDE DEF v
    <2>3. drv'[q] = IF q = p THEN v ELSE drv[q]
      BY <2>a, <2>b
    <2> QED  BY <1>0, <2>1, <2>2, <2>3
  <1>4. ASSUME NEW p \in Proc, NEW pc, NEW i, NEW outs,
               drv' = [drv EXCEPT ![p] = Driver(pc, drv[p].run, drv[p].def, i, outs)],
               pc # "idle" => drv[p].pc # "idle"
        PROVE  Valid(drv'[q].def)
    <2> DEFINE v == Driver(pc, drv[p].run, drv[p].def, i, outs)
    <2>1. v.pc = pc /\ v.def = drv[p].def
      BY DEF Driver
    <2>2. drv'[q] = IF q = p THEN v ELSE drv[q]
      BY <1>4, DriversMove
    <2> HIDE DEF v
    <2> QED  BY <1>0, <1>4, <2>1, <2>2
  <1>5. ASSUME NEW p \in Proc, Drive(p) \/ Crash(p)
        PROVE  Valid(drv'[q].def)
    <2>1. CASE Act(p)
      BY <2>1, <1>4 DEF Act
    <2>2. CASE Save(p)
      BY <2>2, <1>4 DEF Save
    <2>3. CASE Fail(p) \/ Finish(p) \/ Crash(p)
      BY <2>3, <1>4 DEF Fail, Finish, Close, Crash
    <2> QED  BY <1>5, <2>1, <2>2, <2>3 DEF Drive
  <1> QED
    BY <1>1, <1>2, <1>3, <1>5
    DEF Next, UpdateWorkflow, SyncIn, RemoveWorkflow, Edit, vars

\* What a peer syncs in, or the user edits while a run is under way, is driven only
\* if validate accepts it.
THEOREM OnlyValidDefinitionsRun == Spec => []OnlyValidRuns
  <1>1. Init => OnlyValidRuns
    <2> SUFFICES ASSUME Init, NEW p \in Proc PROVE drv[p].pc = "idle"
      BY DEF OnlyValidRuns
    <2> QED  BY InitIdle
  <1> QED  BY <1>1, InitType, TypeStep, ValidStep, PTL DEF Spec

-----------------------------------------------------------------------------
(* While the definition is not edited *)

\* A cursor and the outputs that go with it.
Backed(def, n, outs) == n \in 0 .. NSteps(def) /\ outs = IdsUpTo(def, n)

\* The rows and the drivers' copies hold exactly the outputs of the steps before their
\* cursor.  Several drivers may move the cursor back, never apart from the outputs.
CursorBacked ==
    /\ edits = 0
    /\ \A d1, d2 \in wf : d1 = d2
    /\ \A r \in Run : row[r].status # "none" =>
         \A def \in wf : Backed(def, row[r].cursor, row[r].outs)
    /\ \A p \in Proc : drv[p].pc # "idle" =>
         /\ drv[p].def \in wf
         /\ row[drv[p].run].status # "none"
         /\ Backed(drv[p].def, drv[p].i, drv[p].outs)

LEMMA BackedInit == Init => CursorBacked
  <1> SUFFICES ASSUME Init PROVE CursorBacked
    OBVIOUS
  <1>1. \A r \in Run : row[r].status = "none"
    BY DEF Init, RunRow
  <1>2. \A p \in Proc : drv[p].pc = "idle"
    BY InitIdle
  <1> QED  BY <1>1, <1>2 DEF Init, CursorBacked

\* The next step's output joins the ones before it.
LEMMA OneMore ==
    ASSUME NEW def \in Definition, NEW n \in Nat, n < NSteps(def)
    PROVE  Backed(def, n + 1, IdsUpTo(def, n) \cup {Steps[def][n + 1].id})
  <1>1. NSteps(def) \in Nat
    BY StepFacts
  <1>2. 1 .. (n + 1) = (1 .. n) \cup {n + 1}
    OBVIOUS
  <1>3. IdsUpTo(def, n + 1) = IdsUpTo(def, n) \cup {Steps[def][n + 1].id}
    BY <1>2 DEF IdsUpTo
  <1> QED  BY <1>1, <1>3 DEF Backed

LEMMA RunRowFields ==
    ASSUME NEW status, NEW cursor, NEW outs
    PROVE  LET v == RunRow(status, cursor, outs)
           IN  v.status = status /\ v.cursor = cursor /\ v.outs = outs
  BY DEF RunRow

LEMMA BackedStep ==
    ASSUME edits' = 0, TypeOK, CursorBacked, [Next]_vars
    PROVE  CursorBacked'
  <1>0. /\ edits = 0 /\ row \in [Run -> RunType]
        /\ \A d1, d2 \in wf : d1 = d2
        /\ \A r \in Run : row[r].status # "none" =>
             \A def \in wf : Backed(def, row[r].cursor, row[r].outs)
        /\ \A p \in Proc : drv[p].pc # "idle" =>
             /\ drv[p].def \in wf
             /\ row[drv[p].run].status # "none"
             /\ Backed(drv[p].def, drv[p].i, drv[p].outs)
        /\ wf \in SUBSET Definition
    BY Fields DEF CursorBacked, TypeOK
  <1>a. ASSUME NEW next, Edit(next) PROVE FALSE
    BY <1>0, <1>a DEF Edit, TypeOK
  <1>b. ASSUME NEW r \in Run, NEW v, row' = [row EXCEPT ![r] = v]
        PROVE  \A x \in Run : row'[x] = IF x = r THEN v ELSE row[x]
    BY <1>0, <1>b
  <1>e. \A def \in Definition : Backed(def, 0, {})
    BY StepFacts DEF Backed, IdsUpTo
  <1>z. ASSUME UNCHANGED <<wf, edits>>, NEW p \in Proc, NEW v, NEW r \in Run, NEW w,
               \A q \in Proc : drv'[q] = IF q = p THEN v ELSE drv[q],
               \A x \in Run : row'[x] = IF x = r THEN w ELSE row[x],
               w.status # "none" => \A def \in wf : Backed(def, w.cursor, w.outs),
               row[r].status # "none" => w.status # "none",
               v.pc # "idle" => /\ v.def \in wf
                                /\ v.run \in Run
                                /\ row'[v.run].status # "none"
                                /\ Backed(v.def, v.i, v.outs)
        PROVE  CursorBacked'
    <2>1. \A x \in Run : row'[x].status # "none" =>
            \A def \in wf : Backed(def, row'[x].cursor, row'[x].outs)
      BY <1>0, <1>z
    <2>2. \A x \in Run : row[x].status # "none" => row'[x].status # "none"
      BY <1>z
    <2>3. ASSUME NEW q \in Proc, drv'[q].pc # "idle"
          PROVE  /\ drv'[q].def \in wf
                 /\ row'[drv'[q].run].status # "none"
                 /\ Backed(drv'[q].def, drv'[q].i, drv'[q].outs)
      <3>1. CASE q = p
        BY <3>1, <2>3, <1>z
      <3>2. CASE q # p
        <4>1. drv'[q] = drv[q] /\ drv[q].run \in Run
          BY <3>2, <1>z, Fields
        <4> QED  BY <4>1, <2>2, <2>3, <1>0
      <3> QED  BY <3>1, <3>2
    <2> QED  BY <1>0, <1>z, <2>1, <2>3 DEF CursorBacked
  <1>2. ASSUME NEW p \in Proc, NEW r \in Run, Start(p, r)
        PROVE  CursorBacked'
    <2>1. PICK def \in wf :
            drv' = [drv EXCEPT ![p] =
                      Driver(IF Valid(def) THEN "ready" ELSE "idle", r, def, 0, {})]
      BY <1>2 DEF Start
    <2> DEFINE v == Driver(IF Valid(def) THEN "ready" ELSE "idle", r, def, 0, {})
               w == RunRow("running", 0, {})
    <2>2. v.run = r /\ v.def = def /\ v.i = 0 /\ v.outs = {}
      BY DEF Driver
    <2>3. w.status = "running" /\ w.cursor = 0 /\ w.outs = {}
      BY RunRowFields
    <2>a. drv' = [drv EXCEPT ![p] = v]
      BY <2>1
    <2>5. row' = [row EXCEPT ![r] = w] /\ UNCHANGED <<wf, edits>>
      BY <1>2 DEF Start
    <2> HIDE DEF v, w
    <2>4. \A q \in Proc : drv'[q] = IF q = p THEN v ELSE drv[q]
      BY <2>a, DriversMove
    <2>6. \A x \in Run : row'[x] = IF x = r THEN w ELSE row[x]
      BY <1>b, <2>5
    <2>7. row'[v.run].status # "none" /\ Backed(v.def, v.i, v.outs) /\ v.def \in wf
      BY <1>0, <1>e, <2>2, <2>3, <2>6
    <2>8. \A d \in wf : Backed(d, w.cursor, w.outs)
      BY <1>0, <1>e, <2>3
    <2>9. w.status # "none" /\ v.run \in Run
      BY <2>2, <2>3
    <2> QED  BY <1>z, <2>4, <2>5, <2>6, <2>7, <2>8, <2>9
  <1>3. ASSUME NEW p \in Proc, NEW r \in Run, Resume(p, r)
        PROVE  CursorBacked'
    <2>1. PICK def \in wf :
            drv' = [drv EXCEPT ![p] = Driver("ready", r, def, row[r].cursor, row[r].outs)]
      BY <1>3 DEF Resume
    <2> DEFINE v == Driver("ready", r, def, row[r].cursor, row[r].outs)
    <2>2. v.run = r /\ v.def = def /\ v.i = row[r].cursor /\ v.outs = row[r].outs
      BY DEF Driver
    <2>3. \A q \in Proc : drv'[q] = IF q = p THEN v ELSE drv[q]
      BY <2>1, DriversMove
    <2>4. row' = row /\ UNCHANGED <<wf, edits>> /\ row[r].status # "none"
      BY <1>3 DEF Resume
    <2> HIDE DEF v
    <2>5. \A x \in Run : row'[x] = IF x = r THEN row[r] ELSE row[x]
      BY <2>4
    <2>6. Backed(def, row[r].cursor, row[r].outs)
      BY <1>0, <2>4
    <2> QED  BY <1>0, <1>z, <2>2, <2>3, <2>4, <2>5, <2>6
  <1>4. ASSUME NEW p \in Proc, Act(p)
        PROVE  CursorBacked'
    <2> DEFINE u == drv[p]
               s == Steps[u.def][u.i + 1].id
               v == Driver("acted", u.run, u.def, u.i + 1, u.outs \cup {s})
    <2>0. u.run \in Run /\ u.def \in Definition /\ u.i \in Nat
      BY Fields
    <2>1. u.pc = "ready" /\ u.i < NSteps(u.def)
      BY <1>4 DEF Act
    <2>2. u.def \in wf /\ row[u.run].status # "none" /\ u.outs = IdsUpTo(u.def, u.i)
      BY <1>0, <2>1 DEF Backed
    <2>3. Backed(u.def, u.i + 1, u.outs \cup {s})
      BY <2>0, <2>1, <2>2, OneMore
    <2>4. v.run = u.run /\ v.def = u.def /\ v.i = u.i + 1 /\ v.outs = u.outs \cup {s}
      BY DEF Driver
    <2>5. drv' = [drv EXCEPT ![p] = v] /\ row' = row /\ UNCHANGED <<wf, edits>>
      BY <1>4 DEF Act
    <2> HIDE DEF v, s
    <2>6. \A q \in Proc : drv'[q] = IF q = p THEN v ELSE drv[q]
      BY <2>5, DriversMove
    <2>7. \A x \in Run : row'[x] = IF x = u.run THEN row[u.run] ELSE row[x]
      BY <2>5
    <2>8. row'[v.run].status # "none" /\ Backed(v.def, v.i, v.outs) /\ v.def \in wf /\ v.run \in Run
      BY <2>0, <2>2, <2>3, <2>4, <2>5
    <2>9. row[u.run].status # "none" =>
            \A def \in wf : Backed(def, row[u.run].cursor, row[u.run].outs)
      BY <1>0, <2>0
    <2> HIDE DEF u
    <2> QED  BY <1>z, <2>0, <2>5, <2>6, <2>7, <2>8, <2>9
  <1>5. ASSUME NEW p \in Proc, Save(p)
        PROVE  CursorBacked'
    <2> DEFINE u == drv[p]
               v == Driver("ready", u.run, u.def, u.i, u.outs)
               w == RunRow(row[u.run].status, u.i, u.outs)
    <2>0. u.run \in Run /\ u.pc = "acted"
      BY <1>5, Fields DEF Save
    <2>1. u.def \in wf /\ row[u.run].status # "none" /\ Backed(u.def, u.i, u.outs)
      BY <1>0, <2>0
    <2>2. v.run = u.run /\ v.def = u.def /\ v.i = u.i /\ v.outs = u.outs
      BY DEF Driver
    <2>3. w.status = row[u.run].status /\ w.cursor = u.i /\ w.outs = u.outs
      BY RunRowFields
    <2>4. drv' = [drv EXCEPT ![p] = v] /\ row' = [row EXCEPT ![u.run] = w]
          /\ UNCHANGED <<wf, edits>>
      BY <1>5 DEF Save
    <2> HIDE DEF v, w
    <2>5. \A q \in Proc : drv'[q] = IF q = p THEN v ELSE drv[q]
      BY <2>4, DriversMove
    <2>6. \A x \in Run : row'[x] = IF x = u.run THEN w ELSE row[x]
      BY <1>b, <2>0, <2>4, ZenonT(60), SMTT(60)
    <2>7. \A def \in wf : Backed(def, w.cursor, w.outs)
      BY <1>0, <2>1, <2>3
    <2>8. row'[v.run].status # "none" /\ Backed(v.def, v.i, v.outs) /\ v.def \in wf /\ v.run \in Run
      BY <2>0, <2>1, <2>2, <2>3, <2>6
    <2> QED  BY <1>z, <2>0, <2>1, <2>3, <2>4, <2>5, <2>6, <2>7, <2>8
  <1>6. ASSUME NEW p \in Proc, NEW status, status # "none", Close(p, status),
               drv[p].pc # "idle"
        PROVE  CursorBacked'
    <2> DEFINE u == drv[p]
               v == Driver("idle", u.run, u.def, u.i, u.outs)
               w == RunRow(status, row[u.run].cursor, row[u.run].outs)
    <2>0. u.run \in Run
      BY Fields
    <2>1. \A def \in wf : Backed(def, row[u.run].cursor, row[u.run].outs)
      BY <1>0, <1>6, <2>0
    <2>2. v.pc = "idle"
      BY DEF Driver
    <2>3. w.status = status /\ w.cursor = row[u.run].cursor /\ w.outs = row[u.run].outs
      BY RunRowFields
    <2>4. drv' = [drv EXCEPT ![p] = v] /\ row' = [row EXCEPT ![u.run] = w]
          /\ UNCHANGED <<wf, edits>>
      BY <1>6 DEF Close
    <2> HIDE DEF v, w
    <2>5. \A q \in Proc : drv'[q] = IF q = p THEN v ELSE drv[q]
      BY <2>4, DriversMove
    <2>6. \A x \in Run : row'[x] = IF x = u.run THEN w ELSE row[x]
      BY <1>b, <2>0, <2>4
    <2>7. \A def \in wf : Backed(def, w.cursor, w.outs)
      BY <2>1, <2>3
    <2> QED  BY <1>6, <1>z, <2>0, <2>2, <2>3, <2>4, <2>5, <2>6, <2>7
  <1>7. ASSUME NEW p \in Proc, Crash(p)
        PROVE  CursorBacked'
    <2> DEFINE u == drv[p]
               v == Driver("idle", u.run, u.def, u.i, u.outs)
    <2>0. u.run \in Run
      BY Fields
    <2>1. v.pc = "idle"
      BY DEF Driver
    <2>2. drv' = [drv EXCEPT ![p] = v] /\ row' = row /\ UNCHANGED <<wf, edits>>
      BY <1>7 DEF Crash
    <2> HIDE DEF v
    <2>3. \A q \in Proc : drv'[q] = IF q = p THEN v ELSE drv[q]
      BY <2>2, DriversMove
    <2>4. \A x \in Run : row'[x] = IF x = u.run THEN row[u.run] ELSE row[x]
      BY <2>2
    <2>5. row[u.run].status # "none" =>
            \A def \in wf : Backed(def, row[u.run].cursor, row[u.run].outs)
      BY <1>0, <2>0
    <2> QED  BY <1>z, <2>0, <2>1, <2>2, <2>3, <2>4, <2>5
  <1>8. ASSUME UNCHANGED vars
        PROVE  CursorBacked'
    BY <1>8 DEF CursorBacked, vars
  <1> QED
    BY <1>a, <1>2, <1>3, <1>4, <1>5, <1>6, <1>7, <1>8
    DEF Next, UpdateWorkflow, SyncIn, RemoveWorkflow, Drive, Fail, Finish

\* The edit counter does not come back to 0.
LEMMA NoEditYet ==
    ASSUME TypeOK, [Next]_vars, edits' = 0
    PROVE  edits = 0
  <1>1. edits \in Nat
    BY DEF TypeOK
  <1>2. ASSUME NEW next, Edit(next) PROVE FALSE
    BY <1>1, <1>2 DEF Edit
  <1>3. ASSUME NEW p \in Proc, Drive(p) \/ Crash(p) PROVE edits' = edits
    BY <1>3 DEF Drive, Act, Save, Fail, Finish, Close, Crash
  <1>4. ASSUME NEW p \in Proc, NEW r \in Run, Start(p, r) \/ Resume(p, r)
        PROVE  edits' = edits
    BY <1>4 DEF Start, Resume
  <1> QED
    BY <1>2, <1>3, <1>4 DEF Next, UpdateWorkflow, SyncIn, RemoveWorkflow, vars

\* While its definition is not edited, a run resumed after any crash, by any number of
\* drivers at once, runs no step before the steps it references have outputs.
THEOREM RefsAlwaysResolved == Spec => []RefsResolved
  <1>1. ASSUME TypeOK, OnlyValidRuns, CursorBacked
        PROVE  RefsResolved
    <2> SUFFICES ASSUME NEW p \in Proc, drv[p].pc = "ready",
                        drv[p].i < NSteps(drv[p].def),
                        NEW x \in Steps[drv[p].def][drv[p].i + 1].refs,
                        x \in IdsUpTo(drv[p].def, NSteps(drv[p].def))
                 PROVE  x \in drv[p].outs
      BY DEF RefsResolved
    <2> DEFINE def == drv[p].def
               i == drv[p].i
    <2>1. def \in Definition /\ i \in Nat /\ NSteps(def) \in Nat
      BY <1>1, Fields, StepFacts
    <2>2. Valid(def) /\ drv[p].outs = IdsUpTo(def, i)
      BY <1>1 DEF OnlyValidRuns, CursorBacked, Backed
    <2>3. PICK j \in 1 .. NSteps(def) : Steps[def][j].id = x
      BY DEF IdsUpTo
    <2>4. i + 1 \in 1 .. NSteps(def)
      BY <2>1
    <2>5. j < i + 1
      BY <2>2, <2>3, <2>4 DEF Valid
    <2>6. j \in 1 .. i
      BY <2>1, <2>3, <2>5
    <2> QED  BY <2>2, <2>3, <2>6 DEF IdsUpTo
  <1>2. Init => OnlyValidRuns
    <2> SUFFICES ASSUME Init, NEW p \in Proc PROVE drv[p].pc = "idle"
      BY DEF OnlyValidRuns
    <2> QED  BY InitIdle
  <1> DEFINE Backing == edits = 0 => CursorBacked
  <1>3. TypeOK /\ Backing /\ [Next]_vars => Backing'
    <2> SUFFICES ASSUME TypeOK, Backing, [Next]_vars, edits' = 0 PROVE CursorBacked'
      OBVIOUS
    <2>1. CursorBacked
      BY NoEditYet
    <2> QED  BY <2>1, BackedStep
  <1>4. TypeOK /\ OnlyValidRuns /\ Backing => RefsResolved
    BY <1>1 DEF RefsResolved
  <1>5. Init => Backing
    BY BackedInit
  <1> HIDE DEF Backing
  <1> QED  BY <1>2, <1>3, <1>4, <1>5, InitType, TypeStep, ValidStep, PTL DEF Spec

-----------------------------------------------------------------------------
(* One driver at a time                                                    *)

Drives(q, r) == drv[q].pc # "idle" /\ drv[q].run = r

\* A step of r has taken effect that the row does not know of and that no driver is
\* about to save: it will be run again.
Debt(r) ==
    IF took[r] # row[r].outs /\ ~\E q \in Proc : Drives(q, r) /\ drv[q].pc = "acted"
    THEN 1 ELSE 0

\* The steps of r that took effect are those before the cursor and at most the next
\* one; each repetition, made or still owed, has had a crash.
OnceAt(r) ==
    /\ row[r].status = "none" => took[r] = {} /\ row[r].outs = {}
    /\ \A p, q \in Proc : Drives(p, r) /\ Drives(q, r) => p = q
    /\ \A q \in Proc : Drives(q, r) =>
          /\ drv[q].pc = "ready" => drv[q].i = row[r].cursor
          /\ drv[q].pc = "acted" => drv[q].outs = took[r]
    /\ \A def \in wf :
          \/ took[r] = row[r].outs
          \/ /\ row[r].cursor < NSteps(def)
             /\ took[r] = row[r].outs \cup {Steps[def][row[r].cursor + 1].id}
    /\ again[r] + Debt(r) <= crashes

Once == \A r \in Run \ joined : OnceAt(r)

LEMMA OnceInit == Init => Once
  <1> SUFFICES ASSUME Init, NEW r \in Run PROVE OnceAt(r)
    BY DEF Once
  <1>1. row[r].status = "none" /\ row[r].outs = {} /\ took[r] = {} /\ again[r] = 0 /\ crashes = 0
    BY RunRowFields DEF Init
  <1>2. \A p \in Proc : drv[p].pc = "idle"
    BY InitIdle
  <1> QED  BY <1>1, <1>2 DEF OnceAt, Drives, Debt

\* What happens elsewhere is nothing to run r.
LEMMA OnceFrame ==
    ASSUME TypeOK, TypeOK', NEW r \in Run, OnceAt(r), wf' = wf, crashes' >= crashes,
           row'[r] = row[r], took'[r] = took[r], again'[r] = again[r],
           \A q \in Proc : Drives(q, r) \/ Drives(q, r)' => drv'[q] = drv[q]
    PROVE  OnceAt(r)'
  <1>1. \A q \in Proc : Drives(q, r)' <=> Drives(q, r)
    BY DEF Drives
  <1>2. Debt(r)' = Debt(r)
    BY <1>1 DEF Debt
  <1>3. again[r] \in Nat /\ crashes \in Nat /\ crashes' \in Nat /\ Debt(r) \in Nat
    BY DEF TypeOK, Debt
  <1> HIDE DEF Debt
  <1>4. again'[r] + Debt(r)' <= crashes'
    BY <1>2, <1>3 DEF OnceAt
  <1> QED  BY <1>1, <1>4 DEF OnceAt

\* The next step's id is not that of a step before it.
LEMMA NextIsNew ==
    ASSUME NEW def \in Definition, Valid(def), NEW n \in Nat, n < NSteps(def)
    PROVE  Steps[def][n + 1].id \notin IdsUpTo(def, n)
  <1>1. NSteps(def) \in Nat
    BY StepFacts
  <1>2. ASSUME NEW k \in 1 .. n PROVE Steps[def][k].id # Steps[def][n + 1].id
    BY <1>1 DEF Valid
  <1> QED  BY <1>2 DEF IdsUpTo

LEMMA OnceStep ==
    ASSUME edits' = 0, TypeOK, TypeOK', OnlyValidRuns, CursorBacked, Once, [Next]_vars
    PROVE  Once'
  <1> SUFFICES ASSUME NEW r \in Run, r \notin joined' PROVE OnceAt(r)'
    BY DEF Once
  <1>j. joined \subseteq joined'
    <2>1. ASSUME NEW p \in Proc, NEW x \in Run, Resume(p, x) PROVE joined \subseteq joined'
      BY <2>1 DEF Resume, Join
    <2>2. ASSUME NEW p \in Proc, Drive(p) \/ Crash(p) PROVE joined' = joined
      BY <2>2 DEF Drive, Act, Save, Fail, Finish, Close, Crash
    <2> QED
      BY <2>1, <2>2 DEF Next, UpdateWorkflow, SyncIn, RemoveWorkflow, Edit, Start, vars
  <1>0. OnceAt(r)
    BY <1>j DEF Once
  <1>t. /\ again[r] \in Nat /\ crashes \in Nat /\ crashes' \in Nat /\ row[r].cursor \in Nat
        /\ edits \in Nat
    BY Fields DEF TypeOK
  <1>a. ASSUME NEW next, Edit(next) PROVE FALSE
    BY <1>a, <1>t DEF Edit
  <1>b. /\ row \in [Run -> RunType] /\ took \in [Run -> SUBSET StepId] /\ again \in [Run -> Nat]
    BY Fields DEF TypeOK
  <1>c. wf' = wf
    <2>1. ASSUME NEW p \in Proc, Drive(p) \/ Crash(p) PROVE wf' = wf
      BY <2>1 DEF Drive, Act, Save, Fail, Finish, Close, Crash
    <2> QED
      BY <1>a, <2>1 DEF Next, UpdateWorkflow, SyncIn, RemoveWorkflow, Start, Resume, vars
  <1>2. ASSUME NEW p \in Proc, NEW x \in Run, Start(p, x) PROVE OnceAt(r)'
    <2>1. PICK def \in wf :
            drv' = [drv EXCEPT ![p] =
                      Driver(IF Valid(def) THEN "ready" ELSE "idle", x, def, 0, {})]
      BY <1>2 DEF Start
    <2> DEFINE v == Driver(IF Valid(def) THEN "ready" ELSE "idle", x, def, 0, {})
               w == RunRow("running", 0, {})
    <2>2. v.pc # "acted" /\ v.run = x /\ v.i = 0
      BY DEF Driver
    <2>3. w.status = "running" /\ w.cursor = 0 /\ w.outs = {}
      BY RunRowFields
    <2>4. drv' = [drv EXCEPT ![p] = v]
      BY <2>1
    <2>5. /\ drv[p].pc = "idle" /\ row[x].status = "none" /\ row' = [row EXCEPT ![x] = w]
          /\ UNCHANGED <<took, again, crashes>>
      BY <1>2 DEF Start
    <2> HIDE DEF v, w
    <2>6. \A q \in Proc : drv'[q] = IF q = p THEN v ELSE drv[q]
      BY <2>4, DriversMove
    <2>7. CASE x # r
      <3>1. row'[r] = row[r]
        BY <1>b, <2>5, <2>7
      <3>2. \A q \in Proc : Drives(q, r) \/ Drives(q, r)' => drv'[q] = drv[q]
        BY <2>2, <2>5, <2>6, <2>7 DEF Drives
      <3> QED  BY <1>0, <1>c, <1>t, <2>5, <3>1, <3>2, OnceFrame
    <2>8. CASE x = r
      <3>1. row'[r] = w
        BY <1>b, <2>5, <2>8
      <3>2. \A q \in Proc : ~Drives(q, r)
        BY <2>5, <2>8 DEF CursorBacked, Drives
      <3>3. \A q \in Proc : Drives(q, r)' => q = p
        BY <2>6, <3>2 DEF Drives
      <3>4. took'[r] = {} /\ again'[r] = again[r]
        BY <1>0, <2>5, <2>8 DEF OnceAt
      <3>5. Debt(r)' = 0 /\ again[r] <= crashes
        BY <1>0, <1>t, <2>3, <3>1, <3>4 DEF Debt, OnceAt
      <3> QED
        BY <1>t, <2>2, <2>3, <2>5, <2>6, <3>1, <3>3, <3>4, <3>5 DEF OnceAt, Drives
    <2> QED  BY <2>7, <2>8
  <1>3. ASSUME NEW p \in Proc, NEW x \in Run, Resume(p, x) PROVE OnceAt(r)'
    <2>1. PICK def \in wf :
            drv' = [drv EXCEPT ![p] = Driver("ready", x, def, row[x].cursor, row[x].outs)]
      BY <1>3 DEF Resume
    <2> DEFINE v == Driver("ready", x, def, row[x].cursor, row[x].outs)
    <2>2. v.pc = "ready" /\ v.run = x /\ v.i = row[x].cursor
      BY DEF Driver
    <2>3. drv' = [drv EXCEPT ![p] = v]
      BY <2>1
    <2>4. drv[p].pc = "idle" /\ UNCHANGED <<row, took, again, crashes>>
      BY <1>3 DEF Resume
    <2> HIDE DEF v
    <2>5. \A q \in Proc : drv'[q] = IF q = p THEN v ELSE drv[q]
      BY <2>3, DriversMove
    <2>6. CASE x # r
      <3>1. \A q \in Proc : Drives(q, r) \/ Drives(q, r)' => drv'[q] = drv[q]
        BY <2>2, <2>4, <2>5, <2>6 DEF Drives
      <3> QED  BY <1>0, <1>c, <1>t, <2>4, <3>1, OnceFrame
    <2>7. CASE x = r
      <3>1. ~Driven(r, p)
        BY <1>3, <2>7 DEF Resume, Join
      <3>2. \A q \in Proc : ~Drives(q, r)
        BY <2>4, <3>1 DEF Driven, Drives
      <3>3. \A q \in Proc : Drives(q, r)' => q = p
        BY <2>5, <3>2 DEF Drives
      <3>4. Debt(r)' = Debt(r)
        BY <2>2, <2>4, <2>5, <3>2, <3>3 DEF Debt, Drives
      <3> HIDE DEF Debt
      <3> QED  BY <1>0, <1>c, <2>2, <2>4, <2>5, <2>7, <3>3, <3>4 DEF OnceAt, Drives
    <2> QED  BY <2>6, <2>7
  <1>4. ASSUME NEW p \in Proc, Act(p) PROVE OnceAt(r)'
    <2> DEFINE u == drv[p]
               s == Steps[u.def][u.i + 1].id
               v == Driver("acted", u.run, u.def, u.i + 1, u.outs \cup {s})
               more == again[u.run] + (IF s \in took[u.run] THEN 1 ELSE 0)
    <2>0. u.run \in Run /\ u.def \in Definition /\ u.i \in Nat
      BY Fields
    <2>1. /\ u.pc = "ready" /\ u.i < NSteps(u.def)
          /\ drv' = [drv EXCEPT ![p] = v]
          /\ took' = [took EXCEPT ![u.run] = took[u.run] \cup {s}]
          /\ again' = [again EXCEPT ![u.run] = more]
          /\ UNCHANGED <<row, crashes>>
      BY <1>4 DEF Act
    <2>2. v.pc = "acted" /\ v.run = u.run /\ v.outs = u.outs \cup {s}
      BY DEF Driver
    <2>3. /\ u.def \in wf /\ Valid(u.def) /\ Backed(u.def, u.i, u.outs)
          /\ row[u.run].status # "none" /\ Backed(u.def, row[u.run].cursor, row[u.run].outs)
      BY <2>0, <2>1 DEF CursorBacked, OnlyValidRuns
    <2>4. s \notin IdsUpTo(u.def, u.i)
      BY <2>0, <2>1, <2>3, NextIsNew
    <2> HIDE DEF v, s, more
    <2>5. \A q \in Proc : drv'[q] = IF q = p THEN v ELSE drv[q]
      BY <2>1, DriversMove
    <2>6. CASE u.run # r
      <3>1. took'[r] = took[r] /\ again'[r] = again[r]
        BY <1>b, <2>1, <2>6
      <3>2. \A q \in Proc : Drives(q, r) \/ Drives(q, r)' => drv'[q] = drv[q]
        BY <2>2, <2>5, <2>6 DEF Drives
      <3> QED  BY <1>0, <1>c, <1>t, <2>1, <3>1, <3>2, OnceFrame, SMTT(60), ZenonT(60)
    <2>7. CASE u.run = r
      <3>1. took'[r] = took[r] \cup {s} /\ again'[r] = more
        BY <1>b, <2>1, <2>7
      <3>2. Drives(p, r) /\ u.i = row[r].cursor
        BY <1>0, <2>1, <2>7 DEF OnceAt, Drives
      <3>3. \A q \in Proc : Drives(q, r)' => q = p
        <4>1. \A q \in Proc : Drives(q, r) => q = p
          BY <1>0, <3>2 DEF OnceAt
        <4> QED  BY <2>5, <4>1 DEF Drives
      <3>4. Drives(p, r)' /\ drv'[p].pc = "acted"
        BY <2>2, <2>5, <2>7 DEF Drives
      <3>5. row[r].outs = IdsUpTo(u.def, u.i) /\ u.outs = IdsUpTo(u.def, u.i)
        BY <2>3, <2>7, <3>2 DEF Backed
      <3>6. s \notin row[r].outs
        BY <2>4, <3>5
      <3>7. took[r] = row[r].outs \/ took[r] = row[r].outs \cup {s}
        BY <1>0, <2>3, <3>2 DEF OnceAt, s
      <3>8. took'[r] = row[r].outs \cup {s} /\ u.outs \cup {s} = took'[r]
        BY <3>1, <3>5, <3>7
      <3>9. more <= crashes
        <4>1. CASE took[r] = row[r].outs
          <5>1. more = again[r]
            BY <1>t, <2>7, <3>6, <4>1 DEF more
          <5> QED  BY <1>0, <1>t, <5>1 DEF OnceAt, Debt
        <4>2. CASE took[r] = row[r].outs \cup {s}
          <5>1. more = again[r] + 1
            BY <2>7, <4>2 DEF more
          <5>2. ~\E q \in Proc : Drives(q, r) /\ drv[q].pc = "acted"
            BY <1>0, <2>1, <3>2 DEF OnceAt
          <5>3. Debt(r) = 1
            BY <3>6, <4>2, <5>2 DEF Debt
          <5> QED  BY <1>0, <1>t, <5>1, <5>3 DEF OnceAt
        <4> QED  BY <3>7, <4>1, <4>2
      <3>10. Debt(r)' = 0
        BY <3>4 DEF Debt
      <3>11. more + Debt(r)' <= crashes'
        BY <1>b, <1>t, <2>0, <2>1, <3>9, <3>10 DEF more
      <3>12. \A def \in wf : /\ row[r].cursor < NSteps(def)
                             /\ took'[r] = row[r].outs \cup {Steps[def][row[r].cursor + 1].id}
        BY <2>1, <2>3, <3>2, <3>8 DEF CursorBacked, s
      <3> HIDE DEF Debt
      <3> QED
        BY <1>c, <2>1, <2>2, <2>3, <2>5, <2>7, <3>1, <3>3, <3>4, <3>8, <3>11, <3>12 DEF OnceAt
    <2> QED  BY <2>6, <2>7
  <1>5. ASSUME NEW p \in Proc, Save(p) PROVE OnceAt(r)'
    <2> DEFINE u == drv[p]
               v == Driver("ready", u.run, u.def, u.i, u.outs)
               w == RunRow(row[u.run].status, u.i, u.outs)
    <2>0. u.run \in Run
      BY Fields
    <2>1. /\ u.pc = "acted" /\ drv' = [drv EXCEPT ![p] = v]
          /\ row' = [row EXCEPT ![u.run] = w] /\ UNCHANGED <<took, again, crashes>>
      BY <1>5 DEF Save
    <2>2. v.pc = "ready" /\ v.run = u.run /\ v.i = u.i
      BY DEF Driver
    <2>3. w.status = row[u.run].status /\ w.cursor = u.i /\ w.outs = u.outs
      BY RunRowFields
    <2> HIDE DEF v, w
    <2>4. \A q \in Proc : drv'[q] = IF q = p THEN v ELSE drv[q]
      BY <2>1, DriversMove
    <2>5. CASE u.run # r
      <3>1. row'[r] = row[r]
        BY <1>b, <2>1, <2>5
      <3>2. \A q \in Proc : Drives(q, r) \/ Drives(q, r)' => drv'[q] = drv[q]
        BY <2>2, <2>4, <2>5 DEF Drives
      <3> QED  BY <1>0, <1>c, <1>t, <2>1, <3>1, <3>2, OnceFrame
    <2>6. CASE u.run = r
      <3>1. row'[r] = w
        BY <1>b, <2>1, <2>6
      <3>2. Drives(p, r) /\ u.outs = took[r] /\ row[r].status # "none"
        BY <1>0, <2>1, <2>6 DEF OnceAt, Drives, CursorBacked
      <3>3. \A q \in Proc : Drives(q, r)' => q = p
        <4>1. \A q \in Proc : Drives(q, r) => q = p
          BY <1>0, <3>2 DEF OnceAt
        <4> QED  BY <2>4, <4>1 DEF Drives
      <3>4. took'[r] = row'[r].outs /\ row'[r].status # "none"
        BY <2>1, <2>3, <2>6, <3>1, <3>2
      <3>5. Debt(r)' = 0 /\ again[r] <= crashes
        <4>1. Debt(r) \in Nat
          BY DEF Debt
        <4>2. again[r] <= crashes
          BY <1>0, <1>t, <4>1 DEF OnceAt
        <4> QED  BY <3>4, <4>2 DEF Debt
      <3>6. again'[r] + Debt(r)' <= crashes'
        BY <1>t, <2>1, <3>5
      <3> HIDE DEF Debt
      <3> QED  BY <2>2, <2>3, <2>4, <3>1, <3>3, <3>4, <3>6 DEF OnceAt
    <2> QED  BY <2>5, <2>6
  <1>6. ASSUME NEW p \in Proc, NEW status, status # "none", drv[p].pc = "ready", Close(p, status)
        PROVE  OnceAt(r)'
    <2> DEFINE u == drv[p]
               v == Driver("idle", u.run, u.def, u.i, u.outs)
               w == RunRow(status, row[u.run].cursor, row[u.run].outs)
    <2>0. u.run \in Run
      BY Fields
    <2>1. /\ drv' = [drv EXCEPT ![p] = v]
          /\ row' = [row EXCEPT ![u.run] = w] /\ UNCHANGED <<took, again, crashes>>
      BY <1>6 DEF Close
    <2>2. v.pc = "idle" /\ v.run = u.run
      BY DEF Driver
    <2>3. w.status = status /\ w.cursor = row[u.run].cursor /\ w.outs = row[u.run].outs
      BY RunRowFields
    <2> HIDE DEF v, w
    <2>4. \A q \in Proc : drv'[q] = IF q = p THEN v ELSE drv[q]
      BY <2>1, DriversMove
    <2>5. CASE u.run # r
      <3>1. row'[r] = row[r]
        BY <1>b, <2>1, <2>5
      <3>2. \A q \in Proc : Drives(q, r) \/ Drives(q, r)' => drv'[q] = drv[q]
        BY <2>2, <2>4, <2>5 DEF Drives
      <3> QED  BY <1>0, <1>c, <1>t, <2>1, <3>1, <3>2, OnceFrame
    <2>6. CASE u.run = r
      <3>1. row'[r] = w
        BY <1>b, <2>1, <2>6
      <3>2. Drives(p, r) /\ \A q \in Proc : Drives(q, r) => q = p
        BY <1>0, <1>6, <2>6 DEF OnceAt, Drives
      <3>3. \A q \in Proc : ~Drives(q, r)'
        BY <2>2, <2>4, <3>2 DEF Drives
      <3>4. Debt(r)' = Debt(r)
        BY <1>6, <2>1, <2>3, <2>6, <3>1, <3>2, <3>3 DEF Debt
      <3>5. row'[r].cursor = row[r].cursor /\ row'[r].outs = row[r].outs
            /\ row'[r].status # "none"
        BY <1>6, <2>3, <2>6, <3>1
      <3> HIDE DEF Debt
      <3> QED  BY <1>0, <1>c, <2>1, <3>3, <3>4, <3>5 DEF OnceAt
    <2> QED  BY <2>5, <2>6
  <1>7. ASSUME NEW p \in Proc, Crash(p) PROVE OnceAt(r)'
    <2> DEFINE u == drv[p]
               v == Driver("idle", u.run, u.def, u.i, u.outs)
    <2>1. /\ u.pc # "idle" /\ drv' = [drv EXCEPT ![p] = v] /\ crashes' = crashes + 1
          /\ UNCHANGED <<row, took, again>>
      BY <1>7 DEF Crash
    <2>2. v.pc = "idle" /\ v.run = u.run
      BY DEF Driver
    <2> HIDE DEF v
    <2>3. \A q \in Proc : drv'[q] = IF q = p THEN v ELSE drv[q]
      BY <2>1, DriversMove
    <2>4. CASE u.run # r
      <3>1. \A q \in Proc : Drives(q, r) \/ Drives(q, r)' => drv'[q] = drv[q]
        BY <2>2, <2>3, <2>4 DEF Drives
      <3> QED  BY <1>0, <1>c, <1>t, <2>1, <3>1, OnceFrame
    <2>5. CASE u.run = r
      <3>1. Drives(p, r) /\ \A q \in Proc : Drives(q, r) => q = p
        BY <1>0, <2>1, <2>5 DEF OnceAt, Drives
      <3>2. \A q \in Proc : ~Drives(q, r)'
        BY <2>2, <2>3, <3>1 DEF Drives
      <3>3. Debt(r) \in {0, 1} /\ Debt(r)' \in {0, 1}
        BY DEF Debt
      <3>4. again[r] + Debt(r) <= crashes
        BY <1>0 DEF OnceAt
      <3> HIDE DEF Debt
      <3>5. again'[r] + Debt(r)' <= crashes'
        BY <1>t, <2>1, <3>3, <3>4
      <3> QED  BY <1>0, <1>c, <2>1, <3>2, <3>5 DEF OnceAt
    <2> QED  BY <2>4, <2>5
  <1>8. CASE UNCHANGED vars
    <2>1. \A q \in Proc : Drives(q, r) \/ Drives(q, r)' => drv'[q] = drv[q]
      BY <1>8 DEF vars
    <2> QED  BY <1>0, <1>8, <1>t, <2>1, OnceFrame DEF vars
  <1> QED
    BY <1>a, <1>2, <1>3, <1>4, <1>5, <1>6, <1>7, <1>8
    DEF Next, UpdateWorkflow, SyncIn, RemoveWorkflow, Drive, Fail, Finish

\* As long as the definition is not edited.
Steady == edits = 0 => CursorBacked /\ Once

LEMMA SteadyStep == TypeOK /\ TypeOK' /\ OnlyValidRuns /\ Steady /\ [Next]_vars => Steady'
  <1> SUFFICES ASSUME TypeOK, TypeOK', OnlyValidRuns, Steady, [Next]_vars, edits' = 0
               PROVE  CursorBacked' /\ Once'
    BY DEF Steady
  <1>1. CursorBacked /\ Once
    BY NoEditYet DEF Steady
  <1> QED  BY <1>1, BackedStep, OnceStep

LEMMA AllInvariants == Spec => [](TypeOK /\ OnlyValidRuns /\ Steady)
  <1>1. Init => OnlyValidRuns
    <2> SUFFICES ASSUME Init, NEW p \in Proc PROVE drv[p].pc = "idle"
      BY DEF OnlyValidRuns
    <2> QED  BY InitIdle
  <1>2. Init => Steady
    BY BackedInit, OnceInit DEF Steady
  <1> QED  BY <1>1, <1>2, InitType, TypeStep, ValidStep, SteadyStep, PTL DEF Spec

\* However often a run dies between a step's effect and the save of its cursor
\* (drive, save_progress), and wherever it is resumed, a crash makes at most one step
\* take effect once more, as long as no second process joins the run and its
\* definition is not edited.
THEOREM OneRepeatPerCrash == Spec => []RepeatsOnlyByCrash
  <1>1. TypeOK /\ Steady => RepeatsOnlyByCrash
    <2> SUFFICES ASSUME TypeOK, Steady, edits = 0, NEW r \in Run \ joined
                 PROVE  again[r] <= crashes
      BY DEF RepeatsOnlyByCrash
    <2>1. again[r] + Debt(r) <= crashes
      BY DEF Steady, Once, OnceAt
    <2>2. again[r] \in Nat /\ crashes \in Nat /\ Debt(r) \in Nat
      BY DEF TypeOK, Debt
    <2> HIDE DEF Debt
    <2> QED  BY <2>1, <2>2
  <1> QED  BY <1>1, AllInvariants, PTL

\* When the one driver of a run closes it as done (drive, finish_run), every step of
\* its definition has left an output in the row, whatever died before.
THEOREM DoneHasAllOutputs == Spec => DoneMeansAll
  <1> DEFINE Whole(p) ==
               LET r == drv[p].run
               IN  (edits = 0 /\ r \notin joined /\ drv[p].pc = "ready" /\ drv'[p].pc = "idle"
                      /\ row[r].status # "done" /\ row'[r].status = "done")
                     => IdsUpTo(drv[p].def, NSteps(drv[p].def)) \subseteq row[r].outs
  <1>1. ASSUME TypeOK, OnlyValidRuns, Steady, [Next]_vars
        PROVE  [\A p \in Proc : Whole(p)]_vars
    <2> SUFFICES ASSUME NEW p \in Proc, edits = 0, drv[p].run \notin joined,
                        drv[p].pc = "ready", drv'[p].pc = "idle",
                        row[drv[p].run].status # "done", row'[drv[p].run].status = "done"
                 PROVE  IdsUpTo(drv[p].def, NSteps(drv[p].def)) \subseteq row[drv[p].run].outs
      OBVIOUS
    <2> DEFINE r == drv[p].run
    <2>0. r \in Run /\ drv[p].def \in Definition /\ drv[p].i \in Nat
      BY <1>1, Fields
    <2>1. Drives(p, r) /\ OnceAt(r) /\ CursorBacked
      BY <1>1, <2>0 DEF Drives, Steady, Once
    <2>2. Finish(p)
      <3>1. ASSUME NEW q \in Proc, q # p, Drive(q) \/ Crash(q) PROVE drv'[p] = drv[p]
        BY <3>1, <1>1 DEF Drive, Act, Save, Fail, Finish, Close, Crash, TypeOK
      <3>2. ASSUME NEW q \in Proc, NEW x \in Run, Start(q, x) \/ Resume(q, x)
            PROVE  drv'[p] = drv[p]
        <4>1. q # p
          BY <3>2 DEF Start, Resume
        <4> QED  BY <3>2, <4>1, <1>1 DEF Start, Resume, TypeOK
      <3>3. ~(UNCHANGED drv)
        OBVIOUS
      <3>4. Drive(p) \/ Crash(p)
        BY <1>1, <3>1, <3>2, <3>3
        DEF Next, UpdateWorkflow, SyncIn, RemoveWorkflow, Edit, vars
      <3>5. ~Crash(p) /\ ~Act(p) /\ ~Save(p)
        BY DEF Crash, Act, Save
      <3>6. ~Fail(p)
        <4> SUFFICES ASSUME Close(p, "failed") PROVE FALSE
          BY DEF Fail
        <4>1. row'[r] = RunRow("failed", row[r].cursor, row[r].outs)
          BY <1>1, <2>0, Fields DEF Close
        <4> QED  BY <4>1, RunRowFields
      <3> QED  BY <3>4, <3>5, <3>6 DEF Drive
    <2>3. drv[p].i >= NSteps(drv[p].def) /\ drv[p].i = row[r].cursor
      BY <2>1, <2>2 DEF Finish, OnceAt
    <2>4. Backed(drv[p].def, row[r].cursor, row[r].outs)
      BY <2>0, <2>1 DEF CursorBacked
    <2>5. row[r].cursor = NSteps(drv[p].def)
      BY <2>0, <2>3, <2>4, StepFacts DEF Backed
    <2> QED  BY <2>4, <2>5 DEF Backed
  <1>2. Spec => [][\A p \in Proc : Whole(p)]_vars
    <2> HIDE DEF Whole
    <2> QED  BY <1>1, AllInvariants, PTL DEF Spec
  <1> QED  BY <1>2 DEF DoneMeansAll
=============================================================================
