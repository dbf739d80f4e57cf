--------------------------- MODULE AgentRunProofs ---------------------------
(***************************************************************************)
(* Proofs about AgentRun, for any processes, tools, policies and bounds:   *)
(* type correctness, the consistency of the checkpoint, the tool gate and, *)
(* for one process alone with its run, how much the run executes;          *)
(* about the host of the chat, HostChat, for any requests and slots; and   *)
(* about the memories, MemoryScopes, for any devices and memories.         *)
(***************************************************************************)
EXTENDS AgentHost, FiniteSetTheorems, TLAPS

\* The process that may be the only one to drive the run.
CONSTANT Driver

Rows == [state : RunStates \cup {"absent"}, ended : BOOLEAN,
         step : Nat, ckpt : Messages]

\* The local state of the runs, one function per variable.
LocalOK ==
    /\ pc \in [Procs -> PCs]
    /\ mode \in [Procs -> {"loop", "fast", "direct"}]
    /\ step \in [Procs -> Nat]
    /\ msgs \in [Procs -> Messages]
    /\ retries \in [Procs -> Nat]
    /\ call \in [Procs -> Tools \cup {Unknown}]
    /\ plan \in [Procs -> Seq(Tools)]
    /\ cancelled \in [Procs -> BOOLEAN]
    /\ seen \in [Procs -> [Perms -> Policies]]
    /\ how \in [Procs -> {"none", "allowed", "granted"}]
    /\ since \in [Procs -> Nat]

GlobalOK ==
    /\ row \in Rows
    /\ begun \in BOOLEAN
    /\ policy \in [Perms -> Policies]
    /\ resumes \in 0..MaxResumes /\ edits \in 0..MaxEdits /\ lost \in 0..MaxLost
    /\ done \in Nat

LEMMA TypeParts == TypeOK <=> LocalOK /\ GlobalOK
  BY DEF TypeOK, LocalOK, GlobalOK, Rows

LEMMA TypePartsNext == LocalOK' /\ GlobalOK' => TypeOK'
  BY DEF TypeOK, LocalOK, GlobalOK, Rows

LEMMA MsgsType ==
  ASSUME NEW i \in BOOLEAN, NEW o \in Nat, NEW f \in Nat
  PROVE  Msgs(i, o, f) \in Messages
  BY DEF Msgs, Messages

LEMMA MsgsFields ==
  ASSUME NEW m \in Messages
  PROVE  m.input \in BOOLEAN /\ m.obs \in Nat /\ m.fixes \in Nat
  BY DEF Messages

LEMMA NoMsgsType == NoMsgs \in Messages
  BY MsgsType DEF NoMsgs

LEMMA RowType ==
  ASSUME NEW st \in RunStates \cup {"absent"}, NEW e \in BOOLEAN,
         NEW s \in Nat, NEW c \in Messages
  PROVE  Row(st, e, s, c) \in Rows
  BY DEF Row, Rows

LEMMA RowFields ==
  ASSUME NEW r \in Rows
  PROVE  /\ r.state \in RunStates \cup {"absent"} /\ r.ended \in BOOLEAN
         /\ r.step \in Nat /\ r.ckpt \in Messages
  BY DEF Rows

\* Whatever the fate of a write, the row keeps its type.
LEMMA StoreType ==
  ASSUME TypeOK, NEW r \in Rows, Store(r)
  PROVE  row' \in Rows /\ lost' \in 0..MaxLost
  <1>1. row \in Rows /\ lost \in 0..MaxLost
    BY TypeParts DEF GlobalOK
  <1>2. CASE row' = r /\ lost' = lost
    BY <1>1, <1>2
  <1>3. CASE lost < MaxLost /\ lost' = lost + 1 /\ row' = row
    BY <1>1, <1>3, BoundsAssumption
  <1> QED
    BY <1>2, <1>3 DEF Store

LEMMA FinishType ==
  ASSUME TypeOK, NEW st \in RunStates, finish(st)
  PROVE  row' \in Rows /\ lost' \in 0..MaxLost
  <1> DEFINE r == IF HasRow THEN Row(st, TRUE, row.step, row.ckpt) ELSE row
  <1>1. row \in Rows
    BY TypeParts DEF GlobalOK
  <1>2. Row(st, TRUE, row.step, row.ckpt) \in Rows
    BY <1>1, RowFields, RowType
  <1>3. r \in Rows
    BY <1>1, <1>2
  <1>4. Store(r)
    BY DEF finish
  <1> HIDE DEF r
  <1> QED
    BY <1>3, <1>4, StoreType

LEMMA LeaveType ==
  ASSUME TypeOK, NEW p \in Procs, Leave(p)
  PROVE  LocalOK'
  <1>1. LocalOK
    BY TypeParts
  <1>2. Unread \in [Perms -> Policies]
    BY DEF Unread, Policies
  <1>3. pc' \in [Procs -> PCs]
    BY <1>1 DEF LocalOK, Leave, Go, PCs
  <1>4. msgs' \in [Procs -> Messages]
    BY <1>1, NoMsgsType DEF LocalOK, Leave
  <1>5. seen' \in [Procs -> [Perms -> Policies]]
    BY <1>1, <1>2 DEF LocalOK, Leave
  <1>6. plan' \in [Procs -> Seq(Tools)]
    BY <1>1 DEF LocalOK, Leave
  <1> QED
    BY <1>1, <1>3, <1>4, <1>5, <1>6 DEF LocalOK, Leave

\* A run that ends keeps every type.
LEMMA FinishRunType ==
  ASSUME TypeOK, NEW p \in Procs, NEW st \in RunStates, finish_run(p, st),
         UNCHANGED <<envVars, done>>
  PROVE  TypeOK'
  <1>1. row' \in Rows /\ lost' \in 0..MaxLost
    BY FinishType DEF finish_run
  <1>2. LocalOK'
    BY LeaveType DEF finish_run
  <1>3. GlobalOK'
    BY <1>1, TypeParts DEF GlobalOK, envVars
  <1> QED
    BY <1>2, <1>3, TypePartsNext

LEMMA ObserveType ==
  ASSUME TypeOK, NEW p \in Procs, NEW isErr \in BOOLEAN, NEW ran \in {0, 1},
         Observe(p, isErr, ran)
  PROVE  TypeOK'
  <1>1. LocalOK /\ GlobalOK
    BY TypeParts
  <1>2. CASE /\ mode[p] = "loop"
             /\ msgs' = [msgs EXCEPT ![p] =
                          Msgs(msgs[p].input, msgs[p].obs + 1, msgs[p].fixes)]
             /\ step' = [step EXCEPT ![p] = step[p] + 1]
             /\ done' = done + ran
             /\ since' = [since EXCEPT ![p] =
                           IF cancelled[p] THEN since[p] + ran ELSE since[p]]
             /\ Go(p, "top")
             /\ UNCHANGED <<rowVars, mode, retries, callVars, cancelled, envVars>>
    <2>1. Msgs(msgs[p].input, msgs[p].obs + 1, msgs[p].fixes) \in Messages
      <3>1. msgs[p] \in Messages
        BY <1>1 DEF LocalOK
      <3>2. /\ msgs[p].input \in BOOLEAN /\ msgs[p].obs + 1 \in Nat
            /\ msgs[p].fixes \in Nat
        BY <3>1, MsgsFields
      <3> QED
        BY <3>2, MsgsType
    <2>2. msgs' \in [Procs -> Messages]
      BY <1>1, <1>2, <2>1 DEF LocalOK
    <2>3. since' \in [Procs -> Nat] /\ step' \in [Procs -> Nat] /\ done' \in Nat
      BY <1>1, <1>2 DEF LocalOK, GlobalOK
    <2>4. pc' \in [Procs -> PCs]
      BY <1>1, <1>2 DEF LocalOK, Go, PCs
    <2>5. LocalOK'
      BY <1>1, <1>2, <2>2, <2>3, <2>4 DEF LocalOK, callVars
    <2>6. GlobalOK'
      BY <1>1, <1>2, <2>3 DEF GlobalOK, rowVars, envVars
    <2> QED
      BY <2>5, <2>6, TypePartsNext
  <1>3. CASE finish_run(p, "completed") /\ UNCHANGED <<done, envVars>>
    <2>1. "completed" \in RunStates
      BY DEF RunStates
    <2>2. UNCHANGED <<envVars, done>>
      BY <1>3
    <2> QED
      BY <1>3, <2>1, <2>2, FinishRunType
  <1>4. CASE /\ plan[p] # <<>>
             /\ call' = [call EXCEPT ![p] = Head(plan[p])]
             /\ plan' = [plan EXCEPT ![p] = Tail(plan[p])]
             /\ Go(p, "gate")
             /\ UNCHANGED <<rowVars, mode, step, msgs, retries, seen, how,
                            cancelled, since, done, envVars>>
    <2>1. plan[p] \in Seq(Tools)
      BY <1>1 DEF LocalOK
    <2>2. Head(plan[p]) \in Tools /\ Tail(plan[p]) \in Seq(Tools)
      BY <2>1, <1>4
    <2>3. call' \in [Procs -> Tools \cup {Unknown}] /\ plan' \in [Procs -> Seq(Tools)]
      BY <1>1, <1>4, <2>2 DEF LocalOK
    <2>4. pc' \in [Procs -> PCs]
      BY <1>1, <1>4 DEF LocalOK, Go, PCs
    <2>5. LocalOK'
      BY <1>1, <1>4, <2>3, <2>4 DEF LocalOK
    <2>6. GlobalOK'
      BY <1>1, <1>4 DEF GlobalOK, rowVars, envVars
    <2> QED
      BY <2>5, <2>6, TypePartsNext
  <1>5. CASE Leave(p) /\ UNCHANGED <<rowVars, done, envVars>>
    <2>1. LocalOK'
      BY <1>5, LeaveType
    <2>2. GlobalOK'
      BY <1>1, <1>5 DEF GlobalOK, rowVars, envVars
    <2> QED
      BY <2>1, <2>2, TypePartsNext
  <1> QED
    BY <1>2, <1>3, <1>4, <1>5 DEF Observe


LEMMA InitType == Init => TypeOK
  <1> SUFFICES ASSUME Init PROVE TypeOK
    OBVIOUS
  <1>1. NoRow \in Rows
    BY NoMsgsType, RowType DEF NoRow
  <1>2. Unread \in [Perms -> Policies]
    BY DEF Unread, Policies
  <1>c. resumes \in 0..MaxResumes /\ edits \in 0..MaxEdits /\ lost \in 0..MaxLost
    BY BoundsAssumption DEF Init
  <1>r. row \in Rows
    BY <1>1 DEF Init
  <1>3. GlobalOK
    BY <1>c, <1>r DEF Init, GlobalOK
  <1>4. plan \in [Procs -> Seq(Tools)]
    BY DEF Init
  <1>5. msgs \in [Procs -> Messages]
    BY NoMsgsType DEF Init
  <1>6. LocalOK
    BY <1>2, <1>4, <1>5 DEF Init, LocalOK, PCs
  <1> QED
    BY <1>3, <1>6, TypeParts

LEMMA StepType == TypeOK /\ [Next]_vars => TypeOK'
  <1> SUFFICES ASSUME TypeOK, [Next]_vars PROVE TypeOK'
    OBVIOUS
  <1>p. LocalOK /\ GlobalOK
    BY TypeParts
  <1>s. {"completed", "failed", "timed_out", "cancelled"} \subseteq RunStates
    BY DEF RunStates
  <1>1. ASSUME NEW p \in Procs, Begin(p) PROVE TypeOK'
    <2>1. Row("running", FALSE, 0, NoMsgs) \in Rows
      BY RowType, NoMsgsType DEF RunStates
    <2>2. row' \in Rows /\ lost' \in 0..MaxLost
      BY <1>1, <2>1, StoreType DEF Begin, begin
    <2>3. LocalOK'
      BY <1>p, <1>1 DEF Begin, LocalOK, Go, PCs, callVars
    <2>4. GlobalOK'
      BY <1>p, <1>1, <2>2 DEF Begin, GlobalOK
    <2> QED
      BY <2>3, <2>4, TypePartsNext
  <1>2. ASSUME NEW p \in Procs, Compose(p) PROVE TypeOK'
    <2>1. Msgs(TRUE, 0, 0) \in Messages
      BY MsgsType
    <2>2. LocalOK'
      BY <1>p, <1>2, <2>1 DEF Compose, LocalOK, Go, PCs, callVars
    <2>3. GlobalOK'
      BY <1>p, <1>2 DEF Compose, GlobalOK, rowVars
    <2> QED
      BY <2>2, <2>3, TypePartsNext
  <1>3. ASSUME NEW p \in Procs, FastPath(p) PROVE TypeOK'
    <2>1. UNCHANGED <<envVars, done>>
      BY <1>3 DEF FastPath
    <2>2. CASE finish_run(p, "completed")
      BY <2>1, <2>2, <1>s, FinishRunType
    <2>3. ASSUME NEW pl \in FastPlans, pl # <<>>,
                 mode' = [mode EXCEPT ![p] = "fast"],
                 call' = [call EXCEPT ![p] = Head(pl)],
                 plan' = [plan EXCEPT ![p] = Tail(pl)],
                 Go(p, "gate"),
                 UNCHANGED <<rowVars, step, msgs, retries, seen, how, cancelled,
                             since>>
          PROVE  TypeOK'
      <3>1. Head(pl) \in Tools /\ Tail(pl) \in Seq(Tools)
        BY <2>3, PlansAssumption
      <3>2. call' \in [Procs -> Tools \cup {Unknown}] /\ plan' \in [Procs -> Seq(Tools)]
        BY <1>p, <2>3, <3>1 DEF LocalOK
      <3>3. pc' \in [Procs -> PCs] /\ mode' \in [Procs -> {"loop", "fast", "direct"}]
        BY <1>p, <2>3 DEF LocalOK, Go, PCs
      <3>4. LocalOK'
        BY <1>p, <2>3, <3>2, <3>3 DEF LocalOK
      <3>5. GlobalOK'
        BY <1>p, <2>1, <2>3 DEF GlobalOK, rowVars, envVars
      <3> QED
        BY <3>4, <3>5, TypePartsNext
    <2> QED
      BY <1>3, <2>2, <2>3 DEF FastPath
  <1>4. ASSUME NEW p \in Procs, Resume(p) PROVE TypeOK'
    <2>1. row.step \in Nat /\ row.ckpt \in Messages
      BY <1>p, RowFields DEF GlobalOK
    <2>2. LocalOK'
      BY <1>p, <1>4, <2>1 DEF Resume, LocalOK, Go, PCs, callVars
    <2>3. GlobalOK'
      BY <1>p, <1>4, BoundsAssumption DEF Resume, GlobalOK, rowVars
    <2> QED
      BY <2>2, <2>3, TypePartsNext
  <1>5. CASE Abandon
    <2>1. row.step \in Nat /\ row.ckpt \in Messages
      BY <1>p, RowFields DEF GlobalOK
    <2>2. row' \in Rows
      BY <1>5, <2>1, RowType DEF Abandon, RunStates
    <2>3. LocalOK' /\ GlobalOK'
      BY <1>p, <1>5, <2>2 DEF Abandon, LocalOK, GlobalOK, callVars
    <2> QED
      BY <2>3, TypePartsNext
  <1>6. ASSUME NEW p \in Procs, Crash(p) PROVE TypeOK'
    <2>1. LocalOK'
      BY <1>6, LeaveType DEF Crash
    <2>2. GlobalOK'
      BY <1>p, <1>6 DEF Crash, GlobalOK, rowVars, envVars
    <2> QED
      BY <2>1, <2>2, TypePartsNext
  <1>7. ASSUME NEW p \in Procs, StopCancelled(p) PROVE TypeOK'
    BY <1>7, <1>s, FinishRunType DEF StopCancelled
  <1>8. ASSUME NEW p \in Procs, Checkpoint(p) PROVE TypeOK'
    <2> DEFINE r == IF HasRow THEN Row("running", row.ended, step[p], msgs[p])
                    ELSE row
    <2>1. row.ended \in BOOLEAN /\ step[p] \in Nat /\ msgs[p] \in Messages
      BY <1>p, RowFields DEF GlobalOK, LocalOK
    <2>2. Row("running", row.ended, step[p], msgs[p]) \in Rows
      BY <2>1, RowType DEF RunStates
    <2>3. r \in Rows
      BY <1>p, <2>2 DEF GlobalOK
    <2>4. Store(r)
      BY <1>8 DEF Checkpoint, checkpoint
    <2> HIDE DEF r
    <2>5. row' \in Rows /\ lost' \in 0..MaxLost
      BY <2>3, <2>4, StoreType
    <2>6. LocalOK'
      BY <1>p, <1>8 DEF Checkpoint, LocalOK, Go, PCs, runVars, callVars
    <2>7. GlobalOK'
      BY <1>p, <1>8, <2>5 DEF Checkpoint, GlobalOK, envVars
    <2> QED
      BY <2>6, <2>7, TypePartsNext
  <1>9. ASSUME NEW p \in Procs, OutOfSteps(p) PROVE TypeOK'
    BY <1>9, <1>s, FinishRunType DEF OutOfSteps
  <1>10. ASSUME NEW p \in Procs, ModelFails(p) PROVE TypeOK'
    BY <1>10, <1>s, FinishRunType DEF ModelFails
  <1>11. ASSUME NEW p \in Procs, ModelMalformed(p) PROVE TypeOK'
    <2>1. msgs[p] \in Messages
      BY <1>p DEF LocalOK
    <2>2. Msgs(msgs[p].input, msgs[p].obs, msgs[p].fixes + 1) \in Messages
      <3>1. /\ msgs[p].input \in BOOLEAN /\ msgs[p].obs \in Nat
            /\ msgs[p].fixes + 1 \in Nat
        BY <2>1, MsgsFields
      <3> QED  BY <3>1, MsgsType
    <2>3. msgs' \in [Procs -> Messages]
      BY <1>p, <1>11, <2>2 DEF LocalOK, ModelMalformed
    <2>4. retries' \in [Procs -> Nat]
      BY <1>p, <1>11 DEF LocalOK, ModelMalformed
    <2>5. LocalOK'
      BY <1>p, <1>11, <2>3, <2>4 DEF ModelMalformed, LocalOK, Go, PCs, callVars
    <2>6. GlobalOK'
      BY <1>p, <1>11 DEF ModelMalformed, GlobalOK, rowVars
    <2> QED
      BY <2>5, <2>6, TypePartsNext
  <1>12. ASSUME NEW p \in Procs, ModelFinal(p) PROVE TypeOK'
    BY <1>12, <1>s, FinishRunType DEF ModelFinal
  <1>13. ASSUME NEW p \in Procs, ModelCalls(p) PROVE TypeOK'
    <2>1. LocalOK'
      BY <1>p, <1>13 DEF ModelCalls, LocalOK, Go, PCs
    <2>2. GlobalOK'
      BY <1>p, <1>13 DEF ModelCalls, GlobalOK, rowVars
    <2> QED
      BY <2>1, <2>2, TypePartsNext
  <1>14. ASSUME NEW p \in Procs, Direct(p) PROVE TypeOK'
    <2>1. LocalOK'
      BY <1>p, <1>14 DEF Direct, LocalOK, Go, PCs
    <2>2. GlobalOK'
      BY <1>p, <1>14 DEF Direct, GlobalOK, rowVars
    <2> QED
      BY <2>1, <2>2, TypePartsNext
  <1>15. ASSUME NEW p \in Procs, Refuse(p) PROVE TypeOK'
    BY <1>15, ObserveType DEF Refuse
  <1>16. ASSUME NEW p \in Procs, Gate(p) PROVE TypeOK'
    <2>1. LocalOK'
      BY <1>p, <1>16 DEF Gate, LocalOK, GlobalOK, Go, PCs
    <2>2. GlobalOK'
      BY <1>p, <1>16 DEF Gate, GlobalOK, rowVars
    <2> QED
      BY <2>1, <2>2, TypePartsNext
  <1>17. ASSUME NEW p \in Procs, Grant(p) PROVE TypeOK'
    <2>1. LocalOK'
      BY <1>p, <1>17 DEF Grant, LocalOK, Go, PCs
    <2>2. GlobalOK'
      BY <1>p, <1>17 DEF Grant, GlobalOK, rowVars
    <2> QED
      BY <2>1, <2>2, TypePartsNext
  <1>18. ASSUME NEW p \in Procs, DenyCall(p) PROVE TypeOK'
    BY <1>18, ObserveType DEF DenyCall
  <1>19. ASSUME NEW p \in Procs, Execute(p) PROVE TypeOK'
    BY <1>19, ObserveType DEF Execute
  <1>20. ASSUME NEW p \in Procs, Cancel(p) PROVE TypeOK'
    <2>1. LocalOK'
      BY <1>p, <1>20 DEF Cancel, LocalOK, callVars
    <2>2. GlobalOK'
      BY <1>p, <1>20 DEF Cancel, GlobalOK, rowVars
    <2> QED
      BY <2>1, <2>2, TypePartsNext
  <1>21. CASE SetPolicy
    <2>1. policy' \in [Perms -> Policies] /\ edits' \in 0..MaxEdits
      BY <1>p, <1>21, BoundsAssumption DEF SetPolicy, GlobalOK
    <2>2. LocalOK' /\ GlobalOK'
      BY <1>p, <1>21, <2>1 DEF SetPolicy, LocalOK, GlobalOK, rowVars, callVars
    <2> QED
      BY <2>2, TypePartsNext
  <1>22. CASE UNCHANGED vars
    BY <1>p, <1>22, TypePartsNext DEF vars, LocalOK, GlobalOK
  <1> QED
    BY <1>1, <1>2, <1>3, <1>4, <1>5, <1>6, <1>7, <1>8, <1>9, <1>10, <1>11,
       <1>12, <1>13, <1>14, <1>15, <1>16, <1>17, <1>18, <1>19, <1>20, <1>21,
       <1>22 DEF Next, Drive

\* Every reachable state is well typed: the retry budget, for one, never goes
\* below zero, and a call's name is a registered tool or the model's invention.
THEOREM TypeCorrect == Spec => []TypeOK
  BY InitType, StepType, PTL DEF Spec

---------------------------------------------------------------------------
(* The checkpoint.  In memory and in the row, the step counter is the       *)
(* number of observations among the messages.                               *)

Sound(r) == r.step = r.ckpt.obs /\ r.step < MaxSteps

Counted(p) ==
    /\ step[p] = msgs[p].obs
    /\ pc[p] \in {"idle", "compose"} => step[p] = 0

StepInv == Sound(row) /\ \A p \in Procs : Counted(p)

LEMMA RowSteps ==
  ASSUME NEW st, NEW e, NEW s, NEW c
  PROVE  Row(st, e, s, c).step = s /\ Row(st, e, s, c).ckpt = c
  BY DEF Row

LEMMA MsgsObs ==
  ASSUME NEW i, NEW o, NEW f
  PROVE  Msgs(i, o, f).obs = o
  BY DEF Msgs

LEMMA NoMsgsSound == NoMsgs.obs = 0
  BY MsgsObs DEF NoMsgs

LEMMA StoreSound ==
  ASSUME Sound(row), NEW r, Sound(r), Store(r)
  PROVE  Sound(row)'
  BY DEF Store, Sound

LEMMA FinishSound ==
  ASSUME Sound(row), NEW st, finish(st)
  PROVE  Sound(row)'
  <1> DEFINE r == IF HasRow THEN Row(st, TRUE, row.step, row.ckpt) ELSE row
  <1>1. Sound(Row(st, TRUE, row.step, row.ckpt))
    BY DEF Sound, Row
  <1>2. Sound(r)
    BY <1>1
  <1>3. Store(r)
    BY DEF finish
  <1> HIDE DEF r
  <1> QED
    BY <1>2, <1>3, StoreSound

LEMMA LeaveSteps ==
  ASSUME TypeOK, StepInv, NEW p \in Procs, Leave(p)
  PROVE  \A q \in Procs : Counted(q)'
  <1>1. /\ step \in [Procs -> Nat] /\ msgs \in [Procs -> Messages]
        /\ pc \in [Procs -> PCs]
    BY DEF TypeOK
  <1>2. ASSUME NEW q \in Procs, q # p PROVE Counted(q)'
    BY <1>1, <1>2 DEF Leave, Go, StepInv, Counted
  <1>3. Counted(p)'
    BY <1>1, NoMsgsSound DEF Leave, Counted
  <1> QED
    BY <1>2, <1>3

LEMMA FinishRunSteps ==
  ASSUME TypeOK, StepInv, NEW p \in Procs, NEW st, finish_run(p, st)
  PROVE  StepInv'
  <1>1. Sound(row)'
    BY FinishSound DEF finish_run, StepInv
  <1>2. \A q \in Procs : Counted(q)'
    BY LeaveSteps DEF finish_run
  <1> QED
    BY <1>1, <1>2 DEF StepInv

LEMMA SameSteps ==
  ASSUME TypeOK, StepInv, UNCHANGED <<row, step, msgs>>,
         \/ pc' = pc
         \/ \E p \in Procs, w \in PCs \ {"idle", "compose"} : Go(p, w)
  PROVE  StepInv'
  <1>1. pc \in [Procs -> PCs]
    BY DEF TypeOK
  <1>2. ASSUME NEW q \in Procs PROVE Counted(q)'
    BY <1>1 DEF StepInv, Counted, Go
  <1> QED
    BY <1>2 DEF StepInv, Sound

LEMMA ObserveSteps ==
  ASSUME TypeOK, StepInv, NEW p \in Procs, NEW isErr, NEW ran,
         Observe(p, isErr, ran)
  PROVE  StepInv'
  <1>1. /\ step \in [Procs -> Nat] /\ msgs \in [Procs -> Messages]
        /\ pc \in [Procs -> PCs]
    BY DEF TypeOK
  <1>2. ASSUME msgs' = [msgs EXCEPT ![p] =
                          Msgs(msgs[p].input, msgs[p].obs + 1, msgs[p].fixes)],
               step' = [step EXCEPT ![p] = step[p] + 1],
               Go(p, "top"),
               UNCHANGED rowVars
        PROVE  StepInv'
    <2>1. ASSUME NEW q \in Procs PROVE Counted(q)'
      <3>1. CASE q = p
        <4>1. msgs'[q].obs = msgs[p].obs + 1
          BY <1>1, <1>2, <3>1, MsgsObs
        <4>2. step'[q] = step[p] + 1
          BY <1>1, <1>2, <3>1
        <4>3. pc'[q] = "top"
          BY <1>1, <1>2, <3>1 DEF Go
        <4> QED
          BY <4>1, <4>2, <4>3 DEF StepInv, Counted
      <3>2. CASE q # p
        BY <1>1, <1>2, <3>2 DEF StepInv, Counted, Go
      <3> QED
        BY <3>1, <3>2
    <2> QED
      BY <1>2, <2>1 DEF StepInv, Sound, rowVars
  <1>3. ASSUME finish_run(p, "completed") PROVE StepInv'
    BY <1>3, FinishRunSteps
  <1>4. ASSUME UNCHANGED <<rowVars, step, msgs>>, Go(p, "gate") PROVE StepInv'
    BY <1>4, SameSteps DEF rowVars, PCs
  <1>5. ASSUME Leave(p), UNCHANGED rowVars PROVE StepInv'
    BY <1>5, LeaveSteps DEF rowVars, StepInv, Sound
  <1> QED
    BY <1>2, <1>3, <1>4, <1>5 DEF Observe

LEMMA InitSteps == Init => StepInv
  <1> SUFFICES ASSUME Init PROVE StepInv
    OBVIOUS
  <1>1. row.step = 0 /\ row.ckpt = NoMsgs
    BY DEF Init, NoRow, Row
  <1>2. Sound(row)
    BY <1>1, NoMsgsSound, StepsAssumption DEF Sound
  <1> QED
    BY <1>2, NoMsgsSound DEF Init, StepInv, Counted

LEMMA StepSteps == TypeOK /\ StepInv /\ [Next]_vars => StepInv'
  <1> SUFFICES ASSUME TypeOK, StepInv, [Next]_vars PROVE StepInv'
    OBVIOUS
  <1>t. /\ step \in [Procs -> Nat] /\ msgs \in [Procs -> Messages]
        /\ pc \in [Procs -> PCs]
    BY DEF TypeOK
  <1>1. ASSUME NEW p \in Procs, Begin(p) PROVE StepInv'
    <2>1. Sound(Row("running", FALSE, 0, NoMsgs))
      BY NoMsgsSound, StepsAssumption DEF Sound, Row
    <2>2. Sound(row)'
      BY <1>1, <2>1, StoreSound DEF Begin, begin, StepInv
    <2>3. ASSUME NEW q \in Procs PROVE Counted(q)'
      BY <1>t, <1>1 DEF Begin, Go, StepInv, Counted
    <2> QED
      BY <2>2, <2>3 DEF StepInv
  <1>2. ASSUME NEW p \in Procs, Compose(p) PROVE StepInv'
    <2>1. ASSUME NEW q \in Procs PROVE Counted(q)'
      BY <1>t, <1>2 DEF Compose, Go, StepInv, Counted, Msgs
    <2> QED
      BY <1>2, <2>1 DEF Compose, StepInv, Sound, rowVars
  <1>3. ASSUME NEW p \in Procs, FastPath(p) PROVE StepInv'
    <2>1. CASE finish_run(p, "completed")
      BY <2>1, FinishRunSteps
    <2>2. CASE UNCHANGED <<rowVars, step, msgs>> /\ Go(p, "gate")
      BY <2>2, SameSteps DEF rowVars, PCs
    <2> QED
      BY <1>3, <2>1, <2>2 DEF FastPath
  <1>4. ASSUME NEW p \in Procs, Resume(p) PROVE StepInv'
    <2>1. ASSUME NEW q \in Procs PROVE Counted(q)'
      BY <1>t, <1>4 DEF Resume, Go, StepInv, Sound, Counted
    <2> QED
      BY <1>4, <2>1 DEF Resume, StepInv, Sound, rowVars
  <1>5. CASE Abandon
    <2>1. row'.step = row.step /\ row'.ckpt = row.ckpt
      BY <1>5 DEF Abandon, Row
    <2> QED
      BY <1>5, <2>1 DEF Abandon, StepInv, Sound, Counted
  <1>6. ASSUME NEW p \in Procs, Crash(p) PROVE StepInv'
    BY <1>6, LeaveSteps DEF Crash, rowVars, StepInv, Sound
  <1>7. ASSUME NEW p \in Procs, StopCancelled(p) PROVE StepInv'
    BY <1>7, FinishRunSteps DEF StopCancelled
  <1>8. ASSUME NEW p \in Procs, Checkpoint(p) PROVE StepInv'
    <2> DEFINE r == IF HasRow THEN Row("running", row.ended, step[p], msgs[p])
                    ELSE row
    <2>1. Sound(Row("running", row.ended, step[p], msgs[p]))
      BY <1>8, RowSteps DEF Sound, StepInv, Checkpoint, Counted
    <2>2. Sound(r)
      BY <2>1 DEF StepInv
    <2>3. Store(r)
      BY <1>8 DEF Checkpoint, checkpoint
    <2> HIDE DEF r
    <2>4. Sound(row)'
      BY <2>2, <2>3, StoreSound DEF StepInv
    <2>5. ASSUME NEW q \in Procs PROVE Counted(q)'
      BY <1>t, <1>8 DEF Checkpoint, Go, StepInv, runVars, Counted
    <2> QED
      BY <2>4, <2>5 DEF StepInv
  <1>9. ASSUME NEW p \in Procs, OutOfSteps(p) PROVE StepInv'
    BY <1>9, FinishRunSteps DEF OutOfSteps
  <1>10. ASSUME NEW p \in Procs, ModelFails(p) PROVE StepInv'
    BY <1>10, FinishRunSteps DEF ModelFails
  <1>11. ASSUME NEW p \in Procs, ModelMalformed(p) PROVE StepInv'
    <2>1. \A q \in Procs : msgs'[q].obs = msgs[q].obs
      BY <1>t, <1>11, MsgsObs DEF ModelMalformed
    <2>2. ASSUME NEW q \in Procs PROVE Counted(q)'
      BY <1>t, <1>11, <2>1 DEF ModelMalformed, Go, StepInv, Counted
    <2> QED
      BY <1>11, <2>2 DEF ModelMalformed, StepInv, Sound, rowVars
  <1>12. ASSUME NEW p \in Procs, ModelFinal(p) PROVE StepInv'
    BY <1>12, FinishRunSteps DEF ModelFinal
  <1>13. ASSUME NEW p \in Procs, ModelCalls(p) PROVE StepInv'
    BY <1>13, SameSteps DEF ModelCalls, rowVars, PCs
  <1>14. ASSUME NEW p \in Procs, Direct(p) PROVE StepInv'
    BY <1>14, SameSteps DEF Direct, rowVars, PCs
  <1>15. ASSUME NEW p \in Procs, Refuse(p) PROVE StepInv'
    BY <1>15, ObserveSteps DEF Refuse
  <1>16. ASSUME NEW p \in Procs, Gate(p) PROVE StepInv'
    BY <1>16, SameSteps DEF Gate, rowVars, PCs
  <1>17. ASSUME NEW p \in Procs, Grant(p) PROVE StepInv'
    BY <1>17, SameSteps DEF Grant, rowVars, PCs
  <1>18. ASSUME NEW p \in Procs, DenyCall(p) PROVE StepInv'
    BY <1>18, ObserveSteps DEF DenyCall
  <1>19. ASSUME NEW p \in Procs, Execute(p) PROVE StepInv'
    BY <1>19, ObserveSteps DEF Execute
  <1>20. ASSUME NEW p \in Procs, Cancel(p) PROVE StepInv'
    BY <1>20, SameSteps DEF Cancel, rowVars
  <1>21. CASE SetPolicy
    BY <1>21, SameSteps DEF SetPolicy, rowVars
  <1>22. CASE UNCHANGED vars
    BY <1>22, SameSteps DEF vars
  <1> QED
    BY <1>1, <1>2, <1>3, <1>4, <1>5, <1>6, <1>7, <1>8, <1>9, <1>10, <1>11,
       <1>12, <1>13, <1>14, <1>15, <1>16, <1>17, <1>18, <1>19, <1>20, <1>21,
       <1>22 DEF Next, Drive

\* Whatever processes drive, resume, abandon or lose the run, and whatever
\* writes fail, the stored step and the stored messages belong together.
THEOREM CheckpointIsConsistent == Spec => []CheckpointMatchesStep
  <1>1. StepInv => CheckpointMatchesStep
    BY DEF StepInv, Sound, CheckpointMatchesStep
  <1> QED
    BY <1>1, InitType, StepType, InitSteps, StepSteps, PTL DEF Spec

---------------------------------------------------------------------------
(* The tool gate.  What decide saw is kept in `seen' until the call is over. *)

Listable(p) ==
    /\ call[p] \in Tools
    /\ mode[p] = "direct" \/ Allowlist[p] = {} \/ call[p] \in Allowlist[p]

GateOf(p) ==
    /\ pc[p] \in {"asked", "exec"} => Listable(p)
    /\ pc[p] = "asked" =>
          \A q \in Needs[call[p]] : seen[p][q] \in {"always", "ask"}
    /\ pc[p] = "exec" =>
          \A q \in Needs[call[p]] :
             \/ seen[p][q] = "always"
             \/ seen[p][q] = "ask" /\ how[p] = "granted"

GateInv == \A p \in Procs : GateOf(p)

\* Process p is not waiting at, or past, the gate after the step, and the
\* step leaves every other process alone.
Elsewhere(p) ==
    /\ pc'[p] \notin {"asked", "exec"}
    /\ \A q \in Procs \ {p} :
          /\ pc'[q] = pc[q] /\ mode'[q] = mode[q] /\ call'[q] = call[q]
          /\ seen'[q] = seen[q] /\ how'[q] = how[q]

LEMMA OthersGate ==
  ASSUME GateInv, NEW q \in Procs,
         pc'[q] = pc[q], mode'[q] = mode[q], call'[q] = call[q],
         seen'[q] = seen[q], how'[q] = how[q]
  PROVE  GateOf(q)'
  <1>1. GateOf(q)
    BY DEF GateInv
  <1> QED
    BY <1>1 DEF GateOf, Listable

LEMMA ElsewhereGate ==
  ASSUME GateInv, NEW p \in Procs, Elsewhere(p)
  PROVE  GateInv'
  <1>1. GateOf(p)'
    BY DEF Elsewhere, GateOf
  <1>2. ASSUME NEW q \in Procs, q # p PROVE GateOf(q)'
    BY <1>2, OthersGate DEF Elsewhere
  <1> QED
    BY <1>1, <1>2 DEF GateInv

LEMMA LeaveGate ==
  ASSUME TypeOK, GateInv, NEW p \in Procs, Leave(p)
  PROVE  GateInv'
  <1>1. Elsewhere(p)
    BY DEF TypeOK, Leave, Go, Elsewhere
  <1> QED
    BY <1>1, ElsewhereGate

LEMMA ObserveGate ==
  ASSUME TypeOK, GateInv, NEW p \in Procs, NEW isErr, NEW ran,
         Observe(p, isErr, ran)
  PROVE  GateInv'
  <1>t. pc \in [Procs -> PCs] /\ call \in [Procs -> Tools \cup {Unknown}]
    BY DEF TypeOK
  <1>1. CASE Leave(p)
    BY <1>1, LeaveGate
  <1>2. CASE Go(p, "top") /\ UNCHANGED <<mode, callVars>>
    <2>1. Elsewhere(p)
      BY <1>t, <1>2 DEF Elsewhere, Go, callVars
    <2> QED
      BY <2>1, ElsewhereGate
  <1>3. CASE /\ call' = [call EXCEPT ![p] = Head(plan[p])]
             /\ Go(p, "gate") /\ UNCHANGED <<mode, seen, how>>
    <2>1. Elsewhere(p)
      BY <1>t, <1>3 DEF Elsewhere, Go
    <2> QED
      BY <2>1, ElsewhereGate
  <1> QED
    BY <1>1, <1>2, <1>3 DEF Observe, finish_run

LEMMA StepGate == TypeOK /\ GateInv /\ [Next]_vars => GateInv'
  <1> SUFFICES ASSUME TypeOK, GateInv, [Next]_vars PROVE GateInv'
    OBVIOUS
  <1>t. /\ pc \in [Procs -> PCs] /\ mode \in [Procs -> {"loop", "fast", "direct"}]
        /\ call \in [Procs -> Tools \cup {Unknown}]
        /\ seen \in [Procs -> [Perms -> Policies]]
        /\ how \in [Procs -> {"none", "allowed", "granted"}]
    BY DEF TypeOK
  <1>1. ASSUME NEW p \in Procs, Begin(p) PROVE GateInv'
    <2>1. Elsewhere(p)
      BY <1>t, <1>1 DEF Begin, Elsewhere, Go, callVars
    <2> QED
      BY <2>1, ElsewhereGate
  <1>2. ASSUME NEW p \in Procs, Compose(p) PROVE GateInv'
    <2>1. Elsewhere(p)
      BY <1>t, <1>2 DEF Compose, Elsewhere, Go, callVars
    <2> QED
      BY <2>1, ElsewhereGate
  <1>3. ASSUME NEW p \in Procs, FastPath(p) PROVE GateInv'
    <2>1. CASE finish_run(p, "completed")
      BY <2>1, LeaveGate DEF finish_run
    <2>2. ASSUME NEW pl \in FastPlans,
                 mode' = [mode EXCEPT ![p] = "fast"],
                 call' = [call EXCEPT ![p] = Head(pl)],
                 Go(p, "gate"), UNCHANGED <<seen, how>>
          PROVE  GateInv'
      <3>1. Elsewhere(p)
        BY <1>t, <2>2 DEF Elsewhere, Go
      <3> QED
        BY <3>1, ElsewhereGate
    <2> QED
      BY <1>3, <2>1, <2>2 DEF FastPath
  <1>4. ASSUME NEW p \in Procs, Resume(p) PROVE GateInv'
    <2>1. Elsewhere(p)
      BY <1>t, <1>4 DEF Resume, Elsewhere, Go, callVars
    <2> QED
      BY <2>1, ElsewhereGate
  <1>5. CASE Abandon
    BY <1>5, OthersGate DEF Abandon, callVars, GateInv
  <1>6. ASSUME NEW p \in Procs, Crash(p) PROVE GateInv'
    BY <1>6, LeaveGate DEF Crash
  <1>7. ASSUME NEW p \in Procs, StopCancelled(p) PROVE GateInv'
    BY <1>7, LeaveGate DEF StopCancelled, finish_run
  <1>8. ASSUME NEW p \in Procs, Checkpoint(p) PROVE GateInv'
    <2>1. Elsewhere(p)
      BY <1>t, <1>8 DEF Checkpoint, Elsewhere, Go, runVars, callVars
    <2> QED
      BY <2>1, ElsewhereGate
  <1>9. ASSUME NEW p \in Procs, OutOfSteps(p) PROVE GateInv'
    BY <1>9, LeaveGate DEF OutOfSteps, finish_run
  <1>10. ASSUME NEW p \in Procs, ModelFails(p) PROVE GateInv'
    BY <1>10, LeaveGate DEF ModelFails, finish_run
  <1>11. ASSUME NEW p \in Procs, ModelMalformed(p) PROVE GateInv'
    <2>1. Elsewhere(p)
      BY <1>t, <1>11 DEF ModelMalformed, Elsewhere, Go, callVars
    <2> QED
      BY <2>1, ElsewhereGate
  <1>12. ASSUME NEW p \in Procs, ModelFinal(p) PROVE GateInv'
    BY <1>12, LeaveGate DEF ModelFinal, finish_run
  <1>13. ASSUME NEW p \in Procs, ModelCalls(p) PROVE GateInv'
    <2>1. Elsewhere(p)
      BY <1>t, <1>13 DEF ModelCalls, Elsewhere, Go
    <2> QED
      BY <2>1, ElsewhereGate
  <1>14. ASSUME NEW p \in Procs, Direct(p) PROVE GateInv'
    <2>1. Elsewhere(p)
      BY <1>t, <1>14 DEF Direct, Elsewhere, Go
    <2> QED
      BY <2>1, ElsewhereGate
  <1>15. ASSUME NEW p \in Procs, Refuse(p) PROVE GateInv'
    BY <1>15, ObserveGate DEF Refuse
  <1>16. ASSUME NEW p \in Procs, Gate(p) PROVE GateInv'
    <2>1. ASSUME NEW q \in Procs, q # p PROVE GateOf(q)'
      <3>1. /\ pc'[q] = pc[q] /\ mode'[q] = mode[q] /\ call'[q] = call[q]
            /\ seen'[q] = seen[q] /\ how'[q] = how[q]
        BY <1>t, <1>16, <2>1 DEF Gate, Go
      <3> QED
        BY <3>1, OthersGate
    <2>2. Listable(p)'
      BY <1>16 DEF Gate, Passes, Listed, Listable
    <2>3. seen'[p] = policy /\ call'[p] = call[p] /\ call[p] \in Tools
      BY <1>t, <1>16 DEF Gate, Passes
    <2>4. Needs[call[p]] \subseteq Perms /\ policy \in [Perms -> Policies]
      BY <2>3, NeedsAssumption DEF TypeOK
    <2>5. CASE decide(call[p]) = "ask" /\ Go(p, "asked")
      <3>1. pc'[p] = "asked"
        BY <1>t, <2>5 DEF Go
      <3>2. \A q \in Needs[call[p]] : policy[q] # "never"
        BY <2>5 DEF decide
      <3>3. \A q \in Needs[call'[p]] : seen'[p][q] \in {"always", "ask"}
        BY <2>3, <2>4, <3>2 DEF Policies
      <3>4. GateOf(p)'
        BY <2>2, <3>1, <3>3 DEF GateOf
      <3> QED
        BY <2>1, <3>4 DEF GateInv
    <2>6. CASE decide(call[p]) = "allow" /\ Go(p, "exec")
      <3>1. pc'[p] = "exec"
        BY <1>t, <2>6 DEF Go
      <3>2. \A q \in Needs[call[p]] : policy[q] # "never" /\ policy[q] # "ask"
        BY <2>6 DEF decide
      <3>3. \A q \in Needs[call'[p]] : seen'[p][q] = "always"
        BY <2>3, <2>4, <3>2 DEF Policies
      <3>4. GateOf(p)'
        BY <2>2, <3>1, <3>3 DEF GateOf
      <3> QED
        BY <2>1, <3>4 DEF GateInv
    <2> QED
      BY <1>16, <2>5, <2>6 DEF Gate
  <1>17. ASSUME NEW p \in Procs, Grant(p) PROVE GateInv'
    <2>1. ASSUME NEW q \in Procs, q # p PROVE GateOf(q)'
      <3>1. /\ pc'[q] = pc[q] /\ mode'[q] = mode[q] /\ call'[q] = call[q]
            /\ seen'[q] = seen[q] /\ how'[q] = how[q]
        BY <1>t, <1>17, <2>1 DEF Grant, Go
      <3> QED
        BY <3>1, OthersGate
    <2>2. /\ pc[p] = "asked" /\ pc'[p] = "exec" /\ how'[p] = "granted"
          /\ UNCHANGED <<mode, call, seen>>
      BY <1>t, <1>17 DEF Grant, Go
    <2>3. GateOf(p)
      BY DEF GateInv
    <2>4. Listable(p)'
      BY <2>2, <2>3 DEF GateOf, Listable
    <2>5. GateOf(p)'
      BY <2>2, <2>3, <2>4 DEF GateOf
    <2> QED
      BY <2>1, <2>5 DEF GateInv
  <1>18. ASSUME NEW p \in Procs, DenyCall(p) PROVE GateInv'
    BY <1>18, ObserveGate DEF DenyCall
  <1>19. ASSUME NEW p \in Procs, Execute(p) PROVE GateInv'
    BY <1>19, ObserveGate DEF Execute
  <1>20. ASSUME NEW p \in Procs, Cancel(p) PROVE GateInv'
    BY <1>20, OthersGate DEF Cancel, callVars, GateInv
  <1>21. CASE SetPolicy
    BY <1>21, OthersGate DEF SetPolicy, callVars, GateInv
  <1>22. CASE UNCHANGED vars
    BY <1>22, OthersGate DEF vars, GateInv
  <1> QED
    BY <1>1, <1>2, <1>3, <1>4, <1>5, <1>6, <1>7, <1>8, <1>9, <1>10, <1>11,
       <1>12, <1>13, <1>14, <1>15, <1>16, <1>17, <1>18, <1>19, <1>20, <1>21,
       <1>22 DEF Next, Drive

\* Model, fast path or workflow, and however the policy table is edited in
\* the meantime: no tool runs without the verdict its permissions require.
THEOREM OnlyGatedCalls == Spec => []Gated
  <1>1. Init => GateInv
    BY DEF Init, GateInv, GateOf
  <1>2. GateInv => Gated
    BY DEF GateInv, GateOf, Listable, Gated
  <1> QED
    BY <1>1, <1>2, InitType, StepType, StepGate, PTL DEF Spec

-----------------------------------------------------------------------------
(* The host.  While a request is busy with something exclusive it holds    *)
(* the lock, so nobody else changes the active conversation between the    *)
(* reading of its messages and the start of the run; a token is cancelled  *)
(* only by a cancel of the newest, which is that of a run under way or of  *)
(* one that has ended.                                                     *)

Busy == H!UnderWay \ {"wait"}
InRun == {"ready", "start", "run", "asked", "parked"}
HasThread == {r \in Req : hpc[r] \in H!UnderWay}

\* What a request is about.
About(r) ==
    /\ hpc[r] \in InRun => op[r] \in H!Runs
    /\ hpc[r] \in {"ready", "start"} => op[r] = "send"
    /\ op[r] = "approve" => on[r] \in Req

\* The conversation a run reads and writes.
OneTalk(r) ==
    /\ H!Exclusive(op[r]) /\ hpc[r] \in Busy => lock = r
    /\ hpc[r] \in {"new", "wait", "in"} => reads[r] = 0
    /\ hpc[r] \in {"wait", "in"} /\ op[r] = "resume" => on[r] = 0
    /\ hpc[r] = "start" => reads[r] = active
    /\ hpc[r] \in {"run", "asked", "parked"} => reads[r] = on[r]

\* Its cancel.
Stops(r) ==
    /\ hpc[r] \in InRun /\ token[r] \in stopped => r \in hit
    /\ hpc[r] = "cancelled" => r \in hit

\* Its approval.
AnApproval(r, s) == op[s] = "approve" /\ on[s] = r /\ hpc[s] \in {"wait", "in"}
Answerable(r) ==
    /\ hpc[r] \in {"new", "wait", "in", "ready", "start", "asked"} => verdict[r] = "none"
    /\ H!Waiting(r) => r \in pending
    /\ hpc[r] # "parked" /\ verdict[r] = "none" => r \notin pressed
    /\ verdict[r] = "yes" => r \in given
    /\ ~native /\ verdict[r] = "late" => r \notin pressed
    /\ ~native /\ H!Waiting(r) /\ r \in pressed => \E s \in Req : AnApproval(r, s)

HTyped ==
    /\ H!TypeOK
    /\ tokens \in Nat
    /\ on \in [Req -> Nat \cup Req] /\ reads \in [Req -> Nat \cup Req]

HInv ==
    /\ HTyped
    /\ \A r \in Req : About(r) /\ OneTalk(r) /\ Stops(r) /\ Answerable(r)
    /\ ~native => inflight = Cardinality(HasThread) /\ inflight <= Slots

LEMMA HInitInv == ASSUME H!Init, NoReq \notin Req, Slots \in Nat PROVE HInv
<1>1. HasThread = {}
  BY DEF H!Init, HasThread, H!UnderWay
<1>2. HTyped
  BY DEF H!Init, HTyped, H!TypeOK, H!PCs, H!UnderWay, H!Ops, H!Runs, H!Concurrent, H!None
<1>3. Cardinality({}) = 0
  BY FS_EmptySet
<1>4. \A r \in Req : About(r) /\ OneTalk(r) /\ Stops(r) /\ Answerable(r)
  BY DEF H!Init, About, OneTalk, Stops, Answerable, H!Waiting, Busy, InRun, H!UnderWay, H!None
<1> QED BY <1>1, <1>2, <1>3, <1>4 DEF HInv, H!Init

\* A thread more, a thread less, or neither.
LEMMA HSlots ==
  ASSUME HInv, IsFiniteSet(Req), Slots \in Nat, NEW r \in Req, NEW s,
         hpc' = [hpc EXCEPT ![r] = s], native' = native,
         \/ s \in H!UnderWay /\ hpc[r] \in H!UnderWay /\ inflight' = inflight
         \/ s \notin H!UnderWay /\ hpc[r] \notin H!UnderWay /\ inflight' = inflight
         \/ /\ s \notin H!UnderWay /\ hpc[r] \in H!UnderWay
            /\ inflight' = IF native THEN inflight ELSE inflight - 1
         \/ /\ s \in H!UnderWay /\ hpc[r] \notin H!UnderWay
            /\ inflight' = IF native THEN inflight ELSE inflight + 1
            /\ ~native => inflight < Slots
  PROVE  /\ native => inflight' = inflight
         /\ ~native' => /\ inflight' = Cardinality(HasThread') /\ inflight' <= Slots
                        /\ inflight' \in Nat
<1>1. \A q \in Req : hpc'[q] = IF q = r THEN s ELSE hpc[q]
  BY DEF HInv, HTyped, H!TypeOK
<1>2. HasThread' = IF s \in H!UnderWay THEN HasThread \cup {r} ELSE HasThread \ {r}
  BY <1>1 DEF HasThread
<1>3. IsFiniteSet(HasThread)
  BY FS_Subset DEF HasThread
<1>4. /\ Cardinality(HasThread) \in Nat
      /\ Cardinality(HasThread \cup {r}) =
            IF r \in HasThread THEN Cardinality(HasThread) ELSE Cardinality(HasThread) + 1
      /\ Cardinality(HasThread \ {r}) =
            IF r \in HasThread THEN Cardinality(HasThread) - 1 ELSE Cardinality(HasThread)
  BY <1>3, FS_CardinalityType, FS_AddElement, FS_RemoveElement
<1>5. r \in HasThread => Cardinality(HasThread) # 0
  BY <1>3, FS_EmptySet
<1>6. r \in HasThread <=> hpc[r] \in H!UnderWay
  BY DEF HasThread
<1>7. native \in BOOLEAN /\ (~native => inflight = Cardinality(HasThread) /\ inflight <= Slots)
  BY DEF HInv, HTyped, H!TypeOK
<1> QED
  <2>1. CASE s \in H!UnderWay /\ hpc[r] \in H!UnderWay
    BY <1>2, <1>4, <1>6, <1>7, <2>1
  <2>2. CASE s \notin H!UnderWay /\ hpc[r] \notin H!UnderWay
    BY <1>2, <1>4, <1>6, <1>7, <2>2
  <2>3. CASE s \notin H!UnderWay /\ hpc[r] \in H!UnderWay
    BY <1>2, <1>4, <1>5, <1>6, <1>7, <2>3
  <2>4. CASE s \in H!UnderWay /\ hpc[r] \notin H!UnderWay
    BY <1>2, <1>4, <1>6, <1>7, <2>4
  <2> QED BY <2>1, <2>2, <2>3, <2>4

\* What a step of r leaves of the other requests.
LEMMA HOthers ==
  ASSUME HInv, NoReq \notin Req, NEW r \in Req, NEW q \in Req, q # r,
         native' = native, hpc'[q] = hpc[q], op'[q] = op[q], on'[q] = on[q],
         token'[q] = token[q], reads'[q] = reads[q],
         lock' = lock \/ lock \in {r, NoReq},
         active' = active \/ lock = r,
         \/ stopped' = stopped
         \/ stopped' = stopped \cup {tokens} /\ (hpc[q] \in InRun => q \in hit'),
         hit \subseteq hit'
  PROVE  About(q)' /\ OneTalk(q)' /\ Stops(q)'
<1>1. About(q) /\ OneTalk(q) /\ Stops(q)
  BY DEF HInv
<1>2. About(q)' /\ Stops(q)'
  BY <1>1 DEF About, Stops
<1>3. hpc[q] = "start" => active' = active
  BY <1>1 DEF About, OneTalk, H!Exclusive, H!Concurrent, Busy, H!UnderWay
<1>4. H!Exclusive(op[q])' <=> H!Exclusive(op[q])
  BY DEF H!Exclusive
<1> QED BY <1>1, <1>2, <1>3, <1>4 DEF OneTalk

LEMMA HOthersAnswers ==
  ASSUME HInv, NEW r \in Req, NEW q \in Req, q # r, native' = native,
         hpc'[q] = hpc[q], verdict'[q] = verdict[q],
         q \in pending => q \in pending',
         given \subseteq given',
         q \in pressed' => q \in pressed \/ (H!Waiting(q) /\ AnApproval(q, r)'),
         \A s \in Req \ {r} : hpc'[s] = hpc[s] /\ op'[s] = op[s] /\ on'[s] = on[s],
         AnApproval(q, r) => AnApproval(q, r)' \/ ~H!Waiting(q)
  PROVE  Answerable(q)'
<1>1. Answerable(q)
  BY DEF HInv
<1>2. H!Waiting(q)' <=> H!Waiting(q)
  BY DEF H!Waiting
<1>3. \A s \in Req : AnApproval(q, s) => AnApproval(q, s)' \/ ~H!Waiting(q)
  BY DEF AnApproval
<1>4. H!Waiting(q) => verdict[q] = "none" /\ hpc[q] = "parked"
  BY DEF H!Waiting
<1> QED BY <1>1, <1>2, <1>3, <1>4 DEF Answerable

\* A step of r that is about r only.
HFrame(r, s) ==
    /\ native' = native /\ hpc' = [hpc EXCEPT ![r] = s] /\ op' = op
    /\ \A q \in Req \ {r} : /\ on'[q] = on[q] /\ token'[q] = token[q]
                            /\ reads'[q] = reads[q] /\ verdict'[q] = verdict[q]
    /\ lock' = lock \/ lock \in {r, NoReq}
    /\ active' = active \/ lock = r
    /\ \/ stopped' = stopped
       \/ /\ stopped' = stopped \cup {tokens}
          /\ \A q \in Req \ {r} : hpc[q] \in InRun => q \in hit'
    /\ hit \subseteq hit' /\ given \subseteq given' /\ pressed' = pressed
    /\ pending \subseteq pending'
    /\ op[r] = "approve" => s \in {"wait", "in"} /\ on'[r] = on[r]
    /\ \/ s \in H!UnderWay /\ hpc[r] \in H!UnderWay /\ inflight' = inflight
       \/ /\ s \notin H!UnderWay /\ hpc[r] \in H!UnderWay
          /\ inflight' = IF native THEN inflight ELSE inflight - 1

HAssumption == IsFiniteSet(Req) /\ NoReq \notin Req /\ Slots \in Nat

LEMMA HMove ==
  ASSUME HInv, HAssumption, NEW r \in Req, NEW s, HFrame(r, s), HTyped',
         About(r)', OneTalk(r)', Stops(r)', Answerable(r)'
  PROVE  HInv'
<1>1. \A q \in Req : hpc'[q] = IF q = r THEN s ELSE hpc[q]
  BY DEF HFrame, HInv, HTyped, H!TypeOK
<1>2. ~native' => inflight' = Cardinality(HasThread') /\ inflight' <= Slots
  <2>1. HInv /\ IsFiniteSet(Req) /\ Slots \in Nat
    BY DEF HAssumption
  <2>2. /\ hpc' = [hpc EXCEPT ![r] = s] /\ native' = native
        /\ \/ s \in H!UnderWay /\ hpc[r] \in H!UnderWay /\ inflight' = inflight
           \/ /\ s \notin H!UnderWay /\ hpc[r] \in H!UnderWay
              /\ inflight' = IF native THEN inflight ELSE inflight - 1
    BY DEF HFrame
  <2> QED BY <2>1, <2>2, HSlots
<1>3. ASSUME NEW q \in Req, q # r
      PROVE  About(q)' /\ OneTalk(q)' /\ Stops(q)' /\ Answerable(q)'
  <2>1. About(q)' /\ OneTalk(q)' /\ Stops(q)'
    <3>1. hpc'[q] = hpc[q] /\ op'[q] = op[q]
      BY <1>1, <1>3 DEF HFrame
    <3>2. \/ stopped' = stopped
          \/ stopped' = stopped \cup {tokens} /\ (hpc[q] \in InRun => q \in hit')
      BY <1>3 DEF HFrame
    <3> QED BY <1>3, <3>1, <3>2, HOthers DEF HFrame, HAssumption
  <2>2. Answerable(q)'
    <3>1. AnApproval(q, r) => AnApproval(q, r)'
      BY <1>1 DEF HFrame, AnApproval
    <3>2. \A p \in Req \ {r} : hpc'[p] = hpc[p] /\ op'[p] = op[p] /\ on'[p] = on[p]
      BY <1>1 DEF HFrame
    <3> QED BY <1>1, <1>3, <3>1, <3>2, HOthersAnswers DEF HFrame
  <2> QED BY <2>1, <2>2
<1> QED BY <1>2, <1>3 DEF HInv

\* Sets of places.
LEMMA HPlaces ==
  /\ InRun \subseteq Busy /\ Busy = H!UnderWay \ {"wait"}
  /\ InRun = {"ready", "start", "run", "asked", "parked"}
  /\ H!UnderWay = {"wait", "in", "ready", "start", "run", "asked", "parked"}
  /\ H!PCs = {"wait", "in", "ready", "start", "run", "asked", "parked",
              "new", "refused", "done", "cancelled"}
  /\ H!Runs = {"send", "resume"} /\ H!Concurrent = {"approve", "cancel", "poll"}
  BY DEF InRun, Busy, H!UnderWay, H!PCs, H!Runs, H!Concurrent

LEMMA HCreates ==
  ASSUME ids \in Nat, convs \subseteq 1 .. ids, H!Create
  PROVE  ids' \in Nat /\ convs' \subseteq 1 .. ids' /\ active' \in 1 .. ids'
<1>1. /\ ids' = ids + 1 /\ convs' = convs \cup {ids + 1} /\ active' = ids + 1
  BY DEF H!Create
<1>2. \A x \in 1 .. ids : x \in 1 .. ids'
  BY <1>1
<1>3. ids' \in Nat /\ ids + 1 \in 1 .. ids'
  BY <1>1
<1> QED BY <1>1, <1>2, <1>3

LEMMA HLoops ==
  ASSUME HInv, HAssumption, NEW r \in Req,
         H!Enter(r) \/ H!Resume(r) \/ H!Send(r) \/ H!History(r) \/ H!Start(r)
  PROVE  HInv'
<1> USE DEF HInv, HTyped, H!TypeOK
<1>0. About(r) /\ OneTalk(r) /\ Stops(r) /\ Answerable(r)
  OBVIOUS
<1>1. CASE H!Enter(r)
  <2>1. \A q \in Req : hpc'[q] = IF q = r THEN "in" ELSE hpc[q]
    BY <1>1 DEF H!Enter, H!At
  <2>2. HFrame(r, "in")
    BY <1>1, HPlaces DEF H!Enter, H!At, H!run, H!user, H!chat, HFrame
  <2>3. HTyped'
    BY <1>1, HPlaces DEF H!Enter, H!At, H!run, H!user, H!chat
  <2>4. About(r)' /\ OneTalk(r)' /\ Stops(r)' /\ Answerable(r)'
    BY <1>0, <1>1, <2>1, HPlaces
       DEF H!Enter, H!At, H!run, H!user, H!chat, About, OneTalk, Stops, Answerable,
           H!Exclusive, H!Waiting
  <2> QED BY <2>2, <2>3, <2>4, HMove
<1>2. CASE H!Resume(r)
  <2>1. \A q \in Req : hpc'[q] = IF q = r THEN "run" ELSE hpc[q]
    BY <1>2 DEF H!Resume, H!At
  <2>2. HFrame(r, "run")
    BY <1>2, HPlaces DEF H!Resume, H!At, H!NewToken, H!user, H!chat, HFrame
  <2>3. HTyped'
    BY <1>2, HPlaces DEF H!Resume, H!At, H!NewToken, H!user, H!chat
  <2>4. About(r)' /\ OneTalk(r)' /\ Stops(r)' /\ Answerable(r)'
    BY <1>0, <1>2, <2>1, HPlaces
       DEF H!Resume, H!At, H!NewToken, H!user, H!chat, About, OneTalk, Stops, Answerable,
           H!Exclusive, H!Waiting
  <2> QED BY <2>2, <2>3, <2>4, HMove
<1>3. CASE H!Send(r)
  <2>1. \A q \in Req : hpc'[q] = IF q = r THEN "ready" ELSE hpc[q]
    BY <1>3 DEF H!Send, H!At
  <2>2. HFrame(r, "ready")
    BY <1>0, <1>3, HPlaces
       DEF H!Send, H!At, H!NewToken, H!Create, H!user, H!chat, HFrame, OneTalk, H!Exclusive
  <2>3. HTyped'
    <3>1. hpc' \in [Req -> H!PCs] /\ tokens' \in Nat /\ stopped' \subseteq 0 .. tokens'
      BY <1>3, HPlaces DEF H!Send, H!At, H!NewToken
    <3>2. ids' \in Nat /\ convs' \subseteq 1 .. ids' /\ active' \in 1 .. ids'
      BY <1>3, HCreates DEF H!Send, H!chat
    <3>3. token' \in [Req -> 0 .. tokens']
      <4>1. \A q \in Req : token[q] \in 0 .. tokens'
        BY <1>3 DEF H!Send, H!NewToken
      <4>2. tokens + 1 \in 0 .. tokens'
        BY <1>3 DEF H!Send, H!NewToken
      <4> QED BY <1>3, <4>1, <4>2 DEF H!Send, H!NewToken
    <3> QED BY <1>3, <3>1, <3>2, <3>3 DEF H!Send, H!user
  <2>4. About(r)' /\ OneTalk(r)' /\ Stops(r)' /\ Answerable(r)'
    BY <1>0, <1>3, <2>1, HPlaces
       DEF H!Send, H!At, H!NewToken, H!user, About, OneTalk, Stops, Answerable,
           H!Exclusive, H!Waiting
  <2> QED BY <2>2, <2>3, <2>4, HMove
<1>4. CASE H!History(r)
  <2>1. \A q \in Req : hpc'[q] = IF q = r THEN "start" ELSE hpc[q]
    BY <1>4 DEF H!History, H!At
  <2>2. HFrame(r, "start")
    BY <1>0, <1>4, HPlaces DEF H!History, H!At, H!user, H!chat, HFrame, About
  <2>3. HTyped'
    BY <1>4, HPlaces DEF H!History, H!At, H!user, H!chat
  <2>4. About(r)' /\ OneTalk(r)' /\ Stops(r)' /\ Answerable(r)'
    BY <1>0, <1>4, <2>1, HPlaces
       DEF H!History, H!At, H!user, H!chat, About, OneTalk, Stops, Answerable,
           H!Exclusive, H!Waiting
  <2> QED BY <2>2, <2>3, <2>4, HMove
<1>5. CASE H!Start(r)
  <2>1. \A q \in Req : hpc'[q] = IF q = r THEN "run" ELSE hpc[q]
    BY <1>5 DEF H!Start, H!At
  <2>2. HFrame(r, "run")
    BY <1>0, <1>5, HPlaces DEF H!Start, H!At, H!user, H!run, H!chat, HFrame, About
  <2>3. HTyped'
    BY <1>5, HPlaces DEF H!Start, H!At, H!user, H!run, H!chat
  <2>4. About(r)' /\ OneTalk(r)' /\ Stops(r)' /\ Answerable(r)'
    BY <1>0, <1>5, <2>1, HPlaces
       DEF H!Start, H!At, H!user, H!run, H!chat, About, OneTalk, Stops, Answerable,
           H!Exclusive, H!Waiting
  <2> QED BY <2>2, <2>3, <2>4, HMove
<1> QED BY <1>1, <1>2, <1>3, <1>4, <1>5

LEMMA HAsks ==
  ASSUME HInv, HAssumption, NEW r \in Req,
         H!Ask(r) \/ H!Park(r) \/ H!TimesOut(r) \/ H!Resolved(r) \/ H!Finish(r)
  PROVE  HInv'
<1> USE DEF HInv, HTyped, H!TypeOK
<1>0. About(r) /\ OneTalk(r) /\ Stops(r) /\ Answerable(r)
  OBVIOUS
<1>1. CASE H!Ask(r)
  <2>1. \A q \in Req : hpc'[q] = IF q = r THEN "asked" ELSE hpc[q]
    BY <1>1 DEF H!Ask, H!At
  <2>2. HFrame(r, "asked")
    BY <1>0, <1>1, HPlaces DEF H!Ask, H!At, H!run, H!chat, HFrame, About
  <2>3. HTyped'
    BY <1>1, HPlaces DEF H!Ask, H!At, H!run, H!chat
  <2>4. About(r)' /\ OneTalk(r)' /\ Stops(r)' /\ Answerable(r)'
    BY <1>0, <1>1, <2>1, HPlaces
       DEF H!Ask, H!At, H!run, H!chat, About, OneTalk, Stops, Answerable,
           H!Exclusive, H!Waiting
  <2> QED BY <2>2, <2>3, <2>4, HMove
<1>2. CASE H!Park(r)
  <2>1. \A q \in Req : hpc'[q] = IF q = r THEN "parked" ELSE hpc[q]
    BY <1>2 DEF H!Park, H!At
  <2>2. HFrame(r, "parked")
    BY <1>0, <1>2, HPlaces DEF H!Park, H!At, H!run, H!user, H!chat, HFrame, About
  <2>3. HTyped'
    BY <1>2, HPlaces DEF H!Park, H!At, H!run, H!user, H!chat
  <2>4. About(r)' /\ OneTalk(r)' /\ Stops(r)' /\ Answerable(r)'
    BY <1>0, <1>2, <2>1, HPlaces
       DEF H!Park, H!At, H!run, H!user, H!chat, About, OneTalk, Stops, Answerable,
           H!Exclusive, H!Waiting
  <2> QED BY <2>2, <2>3, <2>4, HMove
<1>3. CASE H!TimesOut(r)
  <2>1. /\ \A q \in Req : hpc'[q] = IF q = r THEN "run" ELSE hpc[q]
        /\ \A q \in Req : verdict'[q] = IF q = r THEN "late" ELSE verdict[q]
        /\ hpc[r] = "parked" /\ verdict[r] = "none"
    BY <1>3 DEF H!TimesOut, H!At, H!Waiting
  <2>2. HFrame(r, "run")
    BY <1>0, <1>3, <2>1, HPlaces DEF H!TimesOut, H!At, H!user, H!chat, HFrame, About
  <2>3. HTyped'
    BY <1>3, HPlaces DEF H!TimesOut, H!At, H!user, H!chat
  <2>4. ~native => r \notin pressed
    <3>1. ASSUME ~native, NEW s \in Req, AnApproval(r, s) PROVE H!AtHand(r)
      BY <3>1 DEF AnApproval, H!AtHand, H!Exclusive, H!Concurrent
    <3> QED BY <1>0, <1>3, <3>1 DEF H!TimesOut, Answerable
  <2>5. About(r)' /\ OneTalk(r)' /\ Stops(r)' /\ Answerable(r)'
    BY <1>0, <1>3, <2>1, <2>4, HPlaces
       DEF H!TimesOut, H!At, H!user, H!chat, About, OneTalk, Stops, Answerable,
           H!Exclusive, H!Waiting
  <2> QED BY <2>2, <2>3, <2>5, HMove
<1>4. CASE H!Resolved(r)
  <2>1. \A q \in Req : hpc'[q] = IF q = r THEN "run" ELSE hpc[q]
    BY <1>4 DEF H!Resolved, H!At
  <2>2. HFrame(r, "run")
    BY <1>0, <1>4, HPlaces DEF H!Resolved, H!At, H!run, H!user, H!chat, HFrame, About
  <2>3. HTyped'
    BY <1>4, HPlaces DEF H!Resolved, H!At, H!run, H!user, H!chat
  <2>4. About(r)' /\ OneTalk(r)' /\ Stops(r)' /\ Answerable(r)'
    BY <1>0, <1>4, <2>1, HPlaces
       DEF H!Resolved, H!At, H!run, H!user, H!chat, About, OneTalk, Stops, Answerable,
           H!Exclusive, H!Waiting
  <2> QED BY <2>2, <2>3, <2>4, HMove
<1>5. CASE H!Finish(r)
  <2>1. PICK s \in {"done", "cancelled"} :
           hpc' = [hpc EXCEPT ![r] = s] /\ (s = "cancelled" => token[r] \in stopped)
    BY <1>5 DEF H!Finish, H!At, H!Cancelled
  <2>2. \A q \in Req : hpc'[q] = IF q = r THEN s ELSE hpc[q]
    BY <2>1
  <2>3. /\ inflight' = IF native THEN inflight ELSE inflight - 1
        /\ lock' = IF lock = r THEN NoReq ELSE lock
        /\ hpc[r] = "run"
        /\ UNCHANGED <<native, convs, active, ids, op, on, tokens, stopped, token,
                       reads, verdict, pending, events, shown, given, pressed, hit>>
    BY <1>5 DEF H!Finish, H!Release, H!chat, H!run, H!user
  <2>4. HFrame(r, s)
    BY <1>0, <2>1, <2>3, HPlaces DEF HFrame, About
  <2>5. HTyped'
    <3>1. inflight' \in Nat
      BY <2>1, <2>3, <2>4, HSlots, HPlaces DEF HAssumption
    <3> QED BY <2>1, <2>3, <3>1, HPlaces
  <2>6. About(r)' /\ OneTalk(r)' /\ Stops(r)' /\ Answerable(r)'
    BY <1>0, <2>1, <2>2, <2>3, HPlaces
       DEF About, OneTalk, Stops, Answerable, H!Exclusive, H!Waiting
  <2> QED BY <2>4, <2>5, <2>6, HMove
<1> QED BY <1>1, <1>2, <1>3, <1>4, <1>5

\* The operations that are answered at once.
LEMMA HAnswers ==
  ASSUME HInv, HAssumption, NEW r \in Req,
         H!Select(r) \/ H!New(r) \/ H!Delete(r) \/ H!Cancel(r) \/ H!Poll(r) \/ H!App(r)
  PROVE  HInv'
<1> USE DEF HInv, HTyped, H!TypeOK
<1>0. About(r) /\ OneTalk(r) /\ Stops(r) /\ Answerable(r)
  OBVIOUS
<1>1. /\ hpc[r] = "in" /\ op[r] \in {"select", "new", "delete", "cancel", "poll", "app"}
      /\ hpc' = [hpc EXCEPT ![r] = "done"]
      /\ lock' = IF lock = r THEN NoReq ELSE lock
      /\ inflight' = IF native THEN inflight ELSE inflight - 1
      /\ UNCHANGED <<native, op, on, tokens, token, reads, verdict, pending, given, pressed>>
  BY DEF H!Select, H!New, H!Delete, H!Cancel, H!Poll, H!App, H!Respond, H!At, H!Release,
         H!chat, H!run, H!user
<1>2. \A q \in Req : hpc'[q] = IF q = r THEN "done" ELSE hpc[q]
  BY <1>1
<1>3. active' = active \/ lock = r
  BY <1>0, <1>1 DEF H!Select, H!New, H!Delete, H!Cancel, H!Poll, H!App, H!chat, OneTalk,
     H!Exclusive, H!Concurrent, Busy, H!UnderWay
<1>4. /\ \/ stopped' = stopped
         \/ /\ stopped' = stopped \cup {tokens}
            /\ \A q \in Req \ {r} : hpc[q] \in InRun => q \in hit'
      /\ hit \subseteq hit' /\ hit' \subseteq Req
  <2>1. CASE H!Cancel(r)
    <3>1. \A q \in Req : hpc[q] \in InRun => op[q] \in H!Runs
      BY DEF About
    <3> QED BY <2>1, <3>1, HPlaces DEF H!Cancel
  <2>2. CASE ~H!Cancel(r)
    BY <2>2 DEF H!Select, H!New, H!Delete, H!Poll, H!App, H!user
  <2> QED BY <2>1, <2>2
<1>5. HFrame(r, "done")
  BY <1>1, <1>3, <1>4, HPlaces DEF HFrame
<1>6. HTyped'
  <2>1. inflight' \in Nat
    BY <1>1, <1>5, HSlots, HPlaces DEF HAssumption
  <2>2. ids' \in Nat /\ convs' \subseteq 1 .. ids' /\ active' \in 1 .. ids'
    BY HCreates DEF H!Select, H!New, H!Delete, H!Cancel, H!Poll, H!App, H!chat
  <2>3. stopped' \subseteq 0 .. tokens'
    BY <1>1, <1>4
  <2>4. events' \cup shown' \subseteq Req
    BY DEF H!Select, H!New, H!Delete, H!Cancel, H!Poll, H!App, H!user
  <2> QED BY <1>1, <1>4, <2>1, <2>2, <2>3, <2>4, HPlaces
<1>7. About(r)' /\ OneTalk(r)' /\ Stops(r)' /\ Answerable(r)'
  BY <1>0, <1>1, <1>2, HPlaces
     DEF About, OneTalk, Stops, Answerable, H!Exclusive, H!Waiting
<1> QED BY <1>5, <1>6, <1>7, HMove

LEMMA HApprove ==
  ASSUME HInv, HAssumption, NEW r \in Req, H!Approve(r) PROVE HInv'
<1> USE DEF HInv, HTyped, H!TypeOK
<1>0. About(r) /\ OneTalk(r) /\ Stops(r) /\ Answerable(r)
  OBVIOUS
<1>1. PICK yes \in BOOLEAN :
        /\ verdict' = IF on[r] \in pending /\ H!Waiting(on[r])
                      THEN [verdict EXCEPT ![on[r]] = IF yes THEN "yes" ELSE "no"]
                      ELSE verdict
        /\ given' = IF yes THEN given \cup {on[r]} ELSE given
  BY DEF H!Approve
<1>2. /\ hpc[r] = "in" /\ op[r] = "approve" /\ on[r] \in Req
      /\ hpc' = [hpc EXCEPT ![r] = "done"]
      /\ lock' = IF lock = r THEN NoReq ELSE lock
      /\ inflight' = IF native THEN inflight ELSE inflight - 1
      /\ pending' = pending \ {on[r]}
      /\ UNCHANGED <<native, convs, active, ids, op, on, tokens, stopped, token, reads,
                     events, shown, pressed, hit>>
  BY <1>0 DEF H!Approve, H!Respond, H!At, H!Release, H!chat, About
<1>3. \A q \in Req : hpc'[q] = IF q = r THEN "done" ELSE hpc[q]
  BY <1>2
<1>4. \A q \in Req : verdict'[q] = IF q = on[r] /\ q \in pending /\ H!Waiting(q)
                                   THEN IF yes THEN "yes" ELSE "no" ELSE verdict[q]
  BY <1>1, <1>2
<1>5. /\ native => inflight' = inflight
      /\ ~native' => /\ inflight' = Cardinality(HasThread') /\ inflight' <= Slots
                     /\ inflight' \in Nat
  BY <1>2, HSlots, HPlaces DEF HAssumption
<1>6. HTyped'
  BY <1>1, <1>2, <1>5, HPlaces
<1>7. ASSUME NEW q \in Req PROVE About(q)' /\ OneTalk(q)' /\ Stops(q)'
  <2>1. CASE q = r
    BY <1>0, <1>2, <1>3, <2>1, HPlaces DEF About, OneTalk, Stops
  <2>2. CASE q # r
    BY <1>2, <1>3, <2>2, HOthers DEF HAssumption
  <2> QED BY <2>1, <2>2
<1>8. ASSUME NEW q \in Req PROVE Answerable(q)'
  <2>0. Answerable(q)
    OBVIOUS
  <2>1. H!Waiting(q)' => H!Waiting(q) /\ q # on[r] /\ q # r /\ verdict'[q] = verdict[q]
    BY <1>3, <1>4, <2>0 DEF H!Waiting, Answerable
  <2>2. ASSUME H!Waiting(q)', ~native', q \in pressed'
        PROVE  \E s \in Req : AnApproval(q, s)'
    <3>1. PICK s \in Req : AnApproval(q, s)
      BY <1>2, <2>0, <2>1, <2>2 DEF Answerable
    <3>2. s # r
      BY <2>1, <2>2, <3>1 DEF AnApproval
    <3> QED BY <1>2, <1>3, <3>1, <3>2 DEF AnApproval
  <2>3. /\ verdict'[q] = "none" => verdict[q] = "none"
        /\ verdict'[q] = "late" => verdict[q] = "late"
        /\ verdict'[q] = "yes" => q \in given'
        /\ verdict'[q] # verdict[q] => hpc[q] = "parked" /\ q # r
    BY <1>1, <1>2, <1>3, <1>4, <2>0 DEF Answerable, H!Waiting
  <2>4. H!Waiting(q)' => q \in pending'
    BY <1>2, <2>0, <2>1 DEF Answerable
  <2> QED BY <1>2, <1>3, <2>0, <2>2, <2>3, <2>4 DEF Answerable
<1> QED BY <1>5, <1>6, <1>7, <1>8

LEMMA HArrive ==
  ASSUME HInv, HAssumption, NEW r \in Req, H!Arrive(r) PROVE HInv'
<1> USE DEF HInv, HTyped, H!TypeOK
<1>0. About(r) /\ OneTalk(r) /\ Stops(r) /\ Answerable(r)
  OBVIOUS
<1>1. PICK o \in H!Ops, x \in (1 .. ids) \cup Req \cup {0} :
        /\ H!Sensible(o, x)
        /\ op' = [op EXCEPT ![r] = o] /\ on' = [on EXCEPT ![r] = x]
        /\ shown' = IF o = "approve" THEN shown \ {x} ELSE shown
        /\ pressed' = IF o = "approve" /\ H!Admitted /\ H!Waiting(x)
                      THEN pressed \cup {x} ELSE pressed
  BY DEF H!Arrive, H!Asked, H!None
<1>2. PICK s \in {"wait", "refused"} :
        /\ hpc' = [hpc EXCEPT ![r] = s]
        /\ s = "refused" => ~H!Admitted /\ inflight' = inflight
        /\ s = "wait" => /\ H!Admitted
                         /\ inflight' = IF native THEN inflight ELSE inflight + 1
  BY DEF H!Arrive, H!At
<1>3. /\ hpc[r] = "new"
      /\ UNCHANGED <<native, convs, active, ids, lock, tokens, stopped, token, reads,
                     verdict, pending, events, given, hit>>
  BY DEF H!Arrive, H!chat, H!run
<1>4. /\ \A q \in Req : hpc'[q] = IF q = r THEN s ELSE hpc[q]
      /\ \A q \in Req : op'[q] = IF q = r THEN o ELSE op[q]
      /\ \A q \in Req : on'[q] = IF q = r THEN x ELSE on[q]
  BY <1>1, <1>2
<1>5. /\ o = "approve" => x \in Req
      /\ o = "resume" => x = 0
  BY <1>1 DEF H!Sensible, H!None
<1>6. \A q \in pressed' : q \in pressed \/ (H!Waiting(q) /\ s = "wait" /\ o = "approve" /\ x = q)
  BY <1>1, <1>2
<1>7. inflight' \in Nat /\ (~native' => inflight' = Cardinality(HasThread') /\ inflight' <= Slots)
  BY <1>2, <1>3, HSlots, HPlaces DEF HAssumption, H!Admitted
<1>8. HTyped'
  <2>1. pressed' \subseteq Req /\ shown' \subseteq Req
    BY <1>1 DEF H!Waiting
  <2>2. x \in Nat \cup Req
    OBVIOUS
  <2> QED BY <1>1, <1>2, <1>3, <1>7, <2>1, <2>2, HPlaces
<1>9. ASSUME NEW q \in Req
      PROVE  About(q)' /\ OneTalk(q)' /\ Stops(q)' /\ Answerable(q)'
  <2>1. CASE q = r
    <3>1. r \notin pressed'
      BY <1>0, <1>3, <1>6 DEF Answerable, H!Waiting
    <3> QED
      BY <1>0, <1>3, <1>4, <1>5, <2>1, <3>1, HPlaces
         DEF About, OneTalk, Stops, Answerable, H!Waiting
  <2>2. CASE q # r
    <3>1. About(q)' /\ OneTalk(q)' /\ Stops(q)'
      BY <1>3, <1>4, <2>2, HOthers DEF HAssumption
    <3>2. q \in pressed' => q \in pressed \/ (H!Waiting(q) /\ AnApproval(q, r)')
      BY <1>4, <1>6 DEF AnApproval
    <3>3. ~AnApproval(q, r)
      BY <1>3 DEF AnApproval
    <3>4. Answerable(q)'
      BY <1>3, <1>4, <2>2, <3>2, <3>3, HOthersAnswers
    <3> QED BY <3>1, <3>4
  <2> QED BY <2>1, <2>2
<1> QED BY <1>7, <1>8, <1>9

LEMMA HStepInv == ASSUME HInv, HAssumption, [H!Next]_(H!vars) PROVE HInv'
<1>1. CASE UNCHANGED H!vars
  <2>1. /\ UNCHANGED <<native, convs, active, ids, op, on, hpc, lock, inflight, tokens,
                       stopped, token, reads, pending, verdict, events, shown, given,
                       pressed, hit>>
    BY <1>1 DEF H!vars, H!chat, H!run, H!user
  <2>2. HTyped'
    BY <2>1 DEF HInv, HTyped, H!TypeOK
  <2>3. ASSUME NEW r \in Req
        PROVE  About(r)' /\ OneTalk(r)' /\ Stops(r)' /\ Answerable(r)'
    <3>1. About(r) /\ OneTalk(r) /\ Stops(r) /\ Answerable(r)
      BY DEF HInv
    <3> QED BY <2>1, <3>1 DEF About, OneTalk, Stops, Answerable, AnApproval, H!Waiting,
               H!Exclusive
  <2>4. HasThread' = HasThread
    BY <2>1 DEF HasThread
  <2> QED BY <2>1, <2>2, <2>3, <2>4 DEF HInv
<1>2. CASE H!Next
  BY <1>2, HArrive, HLoops, HAsks, HAnswers, HApprove DEF H!Next, H!Dispatch
<1> QED BY <1>1, <1>2

\* The host of the chat, for any number of requests and of slots of the
\* gateway (pai-ffi, `pai serve --bridge'): a run writes to the conversation it
\* was told about, a call is let through only if the user said yes to it, a run
\* ends cancelled only if the user cancelled while it was under way, the slots
\* taken are those of the threads that live, and at the gateway an answer given
\* while the run waits for it counts.
THEOREM ChatStaysSound ==
  ASSUME IsFiniteSet(Req), NoReq \notin Req, Slots \in Nat
  PROVE  H!Spec => []ChatIsSound
<1>1. HAssumption
  BY DEF HAssumption
<1>0. \A X : H!Cardinality(X) = Cardinality(X)
  BY DEF H!Cardinality, Cardinality
<1>2. HInv => ChatIsSound
  BY <1>0 DEF HInv, HTyped, ChatIsSound, H!ChatIsSound, H!OneConversation, H!OnlyGiven, H!CancelledByUser,
     H!SlotsCounted, H!AnswerCounts, OneTalk, Stops, Answerable, HasThread
<1>3. H!Init => HInv
  BY HInitInv
<1>4. HInv /\ [H!Next]_(H!vars) => HInv'
  BY <1>1, HStepInv
<1> QED BY <1>2, <1>3, <1>4, PTL DEF H!Spec

-----------------------------------------------------------------------------
(* The memories (MemoryScopes).  What was confided has the conversation's  *)
(* tag in every row, object and half-done apply; what a run outside of the *)
(* conversation has in hand was not confided.                              *)

SRows == [t : 0 .. MaxClock, tag : S!Tag, del : BOOLEAN]
SObjs == [m : Mem, t : 0 .. MaxClock, tag : S!Tag, del : BOOLEAN, writer : SUBSET Device]
SRuns == [pc : {"idle", "recall", "scope", "tools", "put", "forget", "cut"},
          place : S!Place, sees : SUBSET S!Tag, tag : S!Tag, m : Mem \cup {NoMem}]
SConvs == [t : 0 .. MaxClock, mode : {"shared", "isolated"}, del : BOOLEAN]

ConvTyped ==
    /\ conv \in [Device -> SConvs]
    /\ convFile.t \in 0 .. MaxClock /\ convFile.mode \in {"shared", "isolated"}
    /\ convFile.del \in BOOLEAN
STyped ==
    /\ clock \in 1 .. MaxClock
    /\ ConvTyped
    /\ mem \in [Device -> [Mem -> SRows]]
    /\ memMirror \in [Device -> [Mem -> 0 .. MaxClock]]
    /\ memFile \in [Mem -> SObjs] /\ \A m \in Mem : memFile[m].m = m
    /\ writing \in [Device -> SUBSET SObjs]
    /\ run \in [Device -> SRuns]
    /\ confided \subseteq Mem /\ toldOutside \subseteq Mem
    /\ forgot \in [Device -> [Mem -> 0 .. MaxClock]]

Discreet(m) ==
    /\ m \in confided =>
          /\ \A d \in Device : mem[d][m].t > 0 => mem[d][m].tag = "inside"
          /\ memFile[m].t > 0 => memFile[m].tag = "inside"
          /\ m \notin toldOutside
    /\ \A d \in Device : \A f \in writing[d] :
          f.m = m => f.t > 0 /\ (m \in confided => f.tag = "inside")
    /\ m \notin S!Written =>
          /\ memFile[m].t = 0 /\ m \notin toldOutside /\ m \notin confided
          /\ \A d \in Device : \A f \in writing[d] : f.m # m

InHand(d) ==
    /\ run[d].pc \in {"put", "forget"} => run[d].m \in Mem
    /\ run[d].pc = "put" =>
          /\ run[d].m \notin S!Written
          /\ \A e \in Device \ {d} : run[e].pc = "put" => run[e].m # run[d].m
    /\ run[d].pc = "forget" => mem[d][run[d].m].t > 0
    /\ run[d].place = "outside" =>
          /\ run[d].tag = "global"
          /\ run[d].pc = "recall" => run[d].sees \subseteq {"global"}
          /\ run[d].pc = "forget" => run[d].m \notin confided

Forgotten(d, m) ==
    /\ forgot[d][m] <= clock
    /\ d \notin raced =>
          /\ forgot[d][m] <= mem[d][m].t
          /\ forgot[d][m] > 0 /\ ~mem[d][m].del => mem[d][m].t > forgot[d][m]
          /\ \A f \in writing[d] : f.m = m => f.t > forgot[d][m]

SInv ==
    /\ STyped
    /\ \A m \in Mem : Discreet(m)
    /\ \A d \in Device : InHand(d)
    /\ \A d \in Device, m \in Mem : Forgotten(d, m)

\* The constructors.
LEMMA SMakes ==
  /\ \A t \in 0 .. MaxClock, tag \in S!Tag, del \in BOOLEAN :
        /\ S!Row(t, tag, del) \in SRows
        /\ S!Row(t, tag, del).t = t /\ S!Row(t, tag, del).tag = tag
        /\ S!Row(t, tag, del).del = del
  /\ \A t \in 0 .. MaxClock, kind \in {"shared", "isolated"}, del \in BOOLEAN :
        S!Conv(t, kind, del) \in SConvs
<1>1. ASSUME NEW t \in 0 .. MaxClock, NEW tag \in S!Tag, NEW del \in BOOLEAN
      PROVE  /\ S!Row(t, tag, del) \in SRows
             /\ S!Row(t, tag, del).t = t /\ S!Row(t, tag, del).tag = tag
             /\ S!Row(t, tag, del).del = del
  BY DEF S!Row, SRows
<1>2. ASSUME NEW t \in 0 .. MaxClock, NEW kind \in {"shared", "isolated"}, NEW del \in BOOLEAN
      PROVE  S!Conv(t, kind, del) \in SConvs
  BY DEF S!Conv, SConvs
<1> QED BY <1>1, <1>2

LEMMA SObject ==
  ASSUME NEW m \in Mem, NEW t \in 0 .. MaxClock, NEW tag \in S!Tag, NEW del \in BOOLEAN,
         NEW w \in SUBSET Device
  PROVE  /\ S!Object(m, t, tag, del, w) \in SObjs
         /\ S!Object(m, t, tag, del, w).m = m /\ S!Object(m, t, tag, del, w).t = t
         /\ S!Object(m, t, tag, del, w).tag = tag /\ S!Object(m, t, tag, del, w).del = del
  BY DEF S!Object, SObjs

LEMMA SRun ==
  ASSUME NEW c \in {"idle", "recall", "scope", "tools", "put", "forget", "cut"},
         NEW place \in S!Place, NEW sees \in SUBSET S!Tag, NEW tag \in S!Tag,
         NEW m \in Mem \cup {NoMem}
  PROVE  /\ S!Run(c, place, sees, tag, m) \in SRuns
         /\ S!Run(c, place, sees, tag, m).pc = c /\ S!Run(c, place, sees, tag, m).place = place
         /\ S!Run(c, place, sees, tag, m).sees = sees /\ S!Run(c, place, sees, tag, m).tag = tag
         /\ S!Run(c, place, sees, tag, m).m = m
  BY DEF S!Run, SRuns

LEMMA SFields ==
  /\ \A r \in SRows : r.t \in 0 .. MaxClock /\ r.tag \in S!Tag /\ r.del \in BOOLEAN
  /\ \A f \in SObjs : /\ f.m \in Mem /\ f.t \in 0 .. MaxClock /\ f.tag \in S!Tag
                      /\ f.del \in BOOLEAN
  /\ \A r \in SRuns : /\ r.pc \in {"idle", "recall", "scope", "tools", "put", "forget", "cut"}
                      /\ r.place \in S!Place /\ r.tag \in S!Tag /\ r.m \in Mem \cup {NoMem}
  /\ \A c \in SConvs : c.t \in 0 .. MaxClock /\ c.mode \in {"shared", "isolated"}
                       /\ c.del \in BOOLEAN
  BY DEF SRows, SObjs, SRuns, SConvs

LEMMA SInitInv == ASSUME S!Init, MaxClock \in Nat \ {0} PROVE SInv
<1>1. /\ 0 \in 0 .. MaxClock /\ 1 \in 1 .. MaxClock /\ 1 \in 0 .. MaxClock
      /\ "global" \in S!Tag /\ "outside" \in S!Place
  BY DEF S!Tag, S!Place
<1>2. /\ S!NoRow \in SRows /\ S!NoRow.t = 0 /\ ~S!NoRow.del
      /\ \A m \in Mem : S!NoObject(m) \in SObjs /\ S!NoObject(m).m = m /\ S!NoObject(m).t = 0
      /\ S!Idle \in SRuns /\ S!Idle.pc = "idle" /\ S!Idle.tag = "global"
  <2>1. S!NoRow \in SRows /\ S!NoRow.t = 0 /\ ~S!NoRow.del
    BY <1>1 DEF S!NoRow, S!Row, SRows
  <2>2. ASSUME NEW m \in Mem
        PROVE  S!NoObject(m) \in SObjs /\ S!NoObject(m).m = m /\ S!NoObject(m).t = 0
    BY <1>1 DEF S!NoObject, S!Object, SObjs
  <2>3. S!Idle \in SRuns /\ S!Idle.pc = "idle" /\ S!Idle.tag = "global"
    BY <1>1 DEF S!Idle, S!Run, SRuns
  <2> QED BY <2>1, <2>2, <2>3
<1>3. conv \in [Device -> SConvs]
  <2>1. \A d \in Device : S!Conv(IF d = First THEN 1 ELSE 0, "shared", FALSE) \in SConvs
    BY <1>1, SMakes
  <2> QED BY <2>1 DEF S!Init
<1>4. STyped
  BY <1>1, <1>2, <1>3 DEF S!Init, STyped, ConvTyped
<1>5. \A d \in Device, m \in Mem : mem[d][m].t = 0 /\ forgot[d][m] = 0 /\ writing[d] = {}
  BY <1>2 DEF S!Init
<1>6. \A m \in Mem : Discreet(m)
  BY <1>2, <1>5 DEF S!Init, Discreet, S!Written
<1>7. \A d \in Device : InHand(d)
  BY <1>2 DEF S!Init, InHand
<1>8. \A d \in Device, m \in Mem : Forgotten(d, m)
  BY <1>4, <1>5 DEF Forgotten, STyped
<1> QED BY <1>4, <1>6, <1>7, <1>8 DEF SInv

\* A step that touches no memory that nobody has, and confides nothing.
LEMMA SFrame ==
  ASSUME \A m \in Mem : Discreet(m), confided' = confided,
         \A e \in Device, m \in Mem :
            /\ mem[e][m].t > 0 => mem'[e][m].t > 0
            /\ mem'[e][m].t > 0 => m \in S!Written
            /\ m \in confided /\ mem'[e][m].t > 0 => mem'[e][m].tag = "inside",
         \A m \in Mem : \/ memFile'[m] = memFile[m]
                        \/ /\ m \in S!Written
                           /\ m \in confided => memFile'[m].tag = "inside",
         \A e \in Device : \A f \in writing'[e] :
            \/ f \in writing[e]
            \/ /\ f.m \in S!Written /\ f.t > 0
               /\ f.m \in confided => f.tag = "inside",
         \A m \in toldOutside' :
            m \in toldOutside \/ (m \in S!Written /\ m \notin confided)
  PROVE  /\ S!Written' = S!Written
         /\ \A m \in Mem : Discreet(m)'
<1>1. S!Written' = S!Written
  BY DEF S!Written
<1>2. ASSUME NEW m \in Mem PROVE Discreet(m)'
  <2>1. Discreet(m)
    BY <1>2
  <2>2. ASSUME m \in confided
        PROVE  /\ \A d \in Device : mem'[d][m].t > 0 => mem'[d][m].tag = "inside"
               /\ memFile'[m].t > 0 => memFile'[m].tag = "inside"
               /\ m \notin toldOutside'
    BY <1>2, <2>1, <2>2 DEF Discreet
  <2>3. \A d \in Device : \A f \in writing'[d] :
          f.m = m => f.t > 0 /\ (m \in confided => f.tag = "inside")
    BY <2>1 DEF Discreet
  <2>4. ASSUME m \notin S!Written
        PROVE  /\ memFile'[m].t = 0 /\ m \notin toldOutside' /\ m \notin confided
               /\ \A d \in Device : \A f \in writing'[d] : f.m # m
    BY <1>2, <2>1, <2>4 DEF Discreet
  <2> QED BY <1>1, <2>2, <2>3, <2>4 DEF Discreet
<1> QED BY <1>1, <1>2

LEMMA SConvSteps ==
  ASSUME SInv, MaxClock \in Nat \ {0}, NEW d \in Device,
         \/ \E kind \in {"shared", "isolated"} : S!SetMemoryScope(d, kind)
         \/ \E del \in BOOLEAN : S!Touch(d, del)
         \/ S!PushConv(d) \/ S!PullConv(d)
  PROVE  SInv'
<1>1. STyped /\ ConvTyped /\ conv[d] \in SConvs
  BY DEF SInv, STyped, ConvTyped
<1>2. /\ UNCHANGED <<mem, memMirror, memFile, writing, run, confided, toldOutside, forgot, raced>>
      /\ clock' \in 1 .. MaxClock /\ clock <= clock'
  <2>1. clock' = clock \/ (clock < MaxClock /\ clock' = clock + 1)
    BY DEF S!SetMemoryScope, S!Touch, S!PushConv, S!PullConv, S!Tick, S!counts
  <2>2. UNCHANGED <<mem, memMirror, memFile, writing, run, confided, toldOutside, forgot, raced>>
    BY DEF S!SetMemoryScope, S!Touch, S!PushConv, S!PullConv, S!mems, S!history
  <2>3. clock \in 1 .. MaxClock
    BY <1>1 DEF STyped
  <2> QED BY <2>1, <2>2, <2>3
<1>3. ConvTyped'
  <2>1. CASE \E kind \in {"shared", "isolated"} : S!SetMemoryScope(d, kind)
    <3>1. PICK kind \in {"shared", "isolated"} :
            conv' = [conv EXCEPT ![d] = S!Conv(conv[d].t, kind, conv[d].del)]
      BY <2>1 DEF S!SetMemoryScope
    <3>2. S!Conv(conv[d].t, kind, conv[d].del) \in SConvs /\ convFile' = convFile
      BY <1>1, <2>1, SMakes, SFields DEF S!SetMemoryScope
    <3> QED BY <1>1, <3>1, <3>2 DEF ConvTyped
  <2>2. CASE \E del \in BOOLEAN : S!Touch(d, del)
    <3>1. PICK del \in BOOLEAN :
            conv' = [conv EXCEPT ![d] = S!Conv(clock', conv[d].mode, del)]
      BY <2>2 DEF S!Touch
    <3>2. S!Conv(clock', conv[d].mode, del) \in SConvs /\ convFile' = convFile
      <4>1. clock' \in 0 .. MaxClock /\ conv[d].mode \in {"shared", "isolated"}
        BY <1>1, <1>2, SFields
      <4> QED BY <2>2, <4>1, SMakes DEF S!Touch
    <3> QED BY <1>1, <3>1, <3>2 DEF ConvTyped
  <2>3. CASE S!PushConv(d)
    BY <1>1, <2>3, SFields DEF S!PushConv, ConvTyped
  <2>4. CASE S!PullConv(d)
    <3>1. /\ S!Conv(convFile.t, conv[d].mode, TRUE) \in SConvs
          /\ S!Conv(convFile.t, convFile.mode, FALSE) \in SConvs
      BY <1>1, SMakes, SFields DEF ConvTyped
    <3> QED BY <1>1, <2>4, <3>1 DEF S!PullConv, ConvTyped
  <2> QED BY <2>1, <2>2, <2>3, <2>4
<1>4. STyped'
  BY <1>1, <1>2, <1>3 DEF STyped
<1>5. \A m \in Mem : Discreet(m)'
  BY <1>2 DEF SInv, Discreet, S!Written
<1>6. \A e \in Device : InHand(e)'
  BY <1>2 DEF SInv, InHand, S!Written
<1>7. \A e \in Device, m \in Mem : Forgotten(e, m)'
  BY <1>1, <1>2 DEF SInv, Forgotten, STyped
<1> QED BY <1>4, <1>5, <1>6, <1>7 DEF SInv
\* The steps of a run that write no memory.
LEMMA SRunSteps ==
  ASSUME SInv, NEW d \in Device, NEW new \in SRuns,
         run' = [run EXCEPT ![d] = new],
         UNCHANGED <<clock, conv, convFile, mem, memMirror, memFile, confided, forgot, raced>>,
         \A e \in Device : writing'[e] = writing[e] \/ writing'[e] = {},
         writing' \in [Device -> SUBSET SObjs],
         toldOutside' \subseteq Mem,
         \A m \in toldOutside' :
            m \in toldOutside \/ (m \in S!Written /\ m \notin confided),
         new.pc \in {"put", "forget"} => new.m \in Mem,
         new.pc = "put" => /\ new.m \notin S!Written
                           /\ \A e \in Device \ {d} : run[e].pc = "put" => run[e].m # new.m,
         new.pc = "forget" => mem[d][new.m].t > 0,
         new.place = "outside" =>
            /\ new.tag = "global"
            /\ new.pc = "recall" => new.sees \subseteq {"global"}
            /\ new.pc = "forget" => new.m \notin confided
  PROVE  SInv'
<1>1. STyped /\ (\A m \in Mem : Discreet(m)) /\ (\A e \in Device : InHand(e))
      /\ \A e \in Device, m \in Mem : Forgotten(e, m)
  BY DEF SInv
<1>2. STyped'
  BY <1>1 DEF STyped, ConvTyped
<1>3. S!Written' = S!Written /\ \A m \in Mem : Discreet(m)'
  <2>1. \A e \in Device, m \in Mem :
          /\ mem[e][m].t > 0 => mem'[e][m].t > 0
          /\ mem'[e][m].t > 0 => m \in S!Written
          /\ m \in confided /\ mem'[e][m].t > 0 => mem'[e][m].tag = "inside"
    BY <1>1 DEF Discreet, S!Written
  <2> QED BY <1>1, <2>1, SFrame
<1>4. /\ run'[d] = new /\ \A e \in Device \ {d} : run'[e] = run[e]
  BY <1>1 DEF STyped
<1>5. InHand(d)'
  BY <1>3, <1>4 DEF InHand
<1>6. ASSUME NEW e \in Device, e # d PROVE InHand(e)'
  <2>1. run'[e] = run[e] /\ InHand(e)
    BY <1>1, <1>4, <1>6
  <2>2. ASSUME run[e].pc = "put"
        PROVE  \A x \in Device \ {e} : run'[x].pc = "put" => run'[x].m # run[e].m
    BY <1>4, <1>6, <2>1, <2>2 DEF InHand
  <2> QED BY <1>3, <2>1, <2>2 DEF InHand
<1>7. \A e \in Device, m \in Mem : Forgotten(e, m)'
  BY <1>1 DEF Forgotten
<1> QED BY <1>2, <1>3, <1>5, <1>6, <1>7 DEF SInv

\* What a recall finds is written; without the conversation's tag, not confided.
LEMMA SRecall ==
  ASSUME SInv, NEW d \in Device, NEW tags, NEW m \in S!Recall(d, tags)
  PROVE  /\ m \in Mem /\ m \in S!Written /\ mem[d][m].t > 0
         /\ tags \subseteq {"global"} => m \notin confided
<1>1. m \in Mem /\ mem[d][m].t > 0 /\ mem[d][m].tag \in tags
  BY DEF S!Recall
<1>2. m \in S!Written
  BY <1>1 DEF S!Written
<1>3. m \in confided => mem[d][m].tag = "inside"
  BY <1>1 DEF SInv, Discreet
<1> QED BY <1>1, <1>2, <1>3

LEMMA SReads ==
  ASSUME SInv, NEW d \in Device,
         S!Start(d) \/ S!RecallInput(d) \/ S!Scope(d) \/ S!End(d) \/ S!Die(d) \/ S!Resume(d)
  PROVE  SInv'
<1>0. /\ run[d] \in SRuns /\ run[d].place \in S!Place /\ InHand(d) /\ STyped
      /\ writing \in [Device -> SUBSET SObjs] /\ toldOutside \subseteq Mem
      /\ {"inside", "global"} \subseteq S!Tag /\ NoMem \in Mem \cup {NoMem}
      /\ "outside" \in S!Place
  BY SFields DEF SInv, STyped, S!Tag, S!Place
<1>1. CASE S!Start(d)
  <2>1. PICK place \in S!Place :
          run' = [run EXCEPT ![d] =
                    S!Run("recall", place, S!Visible(d, place), "global", NoMem)]
    BY <1>1 DEF S!Start, S!Step
  <2>2. PICK sees \in SUBSET S!Tag :
          sees = S!Visible(d, place) /\ (place = "outside" => sees \subseteq {"global"})
    BY <1>0 DEF S!Visible
  <2>3. PICK new : new = S!Run("recall", place, sees, "global", NoMem)
    OBVIOUS
  <2>4. new \in SRuns /\ new.pc = "recall" /\ new.place = place /\ new.sees = sees
        /\ new.tag = "global"
    BY <1>0, <2>3, SRun
  <2>5. UNCHANGED <<clock, conv, convFile, mem, memMirror, memFile, writing, confided, forgot,
                    raced, toldOutside>>
    BY <1>1 DEF S!Start, S!counts, S!convs, S!mems, S!history
  <2> QED BY <1>0, <2>1, <2>2, <2>3, <2>4, <2>5, SRunSteps
<1>2. CASE S!RecallInput(d)
  <2>1. PICK new : new = S!Run("scope", run[d].place, {}, "global", NoMem)
    OBVIOUS
  <2>2. new \in SRuns /\ new.pc = "scope" /\ new.tag = "global"
    BY <1>0, <2>1, SRun
  <2>3. /\ UNCHANGED <<clock, conv, convFile, mem, memMirror, memFile, writing, confided, forgot,
                       raced>>
        /\ run' = [run EXCEPT ![d] = new]
    BY <1>2, <2>1 DEF S!RecallInput, S!counts, S!convs, S!mems, S!Step
  <2>4. \A m \in toldOutside' :
          m \in toldOutside \/ (m \in Mem /\ m \in S!Written /\ m \notin confided)
    <3>1. CASE run[d].place = "outside"
      <4>1. toldOutside' = toldOutside \cup S!Recall(d, run[d].sees)
            /\ run[d].sees \subseteq {"global"}
        BY <1>0, <1>2, <3>1 DEF S!RecallInput, S!Tell, InHand
      <4> QED BY <4>1, SRecall
    <3>2. CASE run[d].place # "outside"
      BY <1>2, <3>2 DEF S!RecallInput, S!Tell
    <3> QED BY <3>1, <3>2
  <2> QED BY <1>0, <2>2, <2>3, <2>4, SRunSteps
<1>3. CASE S!Scope(d)
  <2>1. PICK tag \in S!Tag :
          /\ run' = [run EXCEPT ![d] = S!Run("tools", run[d].place, {}, tag, NoMem)]
          /\ run[d].place = "outside" => tag = "global"
    <3>1. run[d].place = "outside" => S!Visible(d, run[d].place) # {"inside"}
      BY DEF S!Visible
    <3> QED BY <1>0, <1>3, <3>1 DEF S!Scope, S!Step
  <2>2. PICK new : new = S!Run("tools", run[d].place, {}, tag, NoMem)
    OBVIOUS
  <2>3. new \in SRuns /\ new.pc = "tools" /\ new.place = run[d].place /\ new.tag = tag
    BY <1>0, <2>2, SRun
  <2>4. UNCHANGED <<clock, conv, convFile, mem, memMirror, memFile, writing, confided, forgot,
                    raced, toldOutside>>
    BY <1>3 DEF S!Scope, S!counts, S!convs, S!mems, S!history
  <2> QED BY <1>0, <2>1, <2>2, <2>3, <2>4, SRunSteps
<1>4. CASE S!End(d) \/ S!Resume(d) \/ S!Die(d)
  <2>1. PICK where \in {"idle", "cut", "scope"}, place \in S!Place :
          run' = [run EXCEPT ![d] = S!Run(where, place, {}, "global", NoMem)]
    BY <1>0, <1>4 DEF S!End, S!Resume, S!Die, S!Step, S!Idle
  <2>2. PICK new : new = S!Run(where, place, {}, "global", NoMem)
    OBVIOUS
  <2>3. new \in SRuns /\ new.pc \in {"idle", "cut", "scope"} /\ new.tag = "global"
    BY <1>0, <2>2, SRun
  <2>4. /\ UNCHANGED <<clock, conv, convFile, mem, memMirror, memFile, confided, forgot,
                       raced, toldOutside>>
        /\ writing' = writing \/ writing' = [writing EXCEPT ![d] = {}]
    BY <1>4 DEF S!End, S!Resume, S!Die, S!counts, S!convs, S!mems, S!history
  <2>5. /\ writing' \in [Device -> SUBSET SObjs]
        /\ \A e \in Device : writing'[e] = writing[e] \/ writing'[e] = {}
    BY <1>0, <2>4
  <2> QED BY <1>0, <2>1, <2>2, <2>3, <2>4, <2>5, SRunSteps
<1> QED BY <1>1, <1>2, <1>3, <1>4

\* What a run picks, to write it or to forget it.
LEMMA SPicks ==
  ASSUME SInv, NEW d \in Device, S!Remember(d) \/ S!Forget(d)
  PROVE  SInv'
<1>0. /\ run[d] \in SRuns /\ run[d].place \in S!Place /\ run[d].tag \in S!Tag /\ InHand(d)
      /\ writing \in [Device -> SUBSET SObjs] /\ toldOutside \subseteq Mem
  BY SFields DEF SInv, STyped
<1>1. UNCHANGED <<clock, conv, convFile, mem, memMirror, memFile, writing, confided, forgot,
                  raced, toldOutside>>
  BY DEF S!Remember, S!Forget, S!counts, S!convs, S!mems, S!history
<1>2. CASE S!Remember(d)
  <2>1. PICK m \in Mem \ (S!Written \cup S!Pending) :
          run' = [run EXCEPT ![d] = S!Run("put", run[d].place, {}, run[d].tag, m)]
    BY <1>2 DEF S!Remember, S!Call, S!Step
  <2>2. PICK new : new = S!Run("put", run[d].place, {}, run[d].tag, m)
    OBVIOUS
  <2>3. new \in SRuns /\ new.pc = "put" /\ new.place = run[d].place /\ new.tag = run[d].tag
        /\ new.m = m
    BY <1>0, <2>2, SRun
  <2>4. \A e \in Device : run[e].m # m
    BY <2>1 DEF S!Pending
  <2> QED BY <1>0, <1>1, <2>1, <2>2, <2>3, <2>4, SRunSteps DEF InHand
<1>3. CASE S!Forget(d)
  <2> DEFINE tags == IF run[d].tag = "inside" THEN {"inside", "global"} ELSE {"global"}
  <2>1. PICK m \in S!Recall(d, tags) :
          run' = [run EXCEPT ![d] = S!Run("forget", run[d].place, {}, run[d].tag, m)]
    BY <1>3 DEF S!Forget, S!Call, S!Step
  <2>2. PICK new : new = S!Run("forget", run[d].place, {}, run[d].tag, m)
    OBVIOUS
  <2>3. m \in Mem /\ mem[d][m].t > 0 /\ (run[d].tag = "global" => m \notin confided)
    BY <2>1, SRecall
  <2>4. new \in SRuns /\ new.pc = "forget" /\ new.place = run[d].place /\ new.tag = run[d].tag
        /\ new.m = m
    BY <1>0, <2>2, <2>3, SRun
  <2> QED BY <1>0, <1>1, <2>1, <2>2, <2>3, <2>4, SRunSteps DEF InHand
<1> QED BY <1>2, <1>3
\* One row of a memory that somebody has is overwritten.
LEMMA SWrites ==
  ASSUME SInv, NEW d \in Device, NEW x \in Mem, NEW new \in SRows,
         x \in S!Written, new.t > 0, x \in confided => new.tag = "inside",
         mem' = [mem EXCEPT ![d][x] = new],
         clock' \in 1 .. MaxClock, clock <= clock',
         UNCHANGED <<conv, convFile, memFile, confided>>,
         memMirror' \in [Device -> [Mem -> 0 .. MaxClock]],
         writing' \in [Device -> SUBSET SObjs],
         \A e \in Device : writing'[e] \subseteq writing[e],
         run' \in [Device -> SRuns],
         \A e \in Device :
            \/ run'[e] = run[e]
            \/ /\ run'[e].pc = "tools" /\ run'[e].place = run[e].place
               /\ run'[e].tag = run[e].tag,
         toldOutside' \subseteq Mem,
         \A m \in toldOutside' :
            m \in toldOutside \/ (m \in S!Written /\ m \notin confided),
         forgot' \in [Device -> [Mem -> 0 .. MaxClock]],
         raced \subseteq raced',
         \A e \in Device, m \in Mem : ~(e = d /\ m = x) => forgot'[e][m] = forgot[e][m],
         Forgotten(d, x)'
  PROVE  SInv'
<1>1. STyped /\ (\A m \in Mem : Discreet(m)) /\ (\A e \in Device : InHand(e))
      /\ \A e \in Device, m \in Mem : Forgotten(e, m)
  BY DEF SInv
<1>2. /\ mem' \in [Device -> [Mem -> SRows]] /\ mem'[d][x] = new
      /\ \A e \in Device, m \in Mem : ~(e = d /\ m = x) => mem'[e][m] = mem[e][m]
  BY <1>1 DEF STyped
<1>3. STyped'
  BY <1>1, <1>2 DEF STyped, ConvTyped
<1>4. S!Written' = S!Written /\ \A m \in Mem : Discreet(m)'
  <2>1. \A e \in Device, m \in Mem :
          /\ mem[e][m].t > 0 => mem'[e][m].t > 0
          /\ mem'[e][m].t > 0 => m \in S!Written
          /\ m \in confided /\ mem'[e][m].t > 0 => mem'[e][m].tag = "inside"
    BY <1>1, <1>2 DEF Discreet, S!Written
  <2> QED BY <1>1, <2>1, SFrame
<1>5. ASSUME NEW e \in Device PROVE InHand(e)'
  <2>1. InHand(e)
    BY <1>1
  <2>2. CASE run'[e] = run[e]
    <3>1. ASSUME run[e].pc = "put"
          PROVE  \A y \in Device \ {e} : run'[y].pc = "put" => run'[y].m # run[e].m
      BY <2>1, <3>1 DEF InHand
    <3>2. run[e].pc = "forget" => mem'[e][run[e].m].t > 0
      BY <1>2, <2>1 DEF InHand
    <3> QED BY <1>4, <2>1, <2>2, <3>1, <3>2 DEF InHand
  <2>3. CASE run'[e].pc = "tools" /\ run'[e].place = run[e].place /\ run'[e].tag = run[e].tag
    BY <2>1, <2>3 DEF InHand
  <2> QED BY <2>2, <2>3
<1>6. ASSUME NEW e \in Device, NEW m \in Mem PROVE Forgotten(e, m)'
  <2>1. CASE e = d /\ m = x
    BY <2>1
  <2>2. CASE ~(e = d /\ m = x)
    <3>1. /\ Forgotten(e, m) /\ mem'[e][m] = mem[e][m] /\ forgot'[e][m] = forgot[e][m]
          /\ forgot[e][m] \in Nat /\ clock \in Nat /\ clock' \in Nat
      BY <1>1, <1>2, <2>2 DEF STyped
    <3> QED BY <3>1 DEF Forgotten
  <2> QED BY <2>1, <2>2
<1> QED BY <1>3, <1>4, <1>5, <1>6 DEF SInv

\* forget and share.
LEMMA SDeletes ==
  ASSUME SInv, MaxClock \in Nat \ {0}, NEW d \in Device,
         S!ForgetHit(d) \/ \E m \in Mem : S!UserForget(d, m) \/ S!Share(d, m)
  PROVE  SInv'
<1>1. PICK x \in Mem, del \in BOOLEAN :
        /\ clock < MaxClock /\ clock' = clock + 1
        /\ mem' = [mem EXCEPT ![d][x] = S!Row(clock', mem[d][x].tag, del)]
        /\ mem[d][x].t > 0
        /\ \/ forgot' = [forgot EXCEPT ![d][x] = clock'] /\ del
              /\ raced' = IF \E f \in writing[d] : f.m = x THEN raced \cup {d} ELSE raced
           \/ UNCHANGED <<forgot, raced>> /\ del = mem[d][x].del
        /\ toldOutside' = toldOutside
              \/ (run[d].place = "outside" /\ x \notin confided
                    /\ toldOutside' = toldOutside \cup {x})
        /\ \/ run' = run
           \/ run' = [run EXCEPT ![d] = S!Run("tools", run[d].place, {}, run[d].tag, NoMem)]
        /\ UNCHANGED <<conv, convFile, memMirror, memFile, writing, confided>>
  <2>1. CASE S!ForgetHit(d)
    <3>1. run[d].m \in Mem /\ mem[d][run[d].m].t > 0
          /\ (run[d].place = "outside" => run[d].m \notin confided)
      BY <2>1 DEF SInv, InHand, S!ForgetHit
    <3> QED BY <2>1, <3>1 DEF S!ForgetHit, S!Deleted, S!Tick, S!Tell, S!Call, S!Step, S!convs
  <2>2. ASSUME NEW m \in Mem, S!UserForget(d, m)
        PROVE  /\ mem[d][m].t > 0 /\ S!Deleted(d, m)
               /\ UNCHANGED <<conv, convFile, run, toldOutside>>
    BY <2>2 DEF S!UserForget, S!convs
  <2>3. ASSUME NEW m \in Mem, S!Share(d, m)
        PROVE  /\ mem[d][m].t > 0 /\ S!Tick
               /\ mem' = [mem EXCEPT ![d][m] = S!Row(clock', mem[d][m].tag, mem[d][m].del)]
               /\ UNCHANGED <<conv, convFile, memMirror, memFile, writing, run, confided,
                              toldOutside, forgot, raced>>
    BY <2>3 DEF S!Share, S!convs, S!history
  <2>4. \A m \in Mem : mem[d][m].del \in BOOLEAN
    BY SFields DEF SInv, STyped
  <2> QED BY <2>1, <2>2, <2>3, <2>4 DEF S!Deleted, S!Tick
<1>2. /\ STyped /\ clock \in 1 .. MaxClock /\ mem[d][x] \in SRows /\ run[d] \in SRuns
      /\ Discreet(x) /\ Forgotten(d, x)
      /\ forgot \in [Device -> [Mem -> 0 .. MaxClock]] /\ run \in [Device -> SRuns]
      /\ memMirror \in [Device -> [Mem -> 0 .. MaxClock]] /\ writing \in [Device -> SUBSET SObjs]
      /\ toldOutside \subseteq Mem
  BY DEF SInv, STyped
<1>3. /\ clock' \in 1 .. MaxClock /\ clock' \in 0 .. MaxClock /\ clock <= clock' /\ clock' > 0
      /\ mem[d][x].tag \in S!Tag
  BY <1>1, <1>2, SFields
<1>4. PICK new \in SRows :
        /\ new = S!Row(clock', mem[d][x].tag, del) /\ new.t = clock'
        /\ new.tag = mem[d][x].tag /\ new.del = del
  BY <1>3, SMakes
<1>5. /\ run' \in [Device -> SRuns]
      /\ \A e \in Device :
            \/ run'[e] = run[e]
            \/ run'[e].pc = "tools" /\ run'[e].place = run[e].place /\ run'[e].tag = run[e].tag
  <2>1. PICK r : r = S!Run("tools", run[d].place, {}, run[d].tag, NoMem)
    OBVIOUS
  <2>2. r \in SRuns /\ r.pc = "tools" /\ r.place = run[d].place /\ r.tag = run[d].tag
    <3>1. run[d].place \in S!Place /\ run[d].tag \in S!Tag
      BY <1>2, SFields
    <3> QED BY <2>1, <3>1, SRun
  <2> QED BY <1>1, <1>2, <2>1, <2>2
<1>6. /\ forgot' \in [Device -> [Mem -> 0 .. MaxClock]]
      /\ \A e \in Device, m \in Mem : ~(e = d /\ m = x) => forgot'[e][m] = forgot[e][m]
      /\ forgot'[d][x] = forgot[d][x] \/ (forgot'[d][x] = clock' /\ del
            /\ raced' = IF \E f \in writing[d] : f.m = x THEN raced \cup {d} ELSE raced)
      /\ forgot'[d][x] = forgot[d][x] =>
            \/ raced' = raced
            \/ raced' = IF \E f \in writing[d] : f.m = x THEN raced \cup {d} ELSE raced
  <2>1. CASE /\ forgot' = [forgot EXCEPT ![d][x] = clock'] /\ del
             /\ raced' = IF \E f \in writing[d] : f.m = x THEN raced \cup {d} ELSE raced
    <3>1. /\ forgot' \in [Device -> [Mem -> 0 .. MaxClock]] /\ forgot'[d][x] = clock'
          /\ \A e \in Device, m \in Mem : ~(e = d /\ m = x) => forgot'[e][m] = forgot[e][m]
      BY <1>2, <1>3, <2>1
    <3> QED BY <2>1, <3>1
  <2>2. CASE UNCHANGED <<forgot, raced>>
    BY <1>2, <2>2
  <2> QED BY <1>1, <2>1, <2>2
<1>7. x \in confided => new.tag = "inside"
  BY <1>1, <1>2, <1>4 DEF Discreet
<1>8. x \in S!Written
  BY <1>1 DEF S!Written
<1>9. Forgotten(d, x)'
  <2>1. mem'[d][x] = new /\ forgot[d][x] <= clock /\ forgot[d][x] \in Nat
    BY <1>1, <1>2, <1>4 DEF STyped, Forgotten
  <2>2. forgot[d][x] < clock' /\ clock' \in Nat
    BY <1>1, <1>2, <2>1
  <2>3. d \notin raced' => d \notin raced
    BY <1>1
  <2>4. CASE forgot'[d][x] = forgot[d][x]
    BY <1>1, <1>2, <1>4, <2>1, <2>2, <2>3, <2>4 DEF Forgotten
  <2>5. CASE /\ forgot'[d][x] = clock' /\ del
             /\ raced' = IF \E f \in writing[d] : f.m = x THEN raced \cup {d} ELSE raced
    <3>1. d \notin raced' => \A f \in writing'[d] : f.m # x
      <4>1. (\E f \in writing[d] : f.m = x) => d \in raced'
        BY <2>5
      <4>2. writing'[d] = writing[d]
        BY <1>1
      <4> QED BY <4>1, <4>2
    <3>2. /\ forgot'[d][x] <= clock' /\ forgot'[d][x] <= mem'[d][x].t
          /\ mem'[d][x].del
      <4>1. mem'[d][x].t = clock' /\ forgot'[d][x] = clock'
        BY <1>4, <2>1, <2>5
      <4>2. mem'[d][x].del = TRUE
        BY <1>4, <2>1, <2>5, Zenon
      <4>3. clock' <= clock'
        BY <2>2
      <4> QED BY <4>1, <4>2, <4>3
    <3> QED BY <3>1, <3>2 DEF Forgotten
  <2> QED BY <1>6, <2>4, <2>5
<1>10. mem' = [mem EXCEPT ![d][x] = new] /\ raced \subseteq raced' /\ new.t > 0
  BY <1>1, <1>3, <1>4
<1>11. /\ toldOutside' \subseteq Mem
       /\ \A m \in toldOutside' :
             m \in toldOutside \/ (m \in S!Written /\ m \notin confided)
  BY <1>1, <1>2, <1>8
<1> QED BY <1>1, <1>2, <1>3, <1>5, <1>6, <1>7, <1>8, <1>9, <1>10, <1>11, SWrites
\* A memory that nobody has is put; what was confided is tagged.
LEMMA SPuts == ASSUME SInv, MaxClock \in Nat \ {0}, NEW d \in Device, S!Put(d) PROVE SInv'
<1>1. STyped /\ (\A m \in Mem : Discreet(m)) /\ (\A e \in Device : InHand(e))
      /\ \A e \in Device, m \in Mem : Forgotten(e, m)
  BY DEF SInv
<1>2. PICK x \in Mem : x = run[d].m /\ x \notin S!Written /\ run[d].pc = "put"
  BY <1>1 DEF InHand, S!Put
<1>3. /\ clock < MaxClock /\ clock' = clock + 1
      /\ mem' = [mem EXCEPT ![d][x] = S!Row(clock', run[d].tag, FALSE)]
      /\ confided' = IF run[d].tag = "inside" THEN confided \cup {x} ELSE confided
      /\ run' = [run EXCEPT ![d] = S!Run("tools", run[d].place, {}, run[d].tag, NoMem)]
      /\ UNCHANGED <<conv, convFile, memMirror, memFile, writing, toldOutside, forgot, raced>>
  BY <1>2 DEF S!Put, S!Tick, S!Call, S!Step, S!convs
<1>4. /\ clock \in Nat /\ clock' \in 1 .. MaxClock /\ clock' \in 0 .. MaxClock /\ clock < clock'
      /\ run[d].place \in S!Place /\ run[d].tag \in S!Tag
  BY <1>1, <1>3, SFields DEF STyped
<1>5. PICK new \in SRows : /\ mem' = [mem EXCEPT ![d][x] = new]
                          /\ new.t = clock' /\ new.tag = run[d].tag /\ ~new.del
  <2>1. PICK r : r = S!Row(clock', run[d].tag, FALSE)
    OBVIOUS
  <2>2. r \in SRows /\ r.t = clock' /\ r.tag = run[d].tag /\ r.del = FALSE
    BY <1>4, <2>1, SMakes
  <2> QED BY <1>3, <2>1, <2>2
<1>6. PICK r \in SRuns : /\ run' = [run EXCEPT ![d] = r]
                        /\ r.pc = "tools" /\ r.place = run[d].place /\ r.tag = run[d].tag
  <2>1. PICK r : r = S!Run("tools", run[d].place, {}, run[d].tag, NoMem)
    OBVIOUS
  <2>2. r \in SRuns /\ r.pc = "tools" /\ r.place = run[d].place /\ r.tag = run[d].tag
    BY <1>4, <2>1, SRun
  <2> QED BY <1>3, <2>1, <2>2
<1>7. /\ mem' \in [Device -> [Mem -> SRows]] /\ mem'[d][x] = new
      /\ \A e \in Device, m \in Mem : ~(e = d /\ m = x) => mem'[e][m] = mem[e][m]
      /\ run' \in [Device -> SRuns] /\ run'[d] = r
      /\ \A e \in Device \ {d} : run'[e] = run[e]
  BY <1>1, <1>5, <1>6 DEF STyped
<1>8. STyped'
  BY <1>1, <1>3, <1>4, <1>7 DEF STyped, ConvTyped
<1>9. S!Written' = S!Written \cup {x}
  <2>1. ASSUME NEW m \in Mem, m # x PROVE m \in S!Written' <=> m \in S!Written
    BY <1>7, <2>1 DEF S!Written
  <2>2. x \in S!Written'
    BY <1>4, <1>5, <1>7 DEF S!Written
  <2>3. S!Written \subseteq Mem /\ S!Written' \subseteq Mem
    BY DEF S!Written
  <2> QED BY <2>1, <2>2, <2>3
<1>10. ASSUME NEW m \in Mem PROVE Discreet(m)'
  <2>0. Discreet(m)
    BY <1>1
  <2>1. CASE m # x
    <3>1. /\ m \in confided' <=> m \in confided
          /\ m \in S!Written' <=> m \in S!Written
          /\ \A e \in Device : mem'[e][m] = mem[e][m]
      BY <1>3, <1>7, <1>9, <2>1
    <3> QED BY <1>3, <2>0, <3>1 DEF Discreet
  <2>2. CASE m = x
    <3>1. /\ memFile[x].t = 0 /\ x \notin toldOutside /\ x \notin confided
          /\ \A e \in Device : \A f \in writing[e] : f.m # x
      BY <1>2, <2>0, <2>2 DEF Discreet
    <3>2. \A e \in Device : e # d => ~(mem'[e][x].t > 0)
      <4>1. \A e \in Device : ~(mem[e][x].t > 0)
        BY <1>2 DEF S!Written
      <4> QED BY <1>7, <4>1
    <3>3. x \in confided' => \A e \in Device : mem'[e][x].t > 0 => mem'[e][x].tag = "inside"
      BY <1>3, <1>5, <1>7, <3>1, <3>2
    <3>4. x \in S!Written'
      BY <1>9
    <3>5. /\ memFile'[x].t = 0 /\ x \notin toldOutside'
          /\ \A e \in Device : \A f \in writing'[e] : f.m # x
      BY <1>3, <3>1
    <3>6. ~(memFile'[x].t > 0)
      BY <3>5
    <3>7. Discreet(x)'
      BY <3>3, <3>4, <3>5, <3>6 DEF Discreet
    <3> QED BY <2>2, <3>7
  <2> QED BY <2>1, <2>2
<1>11. ASSUME NEW e \in Device PROVE InHand(e)'
  <2>0. InHand(e) /\ InHand(d)
    BY <1>1
  <2>1. CASE e = d
    BY <1>6, <1>7, <2>0, <2>1 DEF InHand
  <2>2. CASE e # d
    <3>1. run'[e] = run[e]
      BY <1>7, <2>2
    <3>2. ASSUME run[e].pc = "put"
          PROVE  /\ run[e].m \notin S!Written'
                 /\ \A y \in Device \ {e} : run'[y].pc = "put" => run'[y].m # run[e].m
      <4>1. run[e].m \notin S!Written /\ run[e].m # x
        BY <1>2, <2>0, <2>2, <3>2 DEF InHand
      <4>2. \A y \in Device \ {e} : run'[y].pc = "put" => run'[y].m # run[e].m
        BY <1>6, <1>7, <2>0, <3>2 DEF InHand
      <4> QED BY <1>9, <4>1, <4>2
    <3>3. ASSUME run[e].pc = "forget"
          PROVE  /\ mem'[e][run[e].m].t > 0
                 /\ run[e].place = "outside" => run[e].m \notin confided'
      <4>1. mem[e][run[e].m].t > 0 /\ run[e].m \in Mem
        BY <2>0, <3>3 DEF InHand
      <4>2. run[e].m # x
        BY <1>2, <4>1 DEF S!Written
      <4> QED BY <1>3, <1>7, <2>0, <3>3, <4>1, <4>2 DEF InHand
    <3> QED BY <2>0, <3>1, <3>2, <3>3 DEF InHand
  <2> QED BY <2>1, <2>2
<1>12. ASSUME NEW e \in Device, NEW m \in Mem PROVE Forgotten(e, m)'
  <2>1. Forgotten(e, m) /\ forgot[e][m] \in Nat
    BY <1>1 DEF STyped
  <2>2. CASE e = d /\ m = x
    <3>1. \A f \in writing[e] : f.m # x
      BY <1>1, <1>2 DEF Discreet
    <3>2. /\ forgot'[e][m] = forgot[e][m] /\ mem'[e][m] = new /\ writing'[e] = writing[e]
      BY <1>3, <1>7, <2>2
    <3>3. forgot[e][m] <= clock
      BY <2>1 DEF Forgotten
    <3>4. /\ forgot[e][m] < new.t /\ forgot[e][m] <= clock' /\ forgot[e][m] <= new.t
      BY <1>3, <1>4, <1>5, <2>1, <3>3
    <3> QED BY <2>2, <3>1, <3>2, <3>4 DEF Forgotten
  <2>3. CASE ~(e = d /\ m = x)
    <3>1. /\ forgot'[e][m] = forgot[e][m] /\ mem'[e][m] = mem[e][m]
          /\ writing'[e] = writing[e] /\ raced' = raced
      BY <1>3, <1>7, <2>3
    <3>2. forgot[e][m] <= clock'
      BY <1>3, <1>4, <2>1 DEF Forgotten
    <3> QED BY <2>1, <3>1, <3>2 DEF Forgotten
  <2> QED BY <2>2, <2>3
<1> QED BY <1>8, <1>10, <1>11, <1>12 DEF SInv

\* The exchange of the memories, but for the second half of apply_memory.
LEMMA SExchanges ==
  ASSUME SInv, NEW d \in Device, NEW x \in Mem, S!PushMem(d, x) \/ S!PullCheck(d, x)
  PROVE  SInv'
<1>1. STyped /\ (\A m \in Mem : Discreet(m)) /\ (\A e \in Device : InHand(e))
      /\ (\A e \in Device, m \in Mem : Forgotten(e, m)) /\ mem[d][x] \in SRows
      /\ memFile[x] \in SObjs /\ memFile[x].m = x
  BY DEF SInv, STyped
<1>2. UNCHANGED <<clock, conv, convFile, mem, run, confided, toldOutside, forgot, raced>>
  BY DEF S!PushMem, S!PullCheck, S!counts, S!convs, S!history
<1>3. /\ mem[d][x].t \in 0 .. MaxClock /\ mem[d][x].tag \in S!Tag /\ mem[d][x].del \in BOOLEAN
      /\ memFile[x].t \in 0 .. MaxClock /\ memMirror[d][x] \in 0 .. MaxClock
      /\ mem[d][x].t > 0 => x \in S!Written
  BY <1>1, SFields DEF STyped, S!Written
<1>4. CASE S!PushMem(d, x)
  <2>1. PICK o : o = S!Object(x, mem[d][x].t, mem[d][x].tag, mem[d][x].del, {d})
    OBVIOUS
  <2>2. o \in SObjs /\ o.m = x /\ o.t = mem[d][x].t /\ o.tag = mem[d][x].tag
    <3>1. {d} \in SUBSET Device
      OBVIOUS
    <3> QED BY <1>3, <2>1, <3>1, SObject
  <2>3. /\ memFile' = [memFile EXCEPT ![x] = o]
        /\ memMirror' = [memMirror EXCEPT ![d][x] = mem[d][x].t]
        /\ writing' = writing /\ mem[d][x].t > memMirror[d][x]
    BY <1>4, <2>1 DEF S!PushMem
  <2>4. /\ memFile' \in [Mem -> SObjs] /\ memFile'[x] = o
        /\ \A m \in Mem \ {x} : memFile'[m] = memFile[m]
    BY <1>1, <2>2, <2>3 DEF STyped
  <2>5. memMirror' \in [Device -> [Mem -> 0 .. MaxClock]]
    BY <1>1, <1>3, <2>3 DEF STyped
  <2>6. STyped'
    BY <1>1, <1>2, <2>2, <2>3, <2>4, <2>5 DEF STyped, ConvTyped
  <2>7. S!Written' = S!Written /\ \A m \in Mem : Discreet(m)'
    <3>1. \A e \in Device, m \in Mem :
            /\ mem[e][m].t > 0 => mem'[e][m].t > 0
            /\ mem'[e][m].t > 0 => m \in S!Written
            /\ m \in confided /\ mem'[e][m].t > 0 => mem'[e][m].tag = "inside"
      BY <1>1, <1>2 DEF Discreet, S!Written
    <3>2. mem[d][x].t > 0
      BY <1>3, <2>3
    <3>3. x \in S!Written /\ (x \in confided => o.tag = "inside")
      BY <1>1, <1>3, <2>2, <3>2 DEF Discreet
    <3> QED BY <1>1, <1>2, <2>3, <2>4, <3>1, <3>3, SFrame
  <2>8. \A e \in Device : InHand(e)'
    BY <1>1, <1>2, <2>7 DEF InHand
  <2>9. \A e \in Device, m \in Mem : Forgotten(e, m)'
    BY <1>1, <1>2, <2>3 DEF Forgotten
  <2> QED BY <2>6, <2>7, <2>8, <2>9 DEF SInv
<1>5. CASE S!PullCheck(d, x)
  <2>1. /\ memFile' = memFile /\ memFile[x].t > memMirror[d][x]
        /\ \/ /\ memMirror' = [memMirror EXCEPT ![d][x] = memFile[x].t]
              /\ writing' = writing
           \/ /\ ~(mem[d][x].t >= memFile[x].t)
              /\ writing' = [writing EXCEPT ![d] = {memFile[x]}] /\ memMirror' = memMirror
    BY <1>1, <1>5 DEF S!PullCheck, S!ToPull, S!Mirror
  <2>2. memMirror' \in [Device -> [Mem -> 0 .. MaxClock]] /\ writing' \in [Device -> SUBSET SObjs]
    <3>1. /\ memMirror \in [Device -> [Mem -> 0 .. MaxClock]]
          /\ writing \in [Device -> SUBSET SObjs]
      BY <1>1 DEF STyped
    <3>2. memMirror' \in [Device -> [Mem -> 0 .. MaxClock]]
      BY <1>3, <2>1, <3>1
    <3>3. writing' \in [Device -> SUBSET SObjs]
      BY <1>1, <2>1, <3>1
    <3> QED BY <3>2, <3>3
  <2>3. STyped'
    BY <1>1, <1>2, <2>1, <2>2 DEF STyped, ConvTyped
  <2>4. /\ memFile[x].t > 0
        /\ \A e \in Device : \A f \in writing'[e] :
              f \in writing[e] \/ (e = d /\ f = memFile[x] /\ mem[d][x].t < memFile[x].t)
    <3>1. memFile[x].t > 0
      BY <1>3, <2>1
    <3>2. CASE writing' = writing
      BY <3>1, <3>2
    <3>3. CASE /\ ~(mem[d][x].t >= memFile[x].t)
               /\ writing' = [writing EXCEPT ![d] = {memFile[x]}]
      BY <1>1, <1>3, <3>1, <3>3 DEF STyped
    <3> QED BY <2>1, <3>2, <3>3
  <2>5. S!Written' = S!Written /\ \A m \in Mem : Discreet(m)'
    <3>1. \A e \in Device, m \in Mem :
            /\ mem[e][m].t > 0 => mem'[e][m].t > 0
            /\ mem'[e][m].t > 0 => m \in S!Written
            /\ m \in confided /\ mem'[e][m].t > 0 => mem'[e][m].tag = "inside"
      BY <1>1, <1>2 DEF Discreet, S!Written
    <3>2. x \in S!Written /\ (x \in confided => memFile[x].tag = "inside")
      BY <1>1, <1>3, <2>4 DEF Discreet
    <3>3. \A e \in Device : \A f \in writing'[e] :
            \/ f \in writing[e]
            \/ f.m \in S!Written /\ f.t > 0 /\ (f.m \in confided => f.tag = "inside")
      BY <1>1, <2>4, <3>2
    <3> QED BY <1>1, <1>2, <2>1, <3>1, <3>3, SFrame
  <2>6. \A e \in Device : InHand(e)'
    BY <1>1, <1>2, <2>5 DEF InHand
  <2>7. ASSUME NEW e \in Device, NEW m \in Mem PROVE Forgotten(e, m)'
    <3>1. Forgotten(e, m) /\ forgot[e][m] \in Nat
      BY <1>1 DEF STyped
    <3>2. ASSUME e \notin raced, NEW f \in writing'[e], f.m = m PROVE f.t > forgot[e][m]
      BY <1>1, <1>3, <2>4, <3>1, <3>2 DEF Forgotten
    <3> QED BY <1>2, <3>1, <3>2 DEF Forgotten
  <2> QED BY <2>3, <2>5, <2>6, <2>7 DEF SInv
<1> QED BY <1>4, <1>5

\* An object overwrites a row, or a tombstone an older one.
LEMMA SPulls ==
  ASSUME SInv, MaxClock \in Nat \ {0}, NEW d \in Device, S!PullWrite(d) \/ \E m \in Mem : S!PullTombstone(d, m)
  PROVE  SInv'
<1>1. STyped /\ (\A m \in Mem : Discreet(m)) /\ (\A e \in Device : InHand(e))
      /\ \A e \in Device, m \in Mem : Forgotten(e, m)
  BY DEF SInv
<1>2. /\ UNCHANGED <<clock, conv, convFile, memFile, run, confided, toldOutside, forgot, raced>>
  BY DEF S!PullWrite, S!PullTombstone, S!counts, S!convs, S!history
<1>3. /\ clock' \in 1 .. MaxClock /\ clock <= clock' /\ run' \in [Device -> SRuns]
      /\ toldOutside' \subseteq Mem /\ forgot' \in [Device -> [Mem -> 0 .. MaxClock]]
      /\ writing \in [Device -> SUBSET SObjs]
  BY <1>1, <1>2 DEF STyped
<1>4. CASE S!PullWrite(d)
  <2>1. PICK f \in writing[d] :
          /\ mem' = [mem EXCEPT ![d][f.m] = S!Row(f.t, f.tag, FALSE)]
          /\ writing' = [writing EXCEPT ![d] = {}]
          /\ memMirror' = [memMirror EXCEPT ![d][f.m] = f.t]
    BY <1>4 DEF S!PullWrite, S!Mirror
  <2>2. f \in SObjs /\ f.m \in Mem /\ f.t \in 0 .. MaxClock /\ f.tag \in S!Tag
    BY <1>3, SFields
  <2>3. PICK x \in Mem, new \in SRows :
          x = f.m /\ new = S!Row(f.t, f.tag, FALSE) /\ new.t = f.t /\ new.tag = f.tag
    <3>1. PICK x, r : x = f.m /\ r = S!Row(f.t, f.tag, FALSE)
      OBVIOUS
    <3>2. x \in Mem /\ r \in SRows /\ r.t = f.t /\ r.tag = f.tag
      BY <2>2, <3>1, SMakes
    <3> QED BY <3>1, <3>2
  <2>4. /\ x \in S!Written /\ new.t > 0 /\ (x \in confided => new.tag = "inside")
        /\ mem' = [mem EXCEPT ![d][x] = new]
    BY <1>1, <2>1, <2>3, SMTT(60), ZenonT(60) DEF Discreet
  <2>5. /\ memMirror' \in [Device -> [Mem -> 0 .. MaxClock]]
        /\ writing' \in [Device -> SUBSET SObjs]
        /\ \A e \in Device : writing'[e] \subseteq writing[e]
        /\ writing'[d] = {}
    BY <1>1, <1>3, <2>1, <2>2 DEF STyped
  <2>6. Forgotten(d, x)'
    <3>1. /\ Forgotten(d, x) /\ forgot[d][x] \in Nat /\ f.t \in Nat /\ mem'[d][x] = new
      BY <1>1, <2>2, <2>4 DEF STyped
    <3>2. d \notin raced => forgot[d][x] < new.t
      BY <2>1, <2>3, <3>1 DEF Forgotten
    <3>3. d \notin raced' => /\ forgot'[d][x] <= mem'[d][x].t /\ mem'[d][x].t > forgot'[d][x]
      <4>1. forgot'[d][x] = forgot[d][x] /\ mem'[d][x].t = f.t /\ raced' = raced
        BY <1>2, <2>3, <3>1
      <4>2. d \notin raced' => forgot[d][x] < f.t
        BY <2>3, <3>2, <4>1
      <4> QED BY <3>1, <4>1, <4>2
    <3> QED BY <1>2, <2>5, <3>1, <3>3 DEF Forgotten
  <2> QED BY <1>2, <1>3, <2>4, <2>5, <2>6, SWrites
<1>5. ASSUME NEW x \in Mem, S!PullTombstone(d, x) PROVE SInv'
  <2>1. /\ writing' = writing /\ memFile[x].t > memMirror[d][x] /\ memFile[x].m = x
        /\ memMirror' = [memMirror EXCEPT ![d][x] = memFile[x].t]
        /\ mem' = IF mem[d][x].t \in 1 .. (memFile[x].t - 1)
                  THEN [mem EXCEPT ![d][x] = S!Row(memFile[x].t, mem[d][x].tag, TRUE)] ELSE mem
        /\ writing[d] = {}
    BY <1>1, <1>5 DEF S!PullTombstone, S!ToPull, S!Mirror, STyped
  <2>2. /\ mem[d][x] \in SRows /\ mem[d][x].t \in 0 .. MaxClock /\ mem[d][x].tag \in S!Tag
        /\ memFile[x].t \in 0 .. MaxClock /\ forgot[d][x] \in 0 .. MaxClock
    BY <1>1, SFields DEF STyped
  <2>3. memMirror' \in [Device -> [Mem -> 0 .. MaxClock]]
    BY <1>1, <2>1, <2>2 DEF STyped
  <2>4. CASE mem[d][x].t \in 1 .. (memFile[x].t - 1)
    <3>1. PICK new \in SRows :
            /\ new = S!Row(memFile[x].t, mem[d][x].tag, TRUE) /\ new.t = memFile[x].t
            /\ new.tag = mem[d][x].tag /\ new.del = TRUE
      BY <2>2, SMakes, SMTT(60), ZenonT(60)
    <3>2. mem[d][x].t > 0 /\ new.t > mem[d][x].t /\ new.t > 0
      <4>1. PICK a \in Nat, b \in Nat : a = mem[d][x].t /\ b = memFile[x].t
        BY <2>2
      <4>2. a \in 1 .. (b - 1)
        BY <2>4, <4>1
      <4>3. a > 0 /\ b > a /\ b > 0
        BY <4>2
      <4> QED BY <3>1, <4>1, <4>3
    <3>3. x \in S!Written /\ (x \in confided => new.tag = "inside")
      BY <1>1, <3>1, <3>2 DEF Discreet, S!Written
    <3>4. mem' = [mem EXCEPT ![d][x] = new] /\ mem'[d][x] = new
      BY <1>1, <2>1, <2>4, <3>1 DEF STyped
    <3>5. Forgotten(d, x)'
      <4>0. /\ forgot'[d][x] = forgot[d][x] /\ mem'[d][x] = new /\ raced' = raced
            /\ forgot[d][x] \in Nat /\ new.t \in Nat /\ mem[d][x].t \in Nat
        <5>1. forgot' = forgot /\ raced' = raced
          BY <1>2
        <5>2. forgot[d][x] \in Nat /\ memFile[x].t \in Nat /\ mem[d][x].t \in Nat
          BY <2>2
        <5> QED BY <3>1, <3>4, <5>1, <5>2
      <4>1. Forgotten(d, x)
        BY <1>1
      <4>2. d \notin raced' => forgot'[d][x] < mem'[d][x].t
        <5>1. /\ forgot'[d][x] = forgot[d][x] /\ mem'[d][x] = new /\ raced' = raced
              /\ forgot[d][x] \in Nat /\ new.t \in Nat /\ mem[d][x].t \in Nat
          BY <4>0
        <5>2. d \notin raced => forgot[d][x] <= mem[d][x].t
          BY <4>1 DEF Forgotten
        <5> QED BY <3>2, <5>1, <5>2
      <4>3. /\ forgot'[d][x] = forgot[d][x] /\ forgot[d][x] \in Nat /\ mem'[d][x].t \in Nat
            /\ clock' = clock /\ writing'[d] = {}
        BY <4>0, <2>1, <1>2
      <4>4. forgot[d][x] <= clock
        BY <4>1 DEF Forgotten
      <4>5. d \notin raced' => forgot'[d][x] <= mem'[d][x].t
        BY <4>2, <4>3
      <4> QED BY <4>2, <4>3, <4>4, <4>5 DEF Forgotten
    <3> QED BY <1>2, <1>3, <2>1, <2>3, <3>2, <3>3, <3>4, <3>5, SWrites
  <2>5. CASE mem[d][x].t \notin 1 .. (memFile[x].t - 1)
    <3>1. mem' = mem
      BY <2>1, <2>5
    <3>2. STyped'
      BY <1>1, <1>2, <2>1, <2>3, <3>1 DEF STyped, ConvTyped
    <3>3. \A m \in Mem : Discreet(m)'
      BY <1>1, <1>2, <2>1, <3>1, SMTT(60), ZenonT(60) DEF Discreet, S!Written
    <3>4. \A e \in Device : InHand(e)'
      BY <1>1, <1>2, <3>1 DEF InHand, S!Written
    <3>5. \A e \in Device, m \in Mem : Forgotten(e, m)'
      BY <1>1, <1>2, <2>1, <3>1 DEF Forgotten
    <3> QED BY <3>2, <3>3, <3>4, <3>5 DEF SInv
  <2> QED BY <2>4, <2>5
<1> QED BY <1>4, <1>5

LEMMA SStepInv == ASSUME SInv, MaxClock \in Nat \ {0}, [S!Next]_(S!vars) PROVE SInv'
<1>1. CASE UNCHANGED S!vars
  <2>1. UNCHANGED <<clock, conv, convFile, mem, memMirror, memFile, writing, run, confided,
                    toldOutside, forgot, raced>>
    BY <1>1 DEF S!vars, S!counts, S!convs, S!mems, S!history
  <2>2. STyped'
    BY <2>1 DEF SInv, STyped, ConvTyped
  <2>3. \A m \in Mem : Discreet(m)'
    BY <2>1 DEF SInv, Discreet, S!Written
  <2>4. (\A e \in Device : InHand(e)') /\ \A e \in Device, m \in Mem : Forgotten(e, m)'
    BY <2>1 DEF SInv, InHand, Forgotten, S!Written
  <2> QED BY <2>2, <2>3, <2>4 DEF SInv
<1>2. CASE S!Next
  BY <1>2, SConvSteps, SReads, SPicks, SPuts, SDeletes, SExchanges, SPulls DEF S!Next
<1> QED BY <1>1, <1>2

\* Memories (pai-memory, pai-tools, apply_memory), for any devices, memories and
\* bounds: what a run wrote in an isolated conversation is never told to a run
\* outside of it, and a device on which a memory was deleted has it back only as
\* a later row, unless it was deleted between the halves of apply_memory.
THEOREM MemoriesStay ==
  ASSUME MaxClock \in Nat \ {0} PROVE S!Spec => []MemoriesKeepTheirPlace
<1>1. ASSUME SInv PROVE MemoriesKeepTheirPlace
  <2>1. STyped /\ (\A m \in Mem : Discreet(m)) /\ \A d \in Device, m \in Mem : Forgotten(d, m)
    BY <1>1 DEF SInv
  <2>2. \A d \in Device : run[d].pc \in {"idle", "recall", "scope", "tools", "put", "forget", "cut"}
    BY <2>1, SFields DEF STyped
  <2>3. S!TypeOK
    BY <2>1, <2>2 DEF S!TypeOK, STyped, ConvTyped, SConvs, SRows
  <2>4. S!ToldInConfidence
    BY <2>1 DEF S!ToldInConfidence, Discreet, STyped
  <2>5. S!ForgottenUnlessLater
    BY <2>1 DEF S!ForgottenUnlessLater, Forgotten
  <2> QED BY <2>3, <2>4, <2>5 DEF MemoriesKeepTheirPlace, S!MemoriesKeepTheirPlace
<1>2. S!Init /\ MaxClock \in Nat \ {0} => SInv
  BY SInitInv
<1>3. SInv /\ [S!Next]_(S!vars) => SInv'
  BY SStepInv
<1> QED BY <1>1, <1>2, <1>3, PTL DEF S!Spec

-----------------------------------------------------------------------------
(* How much a run executes.  After a cancellation only the call on its way *)
(* is counted, and the loop leaves at the next look at the token.          *)

Stopping(p) == since[p] = 0 \/ (since[p] = 1 /\ cancelled[p] /\ pc[p] = "top")
StopInv == \A p \in Procs : Stopping(p)

\* A process that has just left, or that was not on its way out and is not now.
LEMMA LeaveStops ==
  ASSUME TypeOK, StopInv, NEW p \in Procs, Leave(p)
  PROVE  StopInv'
  <1>1. since' = [since EXCEPT ![p] = 0] /\ cancelled' = [cancelled EXCEPT ![p] = FALSE]
        /\ pc' = [pc EXCEPT ![p] = "idle"]
    BY DEF Leave, Go
  <1>2. ASSUME NEW q \in Procs PROVE Stopping(q)'
    BY <1>1 DEF TypeOK, StopInv, Stopping
  <1> QED
    BY <1>2 DEF StopInv

LEMMA MoveStops ==
  ASSUME TypeOK, StopInv, NEW p \in Procs, since' = since, cancelled' = cancelled,
         since[p] = 0, NEW w, Go(p, w)
  PROVE  StopInv'
  <1>1. pc' = [pc EXCEPT ![p] = w]
    BY DEF Go
  <1>2. ASSUME NEW q \in Procs PROVE Stopping(q)'
    BY <1>1 DEF TypeOK, StopInv, Stopping
  <1> QED
    BY <1>2 DEF StopInv

LEMMA ObserveStops ==
  ASSUME TypeOK, StopInv, NEW p \in Procs, since[p] = 0, NEW isErr, NEW ran \in 0 .. 1,
         Observe(p, isErr, ran)
  PROVE  StopInv'
  <1>1. CASE Leave(p)
    BY <1>1, LeaveStops
  <1>2. CASE since' = since /\ cancelled' = cancelled /\ Go(p, "gate")
    BY <1>2, MoveStops
  <1>3. CASE /\ since' = [since EXCEPT ![p] = IF cancelled[p] THEN since[p] + ran ELSE since[p]]
             /\ Go(p, "top") /\ cancelled' = cancelled
    <2>1. ASSUME NEW q \in Procs PROVE Stopping(q)'
      <3>1. CASE q = p
        <4>1. since'[p] = (IF cancelled[p] THEN since[p] + ran ELSE since[p])
              /\ pc'[p] = "top" /\ cancelled'[p] = cancelled[p]
          BY <1>3 DEF TypeOK, Go
        <4>2. since'[p] = 0 \/ (since'[p] = 1 /\ cancelled[p])
          BY <4>1
        <4> QED BY <3>1, <4>1, <4>2 DEF Stopping
      <3>2. CASE q # p
        BY <1>3, <3>2 DEF TypeOK, StopInv, Stopping, Go
      <3> QED BY <3>1, <3>2
    <2> QED BY <2>1 DEF StopInv
  <1> QED BY <1>1, <1>2, <1>3 DEF Observe, finish_run

LEMMA InitStops == Init => StopInv
  BY DEF Init, StopInv, Stopping

LEMMA StepStops == TypeOK /\ StopInv /\ [Next]_vars => StopInv'
  <1> SUFFICES ASSUME TypeOK, StopInv, [Next]_vars PROVE StopInv'
    OBVIOUS
  <1>t. \A p \in Procs : pc[p] # "top" => since[p] = 0
    BY DEF StopInv, Stopping
  <1>1. ASSUME NEW p \in Procs, Begin(p) PROVE StopInv'
    BY <1>t, <1>1, MoveStops DEF Begin
  <1>2. ASSUME NEW p \in Procs, Compose(p) PROVE StopInv'
    BY <1>t, <1>2, MoveStops DEF Compose
  <1>3. ASSUME NEW p \in Procs, FastPath(p) PROVE StopInv'
    <2>1. Leave(p) \/ (since' = since /\ cancelled' = cancelled /\ Go(p, "gate"))
      BY <1>3 DEF FastPath, finish_run
    <2>2. pc[p] # "top"
      BY <1>3 DEF FastPath
    <2> QED BY <1>t, <2>1, <2>2, LeaveStops, MoveStops
  <1>4. ASSUME NEW p \in Procs, Resume(p) PROVE StopInv'
    BY <1>t, <1>4, MoveStops DEF Resume
  <1>5. CASE Abandon \/ SetPolicy \/ UNCHANGED vars
    <2>1. since' = since /\ cancelled' = cancelled /\ pc' = pc
      BY <1>5 DEF Abandon, SetPolicy, vars
    <2> QED BY <2>1 DEF StopInv, Stopping
  <1>6. ASSUME NEW p \in Procs, Leave(p) PROVE StopInv'
    BY <1>6, LeaveStops
  <1>7. ASSUME NEW p \in Procs,
               \/ Crash(p) \/ StopCancelled(p) \/ OutOfSteps(p) \/ ModelFails(p)
               \/ ModelFinal(p)
        PROVE  StopInv'
    <2>1. Leave(p)
      BY <1>7 DEF Crash, StopCancelled, OutOfSteps, ModelFails, ModelFinal, finish_run
    <2> QED BY <1>6, <2>1
  <1>8. ASSUME NEW p \in Procs, Checkpoint(p) PROVE StopInv'
    <2>1. since[p] = 0
      BY <1>8 DEF Checkpoint, StopInv, Stopping
    <2> QED BY <1>8, <2>1, MoveStops DEF Checkpoint, runVars
  <1>9. ASSUME NEW p \in Procs, ModelMalformed(p) \/ ModelCalls(p) PROVE StopInv'
    <2>1. pc[p] # "top" /\ since' = since /\ cancelled' = cancelled
          /\ \E w : Go(p, w)
      BY <1>9 DEF ModelMalformed, ModelCalls
    <2> QED BY <1>t, <2>1, MoveStops
  <1>10. ASSUME NEW p \in Procs, Direct(p) \/ Gate(p) \/ Grant(p) PROVE StopInv'
    <2>1. pc[p] # "top" /\ since' = since /\ cancelled' = cancelled
          /\ \E w : Go(p, w)
      BY <1>10 DEF Direct, Gate, Grant
    <2> QED BY <1>t, <2>1, MoveStops
  <1>11. ASSUME NEW p \in Procs, Refuse(p) \/ DenyCall(p) \/ Execute(p) PROVE StopInv'
    <2>1. pc[p] # "top" /\ \E isErr \in BOOLEAN, ran \in 0 .. 1 : Observe(p, isErr, ran)
      <3>1. 0 \in 0 .. 1 /\ 1 \in 0 .. 1
        OBVIOUS
      <3>2. CASE Refuse(p)
        BY <3>1, <3>2 DEF Refuse
      <3>3. CASE DenyCall(p)
        BY <3>1, <3>3 DEF DenyCall
      <3>4. CASE Execute(p)
        BY <3>1, <3>4 DEF Execute
      <3> QED BY <1>11, <3>2, <3>3, <3>4
    <2> QED BY <1>t, <2>1, ObserveStops
  <1>12. ASSUME NEW p \in Procs, Cancel(p) PROVE StopInv'
    <2>1. since' = since /\ pc' = pc /\ cancelled' = [cancelled EXCEPT ![p] = TRUE]
      BY <1>12 DEF Cancel
    <2>2. ASSUME NEW q \in Procs PROVE Stopping(q)'
      BY <2>1 DEF TypeOK, StopInv, Stopping
    <2> QED BY <2>2 DEF StopInv
  <1> QED
    BY <1>1, <1>2, <1>3, <1>4, <1>5, <1>7, <1>8, <1>9, <1>10, <1>11, <1>12 DEF Next, Drive

\* The run of one driver whose writes do not fail.  In the loop the counter is
\* the stored one or one ahead of it, and `done' is within the counter and the
\* resumptions; outside it, within one more than the stored counter.
OneDriver == lost = 0 /\ \A q \in Procs \ {Driver} : pc[q] = "idle"

InLoop == pc[Driver] # "idle" /\ mode[Driver] = "loop"

BoundInv ==
    /\ ~begun => ~HasRow /\ done = 0 /\ ~InLoop /\ mode[Driver] # "fast"
    /\ begun => HasRow
    /\ InLoop =>
          /\ row.step <= step[Driver] /\ step[Driver] <= row.step + 1
          /\ pc[Driver] # "top" => step[Driver] = row.step
          /\ done <= step[Driver] + resumes
    /\ pc[Driver] = "idle" => mode[Driver] = "loop"
    /\ begun => done <= row.step + 1 + resumes
    /\ pc[Driver] = "idle" => step[Driver] = 0
    /\ pc[Driver] \in {"compose", "top", "model", "retry"} => mode[Driver] = "loop"

LEMMA StoreHits ==
  ASSUME TypeOK, OneDriver', NEW r, Store(r) PROVE row' = r
  BY DEF TypeOK, OneDriver, Store

LEMMA FinishHits ==
  ASSUME TypeOK, OneDriver', NEW st \in RunStates, finish(st)
  PROVE  row'.step = row.step /\ (HasRow' <=> HasRow)
  <1>1. row' = IF HasRow THEN Row(st, TRUE, row.step, row.ckpt) ELSE row
    BY StoreHits DEF finish
  <1>2. Row(st, TRUE, row.step, row.ckpt).state # "absent"
    BY DEF Row, RunStates
  <1>3. Row(st, TRUE, row.step, row.ckpt).step = row.step
    BY DEF Row
  <1>4. CASE HasRow
    <2>1. row' = Row(st, TRUE, row.step, row.ckpt)
      BY <1>1, <1>4
    <2> QED BY <1>2, <1>3, <1>4, <2>1 DEF HasRow
  <1>5. CASE ~HasRow
    BY <1>1, <1>5 DEF HasRow
  <1> QED BY <1>4, <1>5

\* The bound is about the driver's place, the row and the counters.
LEMMA LeaveBounded ==
  ASSUME TypeOK, BoundInv, Driver \in Procs, Leave(Driver),
         row'.step = row.step, HasRow' <=> HasRow, UNCHANGED <<begun, done, resumes>>
  PROVE  BoundInv'
  <1>1. pc'[Driver] = "idle" /\ mode'[Driver] = "loop" /\ step'[Driver] = 0
    BY DEF TypeOK, Leave, Go
  <1> QED BY <1>1 DEF BoundInv, InLoop

LEMMA FinishBounded ==
  ASSUME TypeOK, BoundInv, OneDriver', Driver \in Procs, NEW st \in RunStates,
         finish_run(Driver, st), UNCHANGED <<begun, done, resumes>>
  PROVE  BoundInv'
  BY FinishHits, LeaveBounded DEF finish_run

LEMMA MoveBounded ==
  ASSUME TypeOK, BoundInv, Driver \in Procs, NEW w \in PCs \ {"idle", "top"}, Go(Driver, w),
         pc[Driver] \notin {"idle", "top"}, mode[Driver] # "loop" => w \notin {"compose", "model", "retry"},
         UNCHANGED <<row, mode, step, begun, done, resumes>>
  PROVE  BoundInv'
  <1>1. pc'[Driver] = w
    BY DEF TypeOK, Go
  <1> QED BY <1>1 DEF BoundInv, InLoop, HasRow

LEMMA ObserveBounded ==
  ASSUME TypeOK, BoundInv, OneDriver', Driver \in Procs, NEW isErr, NEW ran \in 0 .. 1,
         Observe(Driver, isErr, ran), pc[Driver] \notin {"idle", "top"}
  PROVE  BoundInv'
  <1>1. CASE finish_run(Driver, "completed") /\ UNCHANGED <<done, envVars>>
    BY <1>1, FinishBounded DEF envVars, RunStates
  <1>2. CASE Leave(Driver) /\ UNCHANGED <<rowVars, done, envVars>>
    BY <1>2, LeaveBounded DEF envVars, rowVars, HasRow
  <1>3. CASE Go(Driver, "gate") /\ UNCHANGED <<rowVars, mode, step, done, envVars>>
    BY <1>3, MoveBounded DEF envVars, rowVars, PCs
  <1>4. CASE /\ mode[Driver] = "loop"
             /\ step' = [step EXCEPT ![Driver] = step[Driver] + 1]
             /\ done' = done + ran
             /\ Go(Driver, "top")
             /\ UNCHANGED <<rowVars, mode, envVars>>
    <2>1. /\ step'[Driver] = step[Driver] + 1 /\ pc'[Driver] = "top"
          /\ step[Driver] \in Nat /\ done \in Nat /\ resumes \in Nat /\ row.step \in Nat
      BY <1>4, BoundsAssumption, TypeParts, RowFields DEF TypeOK, Go, GlobalOK
    <2>2. InLoop /\ step[Driver] = row.step /\ done <= step[Driver] + resumes
      BY <1>4 DEF BoundInv, InLoop
    <2>3. begun /\ HasRow
      BY <2>2 DEF BoundInv
    <2>4. row' = row /\ begun' = begun /\ resumes' = resumes /\ mode' = mode
      BY <1>4 DEF rowVars, envVars
    <2>5. done + ran <= step[Driver] + 1 + resumes
      BY <2>1, <2>2
    <2> QED BY <1>4, <2>1, <2>2, <2>3, <2>4, <2>5 DEF BoundInv, InLoop, HasRow
  <1> QED BY <1>1, <1>2, <1>3, <1>4 DEF Observe

LEMMA InitBounded == ASSUME Init, Driver \in Procs PROVE BoundInv
  BY DEF Init, BoundInv, InLoop, HasRow, NoRow, Row

LEMMA StepBounded ==
  ASSUME TypeOK, BoundInv, OneDriver, OneDriver', Driver \in Procs, [Next]_vars
  PROVE  BoundInv'
  <1>t. /\ step[Driver] \in Nat /\ done \in Nat /\ resumes \in Nat /\ row.step \in Nat
        /\ pc \in [Procs -> PCs]
    BY BoundsAssumption, TypeParts, RowFields DEF TypeOK, GlobalOK
  <1>1. ASSUME Begin(Driver) PROVE BoundInv'
    <2>1. row' = Row("running", FALSE, 0, NoMsgs)
      BY <1>1, StoreHits DEF Begin, begin
    <2>2. row'.step = 0 /\ HasRow'
      BY <2>1 DEF Row, HasRow
    <2>3. /\ pc'[Driver] = "compose" /\ begun' /\ done' = 0 /\ step'[Driver] = 0
          /\ mode'[Driver] = "loop" /\ resumes' = resumes
      BY <1>t, <1>1 DEF Begin, BoundInv, Go
    <2> QED BY <1>t, <2>2, <2>3 DEF BoundInv, InLoop
  <1>2. ASSUME Compose(Driver) PROVE BoundInv'
    <2>1. pc'[Driver] = "top"
      BY <1>t, <1>2 DEF Compose, Go
    <2> QED BY <1>2, <2>1 DEF Compose, BoundInv, InLoop, HasRow, rowVars
  <1>3. ASSUME FastPath(Driver) PROVE BoundInv'
    <2>1. CASE finish_run(Driver, "completed")
      BY <1>3, <2>1, FinishBounded DEF FastPath, envVars, RunStates
    <2>2. CASE /\ Go(Driver, "gate") /\ mode' = [mode EXCEPT ![Driver] = "fast"]
               /\ UNCHANGED <<rowVars, step>>
      <3>1. pc'[Driver] = "gate" /\ mode'[Driver] = "fast" /\ pc[Driver] = "compose"
        BY <1>t, <1>3, <2>2 DEF FastPath, Go, TypeOK
      <3>2. UNCHANGED <<row, step, begun, done, resumes>>
        BY <1>3, <2>2 DEF FastPath, rowVars, envVars
      <3> QED BY <3>1, <3>2 DEF BoundInv, InLoop, HasRow
    <2> QED BY <1>3, <2>1, <2>2 DEF FastPath
  <1>4. ASSUME Resume(Driver) PROVE BoundInv'
    <2>1. /\ pc'[Driver] = "top" /\ step'[Driver] = row.step /\ resumes' = resumes + 1
          /\ UNCHANGED <<row, begun, mode, done>> /\ HasRow /\ pc[Driver] = "idle"
      BY <1>t, <1>4 DEF Resume, Go, TypeOK, rowVars
    <2>2. begun /\ done <= row.step + 1 + resumes /\ mode[Driver] = "loop"
      BY <2>1 DEF BoundInv
    <2>3. done <= row.step + (resumes + 1) /\ row.step <= row.step + 1
          /\ done <= row.step + 1 + (resumes + 1)
      BY <1>t, <2>2
    <2> QED BY <1>t, <2>1, <2>2, <2>3 DEF BoundInv, InLoop, HasRow
  <1>5. CASE Abandon
    <2>1. row'.step = row.step /\ row'.state # "absent" /\ HasRow
      BY <1>5 DEF Abandon, Row, Interrupted
    <2> QED BY <1>5, <2>1 DEF Abandon, BoundInv, InLoop, HasRow
  <1>6. ASSUME Crash(Driver) PROVE BoundInv'
    BY <1>6, LeaveBounded DEF Crash, rowVars, envVars, HasRow
  <1>7. ASSUME NEW st \in RunStates, finish_run(Driver, st), UNCHANGED <<envVars, done>>
        PROVE  BoundInv'
    BY <1>7, FinishBounded DEF envVars
  <1>8. ASSUME \/ StopCancelled(Driver) \/ OutOfSteps(Driver) \/ ModelFails(Driver)
               \/ ModelFinal(Driver)
        PROVE  BoundInv'
    BY <1>7, <1>8 DEF StopCancelled, OutOfSteps, ModelFails, ModelFinal, RunStates
  <1>9. ASSUME Checkpoint(Driver) PROVE BoundInv'
    <2>1. InLoop /\ mode[Driver] = "loop" /\ begun /\ HasRow
          /\ done <= step[Driver] + resumes
      BY <1>9 DEF Checkpoint, BoundInv, InLoop
    <2>2. row' = Row("running", row.ended, step[Driver], msgs[Driver])
      BY <1>9, <2>1, StoreHits DEF Checkpoint, checkpoint
    <2>3. row'.step = step[Driver] /\ HasRow'
      BY <2>2 DEF Row, HasRow
    <2>4. pc'[Driver] = "model" /\ UNCHANGED <<mode, step, begun, done, resumes>>
      BY <1>t, <1>9 DEF Checkpoint, Go, runVars, envVars
    <2>5. done <= step[Driver] + 1 + resumes /\ step[Driver] <= step[Driver] + 1
      BY <1>t, <2>1
    <2> QED BY <1>t, <2>1, <2>3, <2>4, <2>5 DEF BoundInv, InLoop
  <1>10. ASSUME ModelMalformed(Driver) \/ ModelCalls(Driver) PROVE BoundInv'
    <2>1. \E w \in {"retry", "gate"} : Go(Driver, w)
      BY <1>10 DEF ModelMalformed, ModelCalls
    <2>2. pc[Driver] \in {"model", "retry"} /\ UNCHANGED <<row, mode, step, begun, done, resumes>>
      BY <1>10 DEF ModelMalformed, ModelCalls, rowVars
    <2>3. mode[Driver] = "loop"
      BY <2>2 DEF BoundInv
    <2> QED BY <2>1, <2>2, <2>3, MoveBounded DEF PCs
  <1>11. ASSUME Gate(Driver) \/ Grant(Driver) PROVE BoundInv'
    <2>1. \E w \in {"asked", "exec"} : Go(Driver, w)
      BY <1>11 DEF Gate, Grant
    <2>2. pc[Driver] \in {"gate", "asked"} /\ UNCHANGED <<row, mode, step, begun, done, resumes>>
      BY <1>11 DEF Gate, Grant, rowVars
    <2> QED BY <2>1, <2>2, MoveBounded DEF PCs
  <1>12. ASSUME Direct(Driver) PROVE BoundInv'
    <2>1. pc'[Driver] = "gate" /\ mode'[Driver] = "direct" /\ pc[Driver] = "idle"
          /\ UNCHANGED <<row, step, begun, done, resumes>>
      BY <1>t, <1>12 DEF Direct, Go, TypeOK, rowVars
    <2> QED BY <2>1 DEF BoundInv, InLoop, HasRow
  <1>13. ASSUME Refuse(Driver) \/ DenyCall(Driver) PROVE BoundInv'
    <2>1. pc[Driver] = "gate" \/ pc[Driver] = "asked"
      BY <1>13, Zenon DEF Refuse, DenyCall
    <2>2. Observe(Driver, TRUE, 0)
      BY <1>13, Zenon DEF Refuse, DenyCall
    <2>3. 0 \in 0 .. 1 /\ pc[Driver] \notin {"idle", "top"}
      BY <2>1
    <2> QED BY <2>2, <2>3, ObserveBounded
  <1>14. ASSUME Execute(Driver) PROVE BoundInv'
    <2>1. 1 \in 0 .. 1 /\ pc[Driver] \notin {"idle", "top"}
          /\ \E isErr \in BOOLEAN : Observe(Driver, isErr, 1)
      BY <1>14 DEF Execute
    <2> QED BY <2>1, ObserveBounded
  <1>15. ASSUME Cancel(Driver) PROVE BoundInv'
    BY <1>15 DEF Cancel, BoundInv, InLoop, HasRow, rowVars
  <1>16. CASE SetPolicy \/ UNCHANGED vars
    <2>1. UNCHANGED <<row, pc, mode, step, begun, done, resumes>>
      BY <1>16 DEF SetPolicy, vars, rowVars
    <2> QED BY <2>1 DEF BoundInv, InLoop, HasRow
  <1>17. ASSUME NEW p \in Procs \ {Driver},
                Begin(p) \/ Resume(p) \/ Direct(p) \/ Drive(p) \/ Crash(p) \/ Cancel(p)
         PROVE  FALSE
    <2>1. pc[p] = "idle" /\ pc'[p] = "idle"
      BY DEF OneDriver
    <2>2. CASE Begin(p) \/ Resume(p) \/ Direct(p)
      BY <1>t, <2>1, <2>2 DEF Begin, Resume, Direct, Go
    <2>3. CASE Drive(p) \/ Crash(p) \/ Cancel(p)
      BY <2>1, <2>3 DEF Drive, Compose, FastPath, StopCancelled, Checkpoint, OutOfSteps,
         ModelFails, ModelMalformed, ModelFinal, ModelCalls, Refuse, Gate, Grant, DenyCall,
         Execute, Crash, Cancel
    <2> QED BY <1>17, <2>2, <2>3
  <1>18. CASE \E p \in Procs : \/ Begin(p) \/ Resume(p) \/ Direct(p)
                               \/ Drive(p) \/ Crash(p) \/ Cancel(p)
    <2>1. \/ Begin(Driver) \/ Resume(Driver) \/ Direct(Driver)
          \/ Drive(Driver) \/ Crash(Driver) \/ Cancel(Driver)
      BY <1>17, <1>18
    <2> QED BY <1>1, <1>2, <1>3, <1>4, <1>6, <1>8, <1>9, <1>10, <1>11, <1>12, <1>13, <1>14,
               <1>15, <2>1 DEF Drive
  <1> QED BY <1>5, <1>16, <1>18 DEF Next

\* Whether the driver is alone does not change.
AloneInv == alone => BoundInv

LEMMA StepAlone ==
  ASSUME TypeOK, AloneInv, alone => OneDriver, (alone => OneDriver)',
         UNCHANGED alone, Driver \in Procs, [Next]_vars
  PROVE  AloneInv'
  <1> SUFFICES ASSUME alone' PROVE BoundInv'
    BY DEF AloneInv
  <1>1. OneDriver /\ OneDriver' /\ BoundInv
    BY DEF AloneInv
  <1> QED BY <1>1, StepBounded

\* A cancelled run executes at most the call on its way, whatever happens; and
\* while one process drives the run and its writes do not fail, the run
\* executes over its whole life the steps it was allowed and one more for every
\* resumption (checkpoint, resume_from, the step loop).
THEOREM WorkStaysBounded ==
  ASSUME Driver \in Procs
  PROVE  Spec /\ [][UNCHANGED alone]_alone /\ [](alone => OneDriver) => []WorkIsBounded
  <1>1. StopInv => CancelStopsSoon
    <2> SUFFICES ASSUME StopInv, NEW p \in Procs PROVE since[p] <= 1
      BY DEF CancelStopsSoon
    <2>1. since[p] = 0 \/ since[p] = 1
      BY DEF StopInv, Stopping
    <2> QED BY <2>1
  <1>2. TypeOK /\ StepInv /\ BoundInv => RepeatsOnlyOnResume
    <2> SUFFICES ASSUME TypeOK, StepInv, BoundInv PROVE done <= MaxSteps + resumes
      BY DEF RepeatsOnlyOnResume
    <2>1. done \in Nat /\ resumes \in Nat /\ row.step \in Nat /\ MaxSteps \in Nat
      BY BoundsAssumption, StepsAssumption, TypeParts, RowFields DEF TypeOK, GlobalOK
    <2>2. row.step < MaxSteps
      BY DEF StepInv, Sound
    <2>3. CASE begun
      BY <2>1, <2>2, <2>3 DEF BoundInv
    <2>4. CASE ~begun
      BY <2>1, <2>4 DEF BoundInv
    <2> QED BY <2>3, <2>4
  <1>3. Init => StopInv /\ TypeOK /\ StepInv /\ AloneInv
    BY InitStops, InitType, InitSteps, InitBounded DEF AloneInv
  <1>4. TypeOK /\ StepInv /\ StopInv /\ [Next]_vars => TypeOK' /\ StepInv' /\ StopInv'
    BY StepType, StepSteps, StepStops
  <1>5. /\ TypeOK /\ AloneInv /\ [Next]_vars /\ [UNCHANGED alone]_alone
        /\ (alone => OneDriver) /\ (alone => OneDriver)'
        => AloneInv'
    BY StepAlone
  <1>6. TypeOK /\ StepInv /\ StopInv /\ AloneInv => WorkIsBounded
    BY <1>1, <1>2 DEF AloneInv, WorkIsBounded
  <1> QED BY <1>3, <1>4, <1>5, <1>6, PTL DEF Spec
=============================================================================
