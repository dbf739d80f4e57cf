-------------------------- MODULE TaskClaimsProofs --------------------------
(***************************************************************************)
(* For any devices, processes, lease, period and bounds: a running task    *)
(* can be recovered, and no process starts a task its database records as  *)
(* taken.  And the local models of one host (ModelHost).                   *)
(***************************************************************************)
EXTENDS TaskHost, TLAPS

\* A row that a store operation writes has the type of a row.
LEMMA RowTyped ==
    ASSUME NEW state \in State, NEW runAt \in Time, NEW claim \in SUBSET Device,
           NEW lease \in Time, NEW t \in Nat, NEW del \in BOOLEAN, NEW sync \in BOOLEAN
    PROVE  Row(state, runAt, claim, lease, t, del, sync) \in RowType
  BY DEF Row, RowType

\* The columns of a row have their types.
LEMMA Columns ==
    ASSUME NEW r \in RowType
    PROVE  /\ r.state \in State /\ r.runAt \in Time /\ r.claim \in SUBSET Device
           /\ r.lease \in Time /\ r.t \in Nat /\ r.del \in BOOLEAN /\ r.sync \in BOOLEAN
  BY DEF RowType

\* What each value of the columns makes of Recoverable.
LEMMA RowRecoverable ==
    ASSUME NEW state, NEW runAt, NEW claim, NEW lease, NEW t, NEW del, NEW sync,
           state = "running" => claim # {} /\ lease # Null
    PROVE  Recoverable(Row(state, runAt, claim, lease, t, del, sync))
  BY DEF Recoverable, Row

\* Write, given that the new row is typed and recoverable, keeps rows so.
LEMMA WriteKeeps ==
    ASSUME NEW d \in Device, NEW state \in State, NEW runAt \in Time,
           NEW claim \in SUBSET Device, NEW lease \in Time,
           NEW del \in BOOLEAN, NEW sync \in BOOLEAN,
           TypeOK, \A e \in Device : Recoverable(row[e]),
           state = "running" => claim # {} /\ lease # Null,
           Write(d, state, runAt, claim, lease, del, sync)
    PROVE  /\ now' \in 0 .. MaxTime
           /\ row' \in [Device -> RowType]
           /\ \A e \in Device : Recoverable(row'[e])
  <1> DEFINE new == Row(state, runAt, claim, lease, now + 1, del, sync)
  <1>1. now \in Nat /\ now + 1 \in Nat /\ now' \in 0 .. MaxTime
    BY TaskAssumption DEF TypeOK, Write
  <1>2. new \in RowType
    BY <1>1, RowTyped
  <1>3. Recoverable(new)
    BY RowRecoverable
  <1>4. row \in [Device -> RowType] /\ row' = [row EXCEPT ![d] = new]
    BY DEF TypeOK, Write
  <1> HIDE DEF new
  <1>5. row' \in [Device -> RowType]
    BY <1>2, <1>4
  <1>6. \A e \in Device : row'[e] = IF e = d THEN new ELSE row[e]
    BY <1>4
  <1>7. \A e \in Device : Recoverable(row'[e])
    BY <1>3, <1>6
  <1> QED  BY <1>1, <1>5, <1>7

\* A pull's merge keeps a row typed and recoverable.
LEMMA MergeKeeps ==
    ASSUME NEW r \in RowType, NEW f \in RowType, Recoverable(r), Recoverable(f)
    PROVE  /\ ApplyTask(r, f) \in RowType /\ Recoverable(ApplyTask(r, f))
           /\ ApplyTaskTombstone(r, f) \in RowType
           /\ Recoverable(ApplyTaskTombstone(r, f))
  <1>1. ASSUME NEW sync \in BOOLEAN
        PROVE  Row(f.state, f.runAt, f.claim, f.lease, f.t, FALSE, sync) \in RowType
    BY Columns, RowTyped
  <1>2. Row(r.state, r.runAt, r.claim, r.lease, f.t, TRUE, r.sync) \in RowType
    BY Columns, RowTyped
  <1>3. ASSUME NEW sync
        PROVE  Recoverable(Row(f.state, f.runAt, f.claim, f.lease, f.t, FALSE, sync))
    BY RowRecoverable DEF Recoverable
  <1>4. Recoverable(Row(r.state, r.runAt, r.claim, r.lease, f.t, TRUE, r.sync))
    BY RowRecoverable DEF Recoverable
  <1>5. (r.t = 0 \/ r.sync) \in BOOLEAN
    OBVIOUS
  <1>6. ApplyTask(r, f) \in RowType /\ Recoverable(ApplyTask(r, f))
    BY <1>1, <1>3, <1>5 DEF ApplyTask
  <1>7. ApplyTaskTombstone(r, f) \in RowType /\ Recoverable(ApplyTaskTombstone(r, f))
    BY <1>2, <1>4 DEF ApplyTaskTombstone
  <1> QED  BY <1>6, <1>7

IInv == TypeOK /\ RunningIsRecoverable

-----------------------------------------------------------------------------
LEMMA InitIInv == Init => IInv
  <1> SUFFICES ASSUME Init PROVE IInv
    OBVIOUS
  <1>1. NoRow \in RowType /\ Recoverable(NoRow)
    BY DEF NoRow, Row, RowType, State, Time, Null, Recoverable
  <1>2. \A d \in Device : row[d] = NoRow
    BY DEF Init
  <1>3. row \in [Device -> RowType]
    BY <1>1 DEF Init
  <1>4. Idle \in [pc: PC, until: Nat]
    BY DEF Idle, At, PC
  <1>5. run \in [Proc -> [pc: PC, until: Nat]]
    BY <1>4 DEF Init
  <1>6. folder \in [row: RowType, writer: SUBSET Device] /\ folder.row = NoRow
    BY <1>1 DEF Init, Object
  <1>7. /\ now \in 0 .. MaxTime /\ user \in 0 .. MaxUser /\ crashes \in 0 .. MaxCrashes
        /\ mirrored \in [Device -> Nat]
    BY TaskAssumption DEF Init
  <1> QED  BY <1>1, <1>2, <1>3, <1>5, <1>6, <1>7 DEF IInv, TypeOK, RunningIsRecoverable

\* Where the ticks stand keeps its type when one process moves.
LEMMA RunTyped ==
    ASSUME TypeOK, NEW p \in Proc, NEW pc \in PC, NEW until \in Nat,
           run' = [run EXCEPT ![p] = At(pc, until)]
    PROVE  run' \in [Proc -> [pc: PC, until: Nat]]
  <1>1. At(pc, until) \in [pc: PC, until: Nat]
    BY DEF At
  <1> QED  BY <1>1 DEF TypeOK

\* push_tasks puts the row, as it is, on the transport.
LEMMA PushKeeps ==
    ASSUME IInv, NEW d \in Device, PushRow(d)
    PROVE  /\ folder' \in [row: RowType, writer: SUBSET Device]
           /\ Recoverable(folder'.row)
           /\ mirrored' \in [Device -> Nat]
  <1>1. row[d] \in RowType /\ row[d].t \in Nat /\ Recoverable(row[d])
    BY Columns DEF IInv, TypeOK, RunningIsRecoverable
  <1>2. folder' = [row |-> row[d], writer |-> {d}]
    BY DEF PushRow, Object
  <1>3. folder' \in [row: RowType, writer: SUBSET Device] /\ folder'.row = row[d]
    BY <1>1, <1>2
  <1>4. mirrored' \in [Device -> Nat]
    BY <1>1 DEF PushRow, IInv, TypeOK
  <1> QED  BY <1>1, <1>3, <1>4

LEMMA StepIInv == IInv /\ [Next]_vars => IInv'
  <1> SUFFICES ASSUME IInv, [Next]_vars PROVE IInv'
    OBVIOUS
  <1> USE DEF IInv
  <1>0. /\ TypeOK
        /\ \A d \in Device : row[d] \in RowType /\ Recoverable(row[d])
        /\ folder.row \in RowType /\ Recoverable(folder.row)
    BY DEF TypeOK, RunningIsRecoverable
  <1>w. TypeOK /\ \A e \in Device : Recoverable(row[e])
    BY <1>0
  <1> DEFINE Columnar(d) ==
               /\ row[d].state \in State /\ row[d].runAt \in Time
               /\ row[d].claim \in SUBSET Device /\ row[d].lease \in Time
               /\ row[d].t \in Nat /\ row[d].del \in BOOLEAN /\ row[d].sync \in BOOLEAN
               /\ row[d].state = "running" => row[d].claim # {} /\ row[d].lease # Null
  <1>r. \A d \in Device : Columnar(d)
    BY <1>0, Columns DEF Recoverable
  <1>t. /\ now \in Nat /\ now + 1 \in Time /\ now + 1 + Lease \in Time
        /\ now + 1 + Lease \in Nat /\ now + 1 + Lease # Null /\ now + 1 + Every \in Time
    BY TaskAssumption DEF TypeOK, Time, Null
  <1>c. /\ "pending" \in State /\ "running" \in State /\ "done" \in State
        /\ "failed" \in State /\ Null \in Time /\ {} \in SUBSET Device
        /\ \A pc \in {"idle", "due", "claimed", "running", "ok", "bad", "ended"} : pc \in PC
        /\ 0 \in Nat
    BY DEF State, Time, PC
  <1>u. \A p \in Proc : run[p].until \in Nat /\ Dev[p] \in Device
    BY TaskAssumption DEF TypeOK
  <1>1. ASSUME NEW d \in Device, NEW runAt \in {Null, 2}, NEW sync \in BOOLEAN,
               Create(d, runAt, sync)
        PROVE  IInv'
    <2>1. runAt \in Time
      BY DEF Time
    <2>2. Write(d, "pending", runAt, {}, Null, FALSE, sync)
      BY <1>1 DEF Create
    <2>3. /\ now' \in 0 .. MaxTime /\ row' \in [Device -> RowType]
          /\ \A e \in Device : Recoverable(row'[e])
      BY <2>1, <2>2, <1>0, <1>c, WriteKeeps, ZenonT(60), SMTT(60)
    <2> QED  BY <1>0, <1>1, <2>3 DEF TypeOK, RunningIsRecoverable, Create
  <1>2. ASSUME NEW d \in Device, Remove(d)
        PROVE  IInv'
    <2>1. /\ now' \in 0 .. MaxTime /\ row' \in [Device -> RowType]
          /\ \A e \in Device : Recoverable(row'[e])
      <3>1. PICK del \in BOOLEAN : Write(d, row[d].state, row[d].runAt, row[d].claim,
                                        row[d].lease, del, row[d].sync)
        BY <1>2 DEF Remove
      <3>2. Columnar(d)
        BY <1>r
      <3>3. row[d].state = "running" => row[d].claim # {} /\ row[d].lease # Null
        BY <3>2
      <3> HIDE DEF Columnar
      <3>4. /\ row[d].state \in State /\ row[d].runAt \in Time
            /\ row[d].claim \in SUBSET Device /\ row[d].lease \in Time
            /\ row[d].del \in BOOLEAN /\ row[d].sync \in BOOLEAN
        BY <3>2 DEF Columnar
      <3> QED  BY <1>w, <3>1, <3>3, <3>4, WriteKeeps, SMTT(60), ZenonT(60)
    <2>2. user' \in 0 .. MaxUser
      BY <1>2, TaskAssumption DEF Remove, TypeOK
    <2> QED  BY <1>0, <1>2, <2>1, <2>2 DEF TypeOK, RunningIsRecoverable, Remove
  <1>3. ASSUME NEW d \in Device, NEW sync \in BOOLEAN, SetSyncScope(d, sync)
        PROVE  IInv'
    <2>1. /\ now' \in 0 .. MaxTime /\ row' \in [Device -> RowType]
          /\ \A e \in Device : Recoverable(row'[e])
      <3>1. Write(d, row[d].state, row[d].runAt, row[d].claim, row[d].lease, row[d].del, sync)
        BY <1>3 DEF SetSyncScope
      <3>2. Columnar(d)
        BY <1>r
      <3>3. row[d].state = "running" => row[d].claim # {} /\ row[d].lease # Null
        BY <3>2
      <3> HIDE DEF Columnar
      <3>4. /\ row[d].state \in State /\ row[d].runAt \in Time
            /\ row[d].claim \in SUBSET Device /\ row[d].lease \in Time
            /\ row[d].del \in BOOLEAN /\ row[d].sync \in BOOLEAN
        BY <3>2 DEF Columnar
      <3> QED  BY <1>w, <3>1, <3>3, <3>4, WriteKeeps
    <2>2. user' \in 0 .. MaxUser
      BY <1>3, TaskAssumption DEF SetSyncScope, TypeOK
    <2> QED  BY <1>0, <1>3, <2>1, <2>2 DEF TypeOK, RunningIsRecoverable, SetSyncScope
  <1>4. ASSUME NEW d \in Device, Push(d)
        PROVE  IInv'
    <2>1. PushRow(d) /\ UNCHANGED <<now, user, crashes, row, run>>
      BY <1>4 DEF Push
    <2> QED  BY <1>0, <2>1, PushKeeps DEF TypeOK, RunningIsRecoverable
  <1>5. ASSUME NEW d \in Device, Pull(d)
        PROVE  IInv'
    <2> DEFINE f == folder.row
               new == IF f.del THEN ApplyTaskTombstone(row[d], f) ELSE ApplyTask(row[d], f)
    <2>1. new \in RowType /\ Recoverable(new)
      BY <1>0, MergeKeeps
    <2>2. row \in [Device -> RowType] /\ row' = [row EXCEPT ![d] = new]
      BY <1>0, <1>5 DEF Pull, TypeOK
    <2>3. f.t \in Nat
      BY <1>0, Columns
    <2>4. mirrored' \in [Device -> Nat]
      BY <1>0, <1>5, <2>3 DEF Pull, TypeOK
    <2> HIDE DEF new
    <2>5. row' \in [Device -> RowType]
      BY <2>1, <2>2
    <2>6. \A e \in Device : row'[e] = IF e = d THEN new ELSE row[e]
      BY <2>2
    <2>7. \A e \in Device : Recoverable(row'[e])
      BY <1>0, <2>1, <2>6
    <2> QED  BY <1>0, <1>5, <2>4, <2>5, <2>7 DEF Pull, TypeOK, RunningIsRecoverable
  <1>6. ASSUME NEW p \in Proc, Scan(p)
        PROVE  IInv'
    <2>1. run' \in [Proc -> [pc: PC, until: Nat]]
      BY <1>0, <1>6, <1>c, RunTyped DEF Scan
    <2> QED  BY <1>0, <1>6, <2>1 DEF Scan, TypeOK, RunningIsRecoverable
  <1>7. ASSUME NEW p \in Proc, Claim(p)
        PROVE  IInv'
    <2>1. /\ Write(Dev[p], "running", row[Dev[p]].runAt, {Dev[p]}, now + 1 + Lease,
                   row[Dev[p]].del, row[Dev[p]].sync)
          /\ run' = [run EXCEPT ![p] = At("claimed", now + 1 + Lease)]
      BY <1>7 DEF Claim
    <2>2. Dev[p] \in Device /\ {Dev[p]} \in SUBSET Device /\ {Dev[p]} # {}
      BY <1>u
    <2>3. /\ now' \in 0 .. MaxTime /\ row' \in [Device -> RowType]
          /\ \A e \in Device : Recoverable(row'[e])
      <3>1. Columnar(Dev[p])
        BY <1>r, <2>2
      <3> QED  BY <1>w, <1>t, <1>c, <2>1, <2>2, <3>1, WriteKeeps, SMTT(60), ZenonT(60)
    <2>4. run' \in [Proc -> [pc: PC, until: Nat]]
      BY <1>0, <1>t, <1>c, <2>1, RunTyped
    <2> QED  BY <1>0, <1>7, <2>3, <2>4 DEF Claim, TypeOK, RunningIsRecoverable
  <1>8. ASSUME NEW p \in Proc, Skip(p)
        PROVE  IInv'
    <2>1. run' \in [Proc -> [pc: PC, until: Nat]]
      BY <1>0, <1>8, <1>c, RunTyped DEF Skip, Idle
    <2> QED  BY <1>0, <1>8, <2>1 DEF Skip, TypeOK, RunningIsRecoverable
  <1>9. ASSUME NEW p \in Proc, Advertise(p)
        PROVE  IInv'
    <2>1. run' \in [Proc -> [pc: PC, until: Nat]]
      <3>1. CASE run[p].pc = "claimed"
        BY <3>1, <1>0, <1>9, <1>c, <1>u, RunTyped DEF Advertise
      <3>2. CASE run[p].pc # "claimed"
        BY <3>2, <1>0, <1>9, <1>c, RunTyped DEF Advertise, Idle
      <3> QED  BY <3>1, <3>2
    <2>2. /\ folder' \in [row: RowType, writer: SUBSET Device]
          /\ Recoverable(folder'.row)
          /\ mirrored' \in [Device -> Nat]
      <3>1. CASE PushRow(Dev[p])
        BY <3>1, <1>u, PushKeeps
      <3>2. CASE UNCHANGED <<folder, mirrored>>
        BY <3>2, <1>0 DEF TypeOK
      <3> QED  BY <3>1, <3>2, <1>9 DEF Advertise
    <2> QED  BY <1>0, <1>9, <2>1, <2>2 DEF Advertise, TypeOK, RunningIsRecoverable
  <1>10. ASSUME NEW p \in Proc, HandleOk(p)
         PROVE  IInv'
    <2>1. run' \in [Proc -> [pc: PC, until: Nat]]
      BY <1>0, <1>10, <1>c, <1>u, RunTyped DEF HandleOk
    <2>2. /\ now' \in 0 .. MaxTime /\ row' \in [Device -> RowType]
          /\ \A e \in Device : Recoverable(row'[e])
      <3>1. Write(Dev[p], row[Dev[p]].state, row[Dev[p]].runAt, row[Dev[p]].claim,
                  row[Dev[p]].lease, row[Dev[p]].del, row[Dev[p]].sync)
        BY <1>10 DEF HandleOk
      <3>2. Dev[p] \in Device /\ Columnar(Dev[p])
        BY <1>u, <1>r
      <3> QED  BY <3>1, <3>2, <1>w, WriteKeeps, SMTT(60), ZenonT(60)
    <2> QED  BY <1>0, <1>10, <2>1, <2>2 DEF HandleOk, TypeOK, RunningIsRecoverable
  <1>11. ASSUME NEW p \in Proc, HandleErr(p)
         PROVE  IInv'
    <2>1. run' \in [Proc -> [pc: PC, until: Nat]]
      BY <1>0, <1>11, <1>c, <1>u, RunTyped DEF HandleErr
    <2> QED  BY <1>0, <1>11, <2>1 DEF HandleErr, TypeOK, RunningIsRecoverable
  <1>12. ASSUME NEW p \in Proc, Requeue(p)
         PROVE  IInv'
    <2>1. run' \in [Proc -> [pc: PC, until: Nat]]
      BY <1>0, <1>12, <1>c, RunTyped DEF Requeue
    <2>2. /\ now' \in 0 .. MaxTime /\ row' \in [Device -> RowType]
          /\ \A e \in Device : Recoverable(row'[e])
      BY <1>0, <1>12, <1>r, <1>t, <1>c, <1>u, WriteKeeps DEF Requeue
    <2> QED  BY <1>0, <1>12, <2>1, <2>2 DEF Requeue, TypeOK, RunningIsRecoverable
  <1>13. ASSUME NEW p \in Proc, Finish(p)
         PROVE  IInv'
    <2> DEFINE end == IF run[p].pc = "ok" THEN "done" ELSE "failed"
    <2>1. run' \in [Proc -> [pc: PC, until: Nat]]
      BY <1>0, <1>13, <1>c, RunTyped DEF Finish
    <2>2. end \in State /\ end # "running"
      BY <1>c
    <2>3. Write(Dev[p], end, row[Dev[p]].runAt, row[Dev[p]].claim, row[Dev[p]].lease,
                row[Dev[p]].del, row[Dev[p]].sync)
      BY <1>13 DEF Finish
    <2> HIDE DEF end
    <2>4. /\ now' \in 0 .. MaxTime /\ row' \in [Device -> RowType]
          /\ \A e \in Device : Recoverable(row'[e])
      <3>1. Columnar(Dev[p]) /\ Dev[p] \in Device
        BY <1>r, <1>u
      <3> QED  BY <1>w, <2>2, <2>3, <3>1, WriteKeeps
    <2> QED  BY <1>0, <1>13, <2>1, <2>4 DEF Finish, TypeOK, RunningIsRecoverable
  <1>14. ASSUME NEW p \in Proc, Crash(p)
         PROVE  IInv'
    <2>1. run' \in [Proc -> [pc: PC, until: Nat]]
      BY <1>0, <1>14, <1>c, RunTyped DEF Crash, Idle
    <2>2. crashes' \in 0 .. MaxCrashes
      BY <1>14, TaskAssumption DEF Crash, TypeOK
    <2> QED  BY <1>0, <1>14, <2>1, <2>2 DEF Crash, TypeOK, RunningIsRecoverable
  <1>15. ASSUME Pass
         PROVE  IInv'
    <2>1. now' \in 0 .. MaxTime
      <3>1. PICK next \in Deadlines : next > now /\ next <= MaxTime /\ now' = next
        BY <1>15 DEF Pass
      <3>2. next \in Time
        BY <1>r DEF Deadlines
      <3> QED  BY <3>1, <3>2, <1>t, TaskAssumption DEF Time, Null
    <2> QED  BY <1>0, <1>15, <2>1 DEF Pass, TypeOK, RunningIsRecoverable
  <1>16. ASSUME UNCHANGED vars
         PROVE  IInv'
    BY <1>0, <1>16 DEF vars, TypeOK, RunningIsRecoverable
  <1> QED
    BY <1>1, <1>2, <1>3, <1>4, <1>5, <1>6, <1>7, <1>8, <1>9, <1>10, <1>11, <1>12,
       <1>13, <1>14, <1>15, <1>16 DEF Next, User, Work

-----------------------------------------------------------------------------
\* A task that is running carries a claim and a lease on every device and in its
\* object, whatever ticks, crashes, removals and pulls led there: due_tasks finds it.
THEOREM RunningCanBeRecovered == Spec => []RunningIsRecoverable
  <1>1. IInv => RunningIsRecoverable
    BY DEF IInv
  <1> QED  BY <1>1, InitIInv, StepIInv, PTL DEF Spec

\* The claim a process makes after its scan is old: no process, on any number of
\* devices and of processes per device, starts a task that its own database records
\* as removed, finished or held by another device.
THEOREM NoStartFromStaleScan == Spec => StartsOnlyFree
  <1> DEFINE Starts == \A p \in Proc :
                 (run[p].pc = "due" /\ run'[p].pc = "claimed")
                   => Free(row[Dev[p]], Dev[p], now')
  <1>1. IInv /\ [Next]_vars => [Starts]_vars
    <2> SUFFICES ASSUME IInv, Next, NEW p \in Proc,
                        run[p].pc = "due", run'[p].pc = "claimed"
                 PROVE  Free(row[Dev[p]], Dev[p], now')
      BY DEF vars
    <2>0. run \in [Proc -> [pc: PC, until: Nat]]
      BY DEF IInv, TypeOK
    <2>1. ASSUME NEW q \in Proc, NEW v, run' = [run EXCEPT ![q] = v], q # p
          PROVE  FALSE
      BY <2>0, <2>1
    <2>2. ASSUME NEW v, run' = [run EXCEPT ![p] = v]
          PROVE  v.pc = "claimed"
      BY <2>0, <2>2
    <2>3. run' # run
      OBVIOUS
    <2>4. Claim(p)
      <3>1. ASSUME NEW q \in Proc, Scan(q) \/ Skip(q) \/ Advertise(q) \/ HandleOk(q)
                     \/ HandleErr(q) \/ Requeue(q) \/ Finish(q) \/ Crash(q)
            PROVE  FALSE
        <4>1. PICK v : run' = [run EXCEPT ![q] = v]
          BY <3>1 DEF Scan, Skip, Advertise, HandleOk, HandleErr, Requeue, Finish, Crash
        <4>2. q = p
          BY <4>1, <2>1
        <4>3. CASE Scan(p)
          BY <4>3 DEF Scan
        <4>4. CASE Skip(p)
          BY <4>4, <2>2 DEF Skip, Idle, At
        <4>5. CASE Crash(p)
          BY <4>5, <2>2 DEF Crash, Idle, At
        <4> QED  BY <3>1, <4>2, <4>3, <4>4, <4>5
                 DEF Advertise, HandleOk, HandleErr, Requeue, Finish
      <3>2. ASSUME NEW q \in Proc, Claim(q)
            PROVE  q = p
        BY <3>2, <2>1 DEF Claim
      <3> QED  BY <3>1, <3>2, <2>3
               DEF Next, User, Work, Create, Remove, SetSyncScope, Push, Pull, Pass
    <2>5. /\ Claimable(row[Dev[p]], Dev[p], now + 1)
          /\ now' = now + 1
      BY <2>4 DEF Claim, Write
    <2>6. row[Dev[p]].lease = Null => row[Dev[p]].lease <= now'
      BY <2>5, TaskAssumption DEF IInv, TypeOK, Null
    <2> QED  BY <2>5, <2>6 DEF Claimable, Free
  <1> QED  BY <1>1, InitIInv, StepIInv, PTL DEF Spec, StartsOnlyFree

-----------------------------------------------------------------------------
(* Models.  What a row leads to was verified when the row was written and  *)
(* can only be removed since; a host that has not died has started every   *)
(* server that lives, and killed the one of before.                        *)

MAssumption ==
    /\ Home \notin Drive /\ {M!None, Unknown} \cap M!Place = {}
    /\ MaxProcs \in Nat
    /\ \A S \in SUBSET Drive : S # {} => \E d \in S : \A e \in S : e <= d

Copying == {"copy", "record", "index"}

MTyped ==
    /\ M!TypeOK
    /\ file \in [M!Place -> [Slug -> {"none", "good", "bad"}]]
    /\ listed \in [M!Place -> SUBSET Slug]
    /\ mounted \subseteq Drive
    /\ started \in 0 .. MaxProcs /\ crashed \in Nat

Verified ==
    /\ \A s \in Slug : table[s] \in M!Place => file[table[s]][s] # "bad"
    /\ host \in Copying => job.s \in Slug
    /\ host = "record" => file[job.to][job.s] # "bad"

Alive(i) == server[i].st \in M!Live
Owned ==
    /\ \A i \in M!Procs : i > started => ~Alive(i)
    /\ host \in {"auto", "serve"} => started \in M!Procs
    /\ crashed = 0 =>
          /\ host \in {"off", "auto", "serve"} => child = M!None
          /\ \A i \in M!Procs :
                Alive(i) => \/ i = child /\ server[i].s = chat
                            \/ /\ host \in {"auto", "serve"} /\ i = started
                               /\ server[i].s = job.s

MInv == MTyped /\ Verified /\ Owned

LEMMA MInitInv == ASSUME M!Init, MAssumption PROVE MInv
<1>1. PICK installed \in SUBSET Slug, g \in [Drive -> [Slug -> {"none", "good", "bad"}]] :
        /\ file = [p \in M!Place |->
                     IF p \in Drive THEN g[p]
                     ELSE [s \in Slug |-> IF s \in installed THEN "good" ELSE "none"]]
        /\ table = [s \in Slug |-> IF s \in installed THEN Home ELSE Unknown]
  BY DEF M!Init
<1>2. file \in [M!Place -> [Slug -> {"none", "good", "bad"}]]
  BY <1>1
<1>3. table \in [Slug -> M!Place \cup {M!None, Unknown}]
  BY <1>1 DEF M!Place
<1>4. Home \in M!Place /\ job = M!Job(M!None, Home, M!None)
  BY DEF M!Place, M!Init
<1>5. job \in [s : Slug \cup {M!None}, to : M!Place, from : M!Place \cup {M!None}]
  BY <1>4 DEF M!Job
<1>6. \A i \in M!Procs : server[i] = M!Server("dead", M!None)
  BY DEF M!Init
<1>7. M!Server("dead", M!None).st = "dead"
      /\ M!Server("dead", M!None) \in [st : M!Live \cup {"dead"}, s : Slug \cup {M!None}]
  BY DEF M!Server
<1>8. listed \in [M!Place -> SUBSET Slug]
  BY DEF M!Init
<1>9. MTyped
  BY <1>2, <1>3, <1>5, <1>6, <1>7, <1>8 DEF MTyped, M!TypeOK, M!Init, MAssumption
<1>10. Verified
  <2>1. ASSUME NEW s \in Slug, table[s] \in M!Place PROVE file[table[s]][s] = "good"
    <3>1. table[s] = Home /\ s \in installed
      BY <1>1, <2>1 DEF MAssumption
    <3> QED BY <1>1, <1>4, <3>1 DEF MAssumption
  <2> QED BY <2>1 DEF Verified, M!Init, Copying
<1>11. Owned
  BY <1>6, <1>7 DEF Owned, Alive, M!Live, M!Init
<1> QED BY <1>9, <1>10, <1>11 DEF MInv

\* What a scan records was verified.
LEMMA Scanned ==
  ASSUME MInv, MAssumption, NEW s \in Slug
  PROVE  \/ M!ScannedRow[s] = table[s]
         \/ M!ScannedRow[s] \in Drive /\ file[M!ScannedRow[s]][s] = "good"
<1> DEFINE Has == {d \in mounted : M!Adoptable(d, s)}
<1>1. CASE Has = {}
  BY <1>1 DEF M!ScannedRow
<1>2. CASE Has # {}
  <2>1. Has \in SUBSET Drive
    BY DEF MInv, MTyped
  <2>2. \E d \in Has : \A e \in Has : e <= d
    BY <1>2, <2>1 DEF MAssumption
  <2>3. \E d \in mounted : M!Adoptable(d, s) /\ \A e \in mounted : M!Adoptable(e, s) => e <= d
    BY <2>2
  <2>4. M!ScannedRow[s] = CHOOSE d \in mounted :
              M!Adoptable(d, s) /\ \A e \in mounted : M!Adoptable(e, s) => e <= d
    BY <1>2 DEF M!ScannedRow
  <2>5. M!ScannedRow[s] \in mounted /\ M!Adoptable(M!ScannedRow[s], s)
    BY <2>3, <2>4
  <2> QED BY <2>5 DEF M!Adoptable, MInv, MTyped
<1> QED BY <1>1, <1>2

\* Rows that name what is verified, or nothing, or what they did.
Proper(t) ==
    /\ DOMAIN t = Slug
    /\ t = [s \in Slug |-> t[s]]
    /\ \A s \in Slug : \/ t[s] = table[s] \/ t[s] \in {M!None, Unknown}
                       \/ t[s] \in M!Place /\ file[t[s]][s] # "bad"

LEMMA ScannedProper == ASSUME MInv, MAssumption PROVE Proper(M!ScannedRow)
  BY Scanned DEF Proper, M!ScannedRow, M!Place

LEMMA ProperRows ==
  ASSUME MInv, MAssumption, Proper(table')
  PROVE  /\ table' \in [Slug -> M!Place \cup {M!None, Unknown}]
         /\ \A s \in Slug : table'[s] \in M!Place => file[table'[s]][s] # "bad"
  BY DEF Proper, MInv, MTyped, M!TypeOK, Verified, MAssumption

LEMMA MOwnedStays ==
  ASSUME Owned, UNCHANGED <<server, started, crashed, child, chat>>,
         \/ host' = host /\ job' = job
         \/ host \in {"up"} \cup Copying /\ host' \in {"up"} \cup Copying
  PROVE  Owned'
<1>1. /\ \A i \in M!Procs : Alive(i)' <=> Alive(i)
      /\ M!Procs' = M!Procs
  BY DEF Alive, M!Procs
<1> QED BY <1>1 DEF Owned, Copying

LEMMA MTypedStays ==
  ASSUME MTyped,
         UNCHANGED <<server, started, crashed, child, badge, chat, saved>>,
         host' \in {"off", "up", "auto", "serve", "copy", "record", "index"},
         job' \in [s : Slug \cup {M!None}, to : M!Place, from : M!Place \cup {M!None}],
         table' \in [Slug -> M!Place \cup {M!None, Unknown}],
         file' \in [M!Place -> [Slug -> {"none", "good", "bad"}]],
         listed' \in [M!Place -> SUBSET Slug],
         todo' \subseteq Drive \X Slug, last' \subseteq Drive, mounted' \subseteq Drive
  PROVE  MTyped'
BY DEF MTyped, M!TypeOK

LEMMA MFiles ==
  ASSUME file \in [M!Place -> [Slug -> {"none", "good", "bad"}]],
         NEW s \in Slug, NEW p \in M!Place, NEW x \in {"none", "good"}, file' = [file EXCEPT ![p][s] = x]
  PROVE  /\ file' \in [M!Place -> [Slug -> {"none", "good", "bad"}]]
         /\ \A q \in M!Place, r \in Slug :
               file'[q][r] = IF q = p /\ r = s THEN x ELSE file[q][r]
<1>1. \A q \in M!Place : file'[q] = IF q = p THEN [file[q] EXCEPT ![s] = x] ELSE file[q]
  OBVIOUS
<1>2. \A q \in M!Place : file[q] \in [Slug -> {"none", "good", "bad"}]
  OBVIOUS
<1> QED BY <1>1, <1>2

LEMMA MFileSteps ==
  ASSUME MInv, MAssumption,
         \/ M!Scan \/ M!Placed \/ M!InstallFails \/ M!Record \/ M!Index \/ M!Look \/ M!Adopt
         \/ (\E s \in Slug : M!Uninstall(s) \/ \E p \in M!Place : M!Install(s, p))
         \/ (\E d \in Drive : M!Plug(d))
  PROVE  MInv'
<1> USE DEF MInv
<1> DEFINE Jobs == [s : Slug \cup {M!None}, to : M!Place, from : M!Place \cup {M!None}]
<1>0. /\ host \in {"off", "up", "auto", "serve", "copy", "record", "index"} /\ job \in Jobs
      /\ table \in [Slug -> M!Place \cup {M!None, Unknown}]
      /\ file \in [M!Place -> [Slug -> {"none", "good", "bad"}]]
      /\ listed \in [M!Place -> SUBSET Slug]
      /\ todo \subseteq Drive \X Slug /\ last \subseteq Drive /\ mounted \subseteq Drive
      /\ M!None \notin M!Place /\ Unknown \notin M!Place
  BY DEF MTyped, M!TypeOK, MAssumption
<1>1. CASE M!Scan
  <2>1. /\ table' = M!ScannedRow
        /\ UNCHANGED <<host, job, child, badge, chat, saved, server, started, crashed,
                       file, listed, mounted, moves, last, todo>>
    BY <1>1 DEF M!Scan, M!hostvars, M!servers, M!drives, M!watcher
  <2>2. /\ table' \in [Slug -> M!Place \cup {M!None, Unknown}]
        /\ \A s \in Slug : table'[s] \in M!Place => file[table'[s]][s] # "bad"
    BY <2>1, ScannedProper, ProperRows
  <2> QED BY <1>0, <2>1, <2>2, MTypedStays, MOwnedStays DEF Verified
<1>2. CASE M!Placed
  <2>1. /\ host = "copy" /\ host' = "record"
        /\ file' = [file EXCEPT ![job.to][job.s] = "good"]
        /\ UNCHANGED <<job, child, badge, chat, saved, server, started, crashed, listed,
                       table, mounted, moves, last, todo>>
    BY <1>2 DEF M!Placed, M!servers, M!drives, M!watcher
  <2>2. job.s \in Slug /\ job.to \in M!Place
    BY <1>0, <2>1 DEF Verified, Copying
  <2>3. /\ file' \in [M!Place -> [Slug -> {"none", "good", "bad"}]]
        /\ \A q \in M!Place, r \in Slug :
              file'[q][r] = IF q = job.to /\ r = job.s THEN "good" ELSE file[q][r]
    BY <1>0, <2>1, <2>2, MFiles
  <2>4. MTyped' /\ Owned'
    BY <1>0, <2>1, <2>3, MTypedStays, MOwnedStays DEF Copying
  <2> QED BY <2>1, <2>2, <2>3, <2>4 DEF Verified
<1>3. CASE M!InstallFails
  <2>1. /\ host \in Copying /\ host' = "up"
        /\ UNCHANGED <<job, child, badge, chat, saved, server, started, crashed, file,
                       listed, table, mounted, moves, last, todo>>
    BY <1>3 DEF M!InstallFails, M!servers, M!files, M!drives, M!watcher, Copying
  <2> QED BY <1>0, <2>1, MTypedStays, MOwnedStays DEF Verified, Copying
<1>4. CASE M!Record
  <2>1. /\ host = "record" /\ host' = "index"
        /\ table' = [table EXCEPT ![job.s] = IF @ = Unknown THEN @ ELSE job.to]
        /\ UNCHANGED <<job, child, badge, chat, saved, server, started, crashed, file,
                       listed, mounted, moves, last, todo>>
    BY <1>4 DEF M!Record, M!servers, M!drives, M!watcher
  <2>2. job.s \in Slug /\ job.to \in M!Place /\ file[job.to][job.s] # "bad"
    BY <1>0, <2>1 DEF Verified, Copying
  <2>3. Proper(table')
    BY <1>0, <2>1, <2>2 DEF Proper
  <2>4. /\ table' \in [Slug -> M!Place \cup {M!None, Unknown}]
        /\ \A s \in Slug : table'[s] \in M!Place => file[table'[s]][s] # "bad"
    BY <2>3, ProperRows
  <2> QED BY <1>0, <2>1, <2>2, <2>4, MTypedStays, MOwnedStays DEF Verified, Copying
<1>5. CASE M!Index
  <2>1. /\ host = "index" /\ host' = "up"
        /\ listed' = [listed EXCEPT ![job.to] = @ \cup {job.s}]
        /\ UNCHANGED <<job, child, badge, chat, saved, server, started, crashed, file,
                       table, mounted, moves, last, todo>>
    BY <1>5 DEF M!Index, M!servers, M!drives, M!watcher
  <2>2. listed' \in [M!Place -> SUBSET Slug]
    BY <1>0, <2>1 DEF Verified, Copying
  <2> QED BY <1>0, <2>1, <2>2, MTypedStays, MOwnedStays DEF Verified, Copying
<1>6. CASE M!Look
  <2>1. /\ last' = mounted /\ todo' \subseteq Drive \X Slug
        /\ UNCHANGED <<host, job, child, badge, chat, saved, server, started, crashed,
                       file, listed, table, mounted, moves>>
    BY <1>0, <1>6 DEF M!Look, M!hostvars, M!servers, M!files, M!drives
  <2> QED BY <1>0, <2>1, MTypedStays, MOwnedStays DEF Verified
<1>7. CASE M!Adopt
  <2>1. PICK f \in todo :
          /\ todo' = todo \ {f}
          /\ table' = IF M!Adoptable(f[1], f[2]) THEN [table EXCEPT ![f[2]] = f[1]] ELSE table
          /\ UNCHANGED <<host, job, child, badge, chat, saved, server, started, crashed,
                         file, listed, mounted, moves, last>>
    BY <1>7 DEF M!Adopt, M!hostvars, M!servers, M!drives
  <2>2. f[1] \in M!Place /\ f[2] \in Slug
    BY <1>0 DEF M!Place
  <2>3. M!Adoptable(f[1], f[2]) => file[f[1]][f[2]] = "good"
    BY DEF M!Adoptable
  <2>4. Proper(table')
    BY <1>0, <2>1, <2>2, <2>3 DEF Proper
  <2>5. /\ table' \in [Slug -> M!Place \cup {M!None, Unknown}]
        /\ \A s \in Slug : table'[s] \in M!Place => file[table'[s]][s] # "bad"
    BY <2>4, ProperRows
  <2> QED BY <1>0, <2>1, <2>5, MTypedStays, MOwnedStays DEF Verified
<1>8. ASSUME NEW s \in Slug, M!Uninstall(s) PROVE MInv'
  <2>1. /\ table[s] \in M!Place /\ table' = [table EXCEPT ![s] = M!None]
        /\ UNCHANGED <<host, job, child, badge, chat, saved, server, started, crashed,
                       mounted, moves, last, todo>>
        /\ \/ /\ file' = [file EXCEPT ![table[s]][s] = "none"]
              /\ listed' = [listed EXCEPT ![table[s]] = @ \ {s}]
           \/ UNCHANGED <<file, listed>>
    BY <1>8 DEF M!Uninstall, M!hostvars, M!servers, M!drives, M!watcher
  <2>2. Proper(table')
    BY <1>0, <2>1 DEF Proper
  <2>3. /\ table' \in [Slug -> M!Place \cup {M!None, Unknown}]
        /\ \A r \in Slug : table'[r] \in M!Place => file[table'[r]][r] # "bad"
    BY <2>2, ProperRows
  <2>4. listed' \in [M!Place -> SUBSET Slug]
    BY <1>0, <2>1
  <2>5. /\ file' \in [M!Place -> [Slug -> {"none", "good", "bad"}]]
        /\ \A q \in M!Place, r \in Slug : file'[q][r] = file[q][r] \/ file'[q][r] = "none"
    <3>1. CASE file' = [file EXCEPT ![table[s]][s] = "none"]
      <4>1. PICK p \in M!Place : file' = [file EXCEPT ![p][s] = "none"]
        BY <2>1, <3>1
      <4>2. /\ file' \in [M!Place -> [Slug -> {"none", "good", "bad"}]]
            /\ \A q \in M!Place, r \in Slug :
                  file'[q][r] = IF q = p /\ r = s THEN "none" ELSE file[q][r]
        BY <1>0, <4>1, MFiles
      <4> QED BY <4>2
    <3>2. CASE UNCHANGED file
      BY <1>0, <3>2
    <3> QED BY <2>1, <3>1, <3>2
  <2>6. MTyped' /\ Owned'
    BY <1>0, <2>1, <2>3, <2>4, <2>5, MTypedStays, MOwnedStays
  <2> QED BY <1>0, <2>1, <2>3, <2>5, <2>6 DEF Verified, Copying
<1>9. ASSUME NEW s \in Slug, NEW p \in M!Place, M!Install(s, p) PROVE MInv'
  <2>1. /\ host = "up" /\ host' = "copy"
        /\ job' = M!Job(s, p, IF M!Recorded(s) THEN table[s] ELSE M!None)
        /\ table' \in {table, M!Registered(s)}
        /\ UNCHANGED <<child, badge, chat, saved, server, started, crashed, file, listed,
                       mounted, moves, last, todo>>
    BY <1>9 DEF M!Install, M!servers, M!drives, M!watcher
  <2>2. job' \in Jobs /\ job'.s = s
    BY <2>1 DEF M!Job, M!Recorded
  <2>3. Proper(table')
    BY <1>0, <2>1 DEF Proper, M!Registered
  <2>4. /\ table' \in [Slug -> M!Place \cup {M!None, Unknown}]
        /\ \A r \in Slug : table'[r] \in M!Place => file[table'[r]][r] # "bad"
    BY <2>3, ProperRows
  <2> QED BY <1>0, <2>1, <2>2, <2>4, MTypedStays, MOwnedStays DEF Verified, Copying
<1>10. ASSUME NEW d \in Drive, M!Plug(d) PROVE MInv'
  <2>1. /\ mounted' \subseteq Drive
        /\ UNCHANGED <<host, job, child, badge, chat, saved, server, started, crashed,
                       file, listed, table, last, todo>>
    BY <1>0, <1>10 DEF M!Plug, M!hostvars, M!servers, M!files, M!watcher
  <2> QED BY <1>0, <2>1, MTypedStays, MOwnedStays DEF Verified
<1> QED BY <1>1, <1>2, <1>3, <1>4, <1>5, <1>6, <1>7, <1>8, <1>9, <1>10

-----------------------------------------------------------------------------
\* The servers, one by one.
LEMMA MServers ==
  /\ M!Live = {"loading", "up", "doomed"} /\ M!Procs = 1 .. MaxProcs /\ M!None = 0
  /\ \A st, s : M!Server(st, s).st = st /\ M!Server(st, s).s = s
  /\ \A st \in M!Live \cup {"dead"}, s \in Slug \cup {M!None} :
        M!Server(st, s) \in [st : M!Live \cup {"dead"}, s : Slug \cup {M!None}]
  BY DEF M!Live, M!Procs, M!None, M!Server

LEMMA MSpawned ==
  ASSUME MTyped, MaxProcs \in Nat, started < MaxProcs, NEW s \in Slug,
         NEW sv \in [M!Procs -> [st : M!Live \cup {"dead"}, s : Slug \cup {M!None}]],
         server' = M!Spawned(sv, s)
  PROVE  /\ server' \in [M!Procs -> [st : M!Live \cup {"dead"}, s : Slug \cup {M!None}]]
         /\ \A i \in M!Procs : i # started + 1 => server'[i] = sv[i]
         /\ server'[started + 1].s = s
<1>1. started + 1 \in M!Procs
  BY MServers DEF MTyped
<1>2. PICK st \in M!Live : server' = [sv EXCEPT ![started + 1] = M!Server(st, s)]
  BY MServers DEF M!Spawned
<1> QED BY <1>1, <1>2, MServers

LEMMA MKilled ==
  ASSUME MTyped, NEW i \in M!Procs \cup {M!None}
  PROVE  /\ M!Killed(server, i) \in [M!Procs -> [st : M!Live \cup {"dead"}, s : Slug \cup {M!None}]]
         /\ \A j \in M!Procs : IF j = i THEN M!Killed(server, i)[j].st = "dead"
                               ELSE M!Killed(server, i)[j] = server[j]
<1>1. server \in [M!Procs -> [st : M!Live \cup {"dead"}, s : Slug \cup {M!None}]]
  BY DEF MTyped, M!TypeOK
<1>2. CASE i = M!None
  BY <1>1, <1>2, MServers DEF M!Killed
<1>3. CASE i # M!None
  BY <1>1, <1>3, MServers DEF M!Killed
<1> QED BY <1>2, <1>3

LEMMA MServerTypes ==
  ASSUME MTyped,
         host' \in {"off", "up", "auto", "serve", "copy", "record", "index"},
         job' \in [s : Slug \cup {M!None}, to : M!Place, from : M!Place \cup {M!None}],
         child' \in M!Procs \cup {M!None},
         badge' \in Slug \cup {M!None}, chat' \in Slug \cup {M!None},
         saved' \in Slug \cup {M!None},
         server' \in [M!Procs -> [st : M!Live \cup {"dead"}, s : Slug \cup {M!None}]],
         started' \in 0 .. MaxProcs, crashed' \in Nat,
         table' \in [Slug -> M!Place \cup {M!None, Unknown}],
         UNCHANGED <<file, listed, mounted>>,
         todo' \subseteq Drive \X Slug, last' \subseteq Drive
  PROVE  MTyped'
BY DEF MTyped, M!TypeOK

LEMMA MServerSteps ==
  ASSUME MInv, MAssumption,
         \/ \E i \in M!Procs : M!Load(i) \/ M!Exits(i)
         \/ M!StartHost \/ M!AutoReady \/ M!ServeReady \/ M!ServeFails \/ M!Free \/ M!Crash
         \/ \E s \in Slug : M!Serve(s)
  PROVE  MInv'
<1> DEFINE Servers == [M!Procs -> [st : M!Live \cup {"dead"}, s : Slug \cup {M!None}]]
<1> DEFINE Jobs == [s : Slug \cup {M!None}, to : M!Place, from : M!Place \cup {M!None}]
<1>0. /\ MTyped /\ Verified /\ Owned
      /\ host \in {"off", "up", "auto", "serve", "copy", "record", "index"} /\ job \in Jobs
      /\ child \in M!Procs \cup {M!None}
      /\ badge \in Slug \cup {M!None} /\ chat \in Slug \cup {M!None}
      /\ saved \in Slug \cup {M!None}
      /\ server \in Servers /\ started \in 0 .. MaxProcs /\ crashed \in Nat
      /\ table \in [Slug -> M!Place \cup {M!None, Unknown}]
      /\ todo \subseteq Drive \X Slug /\ last \subseteq Drive /\ mounted \subseteq Drive
      /\ M!None \notin M!Place /\ Unknown \notin M!Place /\ Home \in M!Place
      /\ MaxProcs \in Nat
  BY DEF MInv, MTyped, M!TypeOK, MAssumption, M!Place
<1>1. ASSUME NEW i \in M!Procs, M!Load(i) \/ M!Exits(i) PROVE MInv'
  <2>1. /\ UNCHANGED <<host, job, child, badge, chat, saved, started, crashed, file,
                       listed, table, mounted, last, todo>>
        /\ Alive(i)
    BY <1>1, MServers DEF M!Load, M!Exits, M!hostvars, M!files, M!drives, M!watcher, Alive
  <2>2. /\ server' \in Servers
        /\ \A j \in M!Procs : \/ server'[j] = server[j]
                              \/ server'[j].st = "dead"
                              \/ Alive(j) /\ server'[j].s = server[j].s
    <3>1. CASE M!Load(i)
      BY <1>0, <2>1, <3>1, MServers DEF M!Load
    <3>2. CASE M!Exits(i)
      <4>1. i # M!None /\ server' = M!Killed(server, i)
        BY <1>0, <3>2, MServers DEF M!Exits
      <4> QED BY <1>0, <4>1, MKilled
    <3> QED BY <1>1, <3>1, <3>2
  <2>3. \A j \in M!Procs : Alive(j)' => Alive(j) /\ server'[j].s = server[j].s
    BY <2>2, MServers DEF Alive
  <2>4. MTyped'
    BY <1>0, <2>1, <2>2, MServerTypes
  <2> QED BY <1>0, <2>1, <2>3, <2>4 DEF MInv, Verified, Owned
<1>2. CASE M!StartHost
  <2>1. /\ host = "off" /\ last' = mounted /\ badge' = M!None
        /\ UNCHANGED <<saved, crashed, file, listed, table, mounted, todo>>
    BY <1>2 DEF M!StartHost, M!files, M!drives
  <2>2. CASE M!Answers # {}
    <3>1. /\ host' = "up" /\ child' = M!None /\ chat' \in {server[i].s : i \in M!Answers}
          /\ UNCHANGED <<job, server, started>>
      BY <1>2, <2>2 DEF M!StartHost, M!servers
    <3>2. PICK i \in M!Procs : server[i].st = "up" /\ chat' = server[i].s
      BY <3>1 DEF M!Answers
    <3>3. Alive(i) /\ chat' \in Slug \cup {M!None}
      BY <1>0, <3>2, MServers DEF Alive
    <3>4. crashed # 0
      BY <1>0, <2>1, <3>3, MServers DEF Owned
    <3>5. MTyped'
      BY <1>0, <2>1, <3>1, <3>3, MServerTypes
    <3> QED BY <1>0, <2>1, <3>1, <3>4, <3>5 DEF MInv, Verified, Owned, Copying, Alive
  <2>3. CASE M!Answers = {} /\ M!Smallest # {} /\ started < MaxProcs
    <3>1. PICK s \in M!Smallest :
            /\ host' = "auto" /\ job' = M!Job(s, Home, M!None)
            /\ server' = M!Spawned(server, s) /\ started' = started + 1
            /\ UNCHANGED <<child, chat>>
      BY <1>2, <2>3 DEF M!StartHost
    <3>2. s \in Slug /\ job' \in Jobs /\ job'.s = s
      BY <1>0, <3>1 DEF M!Smallest, M!Job
    <3>3. /\ server' \in Servers /\ server'[started + 1].s = s
          /\ \A i \in M!Procs : i # started + 1 => server'[i] = server[i]
      BY <1>0, <2>3, <3>1, <3>2, MSpawned
    <3>4. started' \in M!Procs
      BY <1>0, <2>3, <3>1, MServers
    <3>5. MTyped'
      BY <1>0, <2>1, <3>1, <3>2, <3>3, <3>4, MServerTypes, MServers
    <3>6. Owned'
      <4>1. \A i \in M!Procs : i > started' => ~Alive(i)'
        BY <1>0, <3>1, <3>3, MServers DEF Owned, Alive
      <4>2. crashed = 0 => \A i \in M!Procs : ~Alive(i)
        BY <1>0, <2>1, MServers DEF Owned
      <4>3. crashed = 0 => \A i \in M!Procs : Alive(i)' => i = started'
        BY <3>1, <3>3, <4>2 DEF Alive
      <4> QED BY <1>0, <2>1, <3>1, <3>2, <3>3, <3>4, <4>1, <4>3 DEF Owned
    <3> QED BY <1>0, <2>1, <3>1, <3>5, <3>6 DEF MInv, Verified, Copying
  <2>4. CASE M!Answers = {} /\ ~(M!Smallest # {} /\ started < MaxProcs)
    <3>1. host' = "up" /\ chat' = saved /\ UNCHANGED <<child, job, server, started>>
      BY <1>2, <2>4 DEF M!StartHost, M!servers
    <3>2. MTyped'
      BY <1>0, <2>1, <3>1, MServerTypes
    <3>3. crashed = 0 => \A i \in M!Procs : ~Alive(i)
      BY <1>0, <2>1, MServers DEF Owned
    <3> QED BY <1>0, <2>1, <3>1, <3>2, <3>3 DEF MInv, Verified, Owned, Copying, Alive
  <2> QED BY <2>2, <2>3, <2>4
<1>3. CASE M!AutoReady
  <2>1. /\ host = "auto" /\ host' = "up" /\ started \in M!Procs
        /\ UNCHANGED <<job, badge, saved, server, started, crashed, file, listed, table,
                       mounted, last, todo>>
        /\ IF server[started].st = "dead" THEN chat' = saved /\ child' = child
           ELSE chat' = job.s /\ child' = started
    BY <1>0, <1>3 DEF M!AutoReady, M!servers, M!files, M!drives, M!watcher, Owned
  <2>2. job.s \in Slug \cup {M!None}
    BY <1>0
  <2>3. MTyped'
    BY <1>0, <2>1, <2>2, MServerTypes
  <2>4. \A i \in M!Procs : Alive(i)' <=> Alive(i)
    BY <2>1 DEF Alive
  <2>5. crashed = 0 => \A i \in M!Procs : Alive(i) => i = started /\ server[i].s = job.s
    BY <1>0, <2>1, MServers DEF Owned
  <2>6. Alive(started) => server[started].st # "dead"
    BY MServers DEF Alive
  <2>7. Owned'
    BY <1>0, <2>1, <2>4, <2>5, <2>6 DEF Owned
  <2> QED BY <1>0, <2>1, <2>3, <2>7 DEF MInv, Verified, Copying
<1>4. CASE M!ServeReady
  <2>1. /\ host = "serve" /\ host' = "up" /\ child' = started /\ started \in M!Procs
        /\ badge' = job.s /\ chat' = job.s /\ saved' = job.s
        /\ UNCHANGED <<job, server, started, crashed, file, listed, table, mounted,
                       last, todo>>
    BY <1>0, <1>4 DEF M!ServeReady, M!servers, M!files, M!drives, M!watcher, Owned
  <2>2. job.s \in Slug \cup {M!None}
    BY <1>0
  <2>3. MTyped'
    BY <1>0, <2>1, <2>2, MServerTypes
  <2>4. \A i \in M!Procs : Alive(i)' <=> Alive(i)
    BY <2>1 DEF Alive
  <2>5. crashed = 0 => \A i \in M!Procs : Alive(i) => i = started /\ server[i].s = job.s
    BY <1>0, <2>1, MServers DEF Owned
  <2>6. Owned'
    BY <1>0, <2>1, <2>4, <2>5 DEF Owned
  <2> QED BY <1>0, <2>1, <2>3, <2>6 DEF MInv, Verified, Copying
<1>5. CASE M!ServeFails
  <2>1. /\ host = "serve" /\ host' = "up" /\ server' = M!Killed(server, started)
        /\ started \in M!Procs
        /\ UNCHANGED <<job, child, badge, chat, saved, started, crashed, file, listed,
                       table, mounted, last, todo>>
    BY <1>0, <1>5 DEF M!ServeFails, M!files, M!drives, M!watcher, Owned
  <2>2. /\ server' \in Servers
        /\ \A j \in M!Procs : IF j = started THEN server'[j].st = "dead"
                              ELSE server'[j] = server[j]
    BY <1>0, <2>1, MKilled
  <2>3. \A j \in M!Procs : Alive(j)' => Alive(j) /\ j # started
    BY <2>2, MServers DEF Alive
  <2>4. MTyped'
    BY <1>0, <2>1, <2>2, MServerTypes
  <2>5. crashed = 0 => \A i \in M!Procs : Alive(i) => i = started
    BY <1>0, <2>1, MServers DEF Owned
  <2>6. Owned'
    BY <1>0, <2>1, <2>3, <2>5 DEF Owned
  <2> QED BY <1>0, <2>1, <2>4, <2>6 DEF MInv, Verified, Copying
<1>6. CASE M!Free
  <2>1. /\ host = "up" /\ host' = "off" /\ server' = M!Killed(server, child)
        /\ child' = M!None /\ todo' = {}
        /\ UNCHANGED <<job, badge, chat, saved, started, crashed, file, listed, table,
                       mounted, last>>
    BY <1>6 DEF M!Free, M!files, M!drives
  <2>2. /\ server' \in Servers
        /\ \A j \in M!Procs : IF j = child THEN server'[j].st = "dead"
                              ELSE server'[j] = server[j]
    BY <1>0, <2>1, MKilled
  <2>3. \A j \in M!Procs : Alive(j)' => Alive(j) /\ j # child
    BY <2>2, MServers DEF Alive
  <2>4. MTyped'
    BY <1>0, <2>1, <2>2, MServerTypes
  <2>5. crashed = 0 => \A i \in M!Procs : Alive(i) => i = child
    BY <1>0, <2>1 DEF Owned
  <2>6. Owned'
    BY <1>0, <2>1, <2>3, <2>5 DEF Owned
  <2> QED BY <1>0, <2>1, <2>4, <2>6 DEF MInv, Verified, Copying
<1>7. CASE M!Crash
  <2>1. /\ host' = "off" /\ child' = M!None /\ todo' = {} /\ crashed' = crashed + 1
        /\ UNCHANGED <<job, badge, chat, saved, server, started, file, listed, table,
                       mounted, last>>
    BY <1>7 DEF M!Crash, M!servers, M!files, M!drives
  <2>2. MTyped' /\ crashed' # 0
    BY <1>0, <2>1, MServerTypes
  <2> QED BY <1>0, <2>1, <2>2 DEF MInv, Verified, Owned, Copying, Alive
<1>8. ASSUME NEW s \in Slug, M!Serve(s) PROVE MInv'
  <2>1. /\ host = "up" /\ host' = "serve" /\ started < MaxProcs
        /\ table' = M!Locate(s) /\ job' = M!Job(s, Home, M!None) /\ child' = M!None
        /\ server' = M!Spawned(M!Killed(server, child), s) /\ started' = started + 1
        /\ UNCHANGED <<badge, chat, saved, crashed, file, listed, mounted, last, todo>>
    BY <1>8 DEF M!Serve, M!drives, M!watcher
  <2>2. job' \in Jobs /\ job'.s = s
    BY <1>0, <2>1 DEF M!Job
  <2>3. /\ M!Killed(server, child) \in Servers
        /\ \A j \in M!Procs : IF j = child THEN M!Killed(server, child)[j].st = "dead"
                              ELSE M!Killed(server, child)[j] = server[j]
    BY <1>0, MKilled
  <2>4. /\ server' \in Servers /\ server'[started + 1].s = s
        /\ \A i \in M!Procs : i # started + 1 => server'[i] = M!Killed(server, child)[i]
    BY <1>0, <2>1, <2>3, MSpawned
  <2>5. started' \in M!Procs
    BY <1>0, <2>1, MServers
  <2>6. /\ table' \in [Slug -> M!Place \cup {M!None, Unknown}]
        /\ \A r \in Slug : table'[r] \in M!Place => file[table'[r]][r] # "bad"
    <3>1. Proper(table')
      BY <1>0, <2>1, ScannedProper DEF M!Locate, Proper
    <3> QED BY <3>1, ProperRows
  <2>7. MTyped'
    BY <1>0, <2>1, <2>2, <2>4, <2>5, <2>6, MServerTypes, MServers
  <2>8. \A j \in M!Procs : Alive(j)' => j = started' \/ (Alive(j) /\ j # child)
    BY <2>1, <2>3, <2>4, MServers DEF Alive
  <2>9. crashed = 0 => \A i \in M!Procs : Alive(i) => i = child
    BY <1>0, <2>1 DEF Owned
  <2>10. Owned'
    <3>1. \A i \in M!Procs : i > started' => ~Alive(i)'
      BY <1>0, <2>1, <2>8, MServers DEF Owned
    <3> QED BY <1>0, <2>1, <2>2, <2>4, <2>5, <2>8, <2>9, <3>1 DEF Owned
  <2> QED BY <1>0, <2>1, <2>6, <2>7, <2>10 DEF MInv, Verified, Copying
<1> QED BY <1>1, <1>2, <1>3, <1>4, <1>5, <1>6, <1>7, <1>8

LEMMA MStepInv == ASSUME MInv, MAssumption, [M!Next]_(M!vars) PROVE MInv'
<1>1. CASE UNCHANGED M!vars
  <2>1. UNCHANGED <<host, job, child, badge, chat, saved, server, started, crashed, file,
                    listed, table, mounted, moves, last, todo>>
    BY <1>1 DEF M!vars, M!hostvars, M!servers, M!files, M!drives, M!watcher
  <2> QED BY <2>1 DEF MInv, MTyped, M!TypeOK, Verified, Owned, Alive
<1>2. CASE M!Next
  BY <1>2, MFileSteps, MServerSteps DEF M!Next, M!HostStep, M!Watch
<1> QED BY <1>1, <1>2

\* Local models (pai-models, the part of pai-ffi that serves them), for any
\* models, drives and servers: what a model's row leads to verifies; until the
\* host dies every server that lives is its own, and the one that answers is the
\* model that chat asks for.
THEOREM ModelsStaySound ==
  ASSUME Home \notin Drive, {M!None, Unknown} \cap M!Place = {}, MaxProcs \in Nat,
         \A S \in SUBSET Drive : S # {} => \E d \in S : \A e \in S : e <= d
  PROVE  M!Spec => []ModelsAreSound
<1>1. MAssumption
  BY DEF MAssumption
<1>2. ASSUME MInv PROVE ModelsAreSound
  <2>1. M!TypeOK
    BY <1>2 DEF MInv, MTyped
  <2>2. M!InstalledVerifies
    BY <1>2 DEF MInv, MTyped, Verified, M!InstalledVerifies, M!Recorded, M!Exists
  <2>3. M!NoStray /\ M!RightModelAnswers
    BY <1>2, MServers DEF MInv, Owned, Alive, M!NoStray, M!RightModelAnswers, M!LiveProcs,
       M!Answers
  <2> QED BY <2>1, <2>2, <2>3 DEF ModelsAreSound, M!ModelsAreSound
<1>3. M!Init => MInv
  BY <1>1, MInitInv
<1>4. MInv /\ [M!Next]_(M!vars) => MInv'
  BY <1>1, MStepInv
<1> QED BY <1>2, <1>3, <1>4, PTL DEF M!Spec
=============================================================================
