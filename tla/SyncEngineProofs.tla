-------------------------- MODULE SyncEngineProofs --------------------------
(* What SyncEngine guarantees for every set of devices, processes and keys,   *)
(* every clock and every interleaving.                                        *)
EXTENDS SyncEngine, Integers, TLAPS

(***************************************************************************)
(* The strengthening.  Nothing that carries a timestamp is newer than the  *)
(* last edit of its key: not a row, not the object on the transport, not   *)
(* an object a process holds in memory.  With it, the strict guards make   *)
(* the author's copy of the last edit immovable.                           *)
(***************************************************************************)
NoneNewer ==
    /\ \A k \in Key : latest[k].t <= now
    /\ \A d \in Device, k \in Key : row[d][k].t <= latest[k].t
    /\ \A k \in Key : folder[k].key = k /\ folder[k].t <= latest[k].t
    /\ \A p \in Proc : \A o \in proc[p].batch \cup proc[p].cur :
          o.t <= latest[o.key].t

\* Only a memory object reaches the unguarded statement of apply_memory.
UpsertIsMemory ==
    \A p \in Proc : proc[p].at = "upsert" => \A o \in proc[p].cur : o.key \in Memory

IInv == TypeOK /\ NoneNewer /\ UpsertIsMemory /\ LastEditKept

LEMMA ObjectFact ==
    ASSUME NEW k \in Key, NEW r \in RowType, NEW d \in Device \cup {NoDevice}
    PROVE  /\ Object(k, r, d) \in ObjectType
           /\ Object(k, r, d).key = k
           /\ Object(k, r, d).t = r.t
  BY DEF Object, ObjectType, RowType

LEMMA MergeFact ==
    ASSUME NEW r \in RowType, NEW o \in ObjectType
    PROVE  /\ Merge(r, o) \in RowType
           /\ Merge(r, o).t >= r.t
           /\ Merge(r, o).t <= r.t \/ Merge(r, o).t = o.t
           /\ o.t <= r.t => Merge(r, o) = r
  BY DEF Merge, MergeLive, MergeTombstone, RowOf, RowType, ObjectType

LEMMA NoRowFact == NoRow \in RowType /\ NoRow.t = 0
  BY DEF NoRow, RowType

LEMMA InitInv == Init => IInv
<1> SUFFICES ASSUME Init PROVE IInv
  OBVIOUS
<1>1. \A k \in Key : NoObject(k) \in ObjectType /\ NoObject(k).key = k /\ NoObject(k).t = 0
  BY ObjectFact, NoRowFact DEF NoObject
<1>2. Idle \in ProcType /\ Idle.at = "idle" /\ Idle.batch = {} /\ Idle.cur = {}
  BY DEF Idle, Process, ProcType, Stage
<1>3. TypeOK
  BY <1>1, <1>2, NoRowFact, SyncAssumption DEF Init, TypeOK
<1>4. NoneNewer
  BY <1>1, <1>2, NoRowFact DEF Init, NoneNewer
<1>5. UpsertIsMemory /\ LastEditKept
  BY <1>2 DEF Init, UpsertIsMemory, LastEditKept
<1> QED
  BY <1>3, <1>4, <1>5 DEF IInv

LEMMA WriteInv ==
    ASSUME IInv, NEW d \in Device, NEW k \in Key, NEW del \in BOOLEAN, Write(d, k, del)
    PROVE  IInv' /\ \A e \in Device, j \in Key : row'[e][j].t >= row[e][j].t
<1> USE SyncAssumption DEF IInv
<1>1. PICK a \in Advance :
         /\ now' = now + a
         /\ row' = [row EXCEPT ![d][k] =
                [t |-> now + a, rev |-> edits + 1, by |-> d, del |-> del]]
         /\ latest' = [latest EXCEPT ![k] =
                [t |-> now + a, rev |-> edits + 1, by |-> d, del |-> del]]
  BY DEF Write
<1> DEFINE r == [t |-> now + a, rev |-> edits + 1, by |-> d, del |-> del]
<1>2. /\ edits < MaxEdits /\ edits' = edits + 1 /\ handoff' = handoff
      /\ mirror' = mirror /\ folder' = folder /\ proc' = proc /\ aborts' = aborts
  BY DEF Write
<1>3. r \in RowType /\ r.t = now + a /\ r.by = d /\ a \in Nat
  BY DEF TypeOK, RowType
<1>4. row' = [row EXCEPT ![d][k] = r] /\ latest' = [latest EXCEPT ![k] = r]
  BY <1>1
<1> HIDE DEF r
<1>5. TypeOK'
  BY <1>1, <1>2, <1>3, <1>4 DEF TypeOK
<1>6. \A j \in Key : latest'[j].t <= now' /\ latest[j].t <= latest'[j].t
  BY <1>1, <1>3, <1>4 DEF TypeOK, NoneNewer, RowType
<1>7. \A e \in Device, j \in Key :
         row'[e][j].t <= latest'[j].t /\ row'[e][j].t >= row[e][j].t
  <2> SUFFICES ASSUME NEW e \in Device, NEW j \in Key
               PROVE  row'[e][j].t <= latest'[j].t /\ row'[e][j].t >= row[e][j].t
    OBVIOUS
  <2>1. row[e][j].t \in Nat /\ latest[j].t \in Nat /\ now \in Nat
    BY DEF TypeOK, RowType
  <2>2. CASE e = d /\ j = k
    BY <1>3, <1>4, <2>1, <2>2 DEF TypeOK, NoneNewer
  <2>3. CASE ~(e = d /\ j = k)
    <3>1. row'[e][j] = row[e][j]
      BY <1>4, <2>3 DEF TypeOK
    <3>2. row[e][j].t <= latest[j].t /\ latest[j].t <= latest'[j].t /\ latest'[j].t \in Nat
      BY <1>5, <1>6 DEF TypeOK, NoneNewer, RowType
    <3> QED
      BY <2>1, <3>1, <3>2
  <2> QED
    BY <2>2, <2>3
<1>8. NoneNewer'
  <2>1. \A j \in Key : folder'[j].key = j /\ folder'[j].t <= latest'[j].t
    BY <1>2, <1>5, <1>6 DEF TypeOK, NoneNewer, RowType, ObjectType
  <2>2. \A p \in Proc : \A o \in proc'[p].batch \cup proc'[p].cur :
           o.t <= latest'[o.key].t
    BY <1>2, <1>5, <1>6 DEF TypeOK, NoneNewer, RowType, ObjectType, ProcType
  <2> QED
    BY <1>6, <1>7, <2>1, <2>2 DEF NoneNewer
<1>9. UpsertIsMemory'
  BY <1>2 DEF UpsertIsMemory
<1>10. LastEditKept'
  <2> SUFFICES ASSUME NEW j \in Key \ Memory, latest'[j] # NoRow
               PROVE  row'[latest'[j].by][j] = latest'[j]
    BY DEF LastEditKept
  <2>1. CASE j = k
    BY <1>3, <1>4, <2>1 DEF TypeOK
  <2>2. CASE j # k
    BY <1>4, <2>2 DEF TypeOK, LastEditKept
  <2> QED
    BY <2>1, <2>2
<1> QED
  BY <1>5, <1>7, <1>8, <1>9, <1>10

\* A step of a process that keeps the tables in order keeps the invariant if
\* what the process holds afterwards is in order too.
LEMMA ProcStepInv ==
    ASSUME IInv, NEW p \in Proc,
           NEW at \in Stage, NEW keys \in SUBSET Key,
           NEW batch \in SUBSET ObjectType, NEW cur \in SUBSET ObjectType,
           Becomes(p, at, keys, batch, cur),
           handoff' = handoff, now' = now, edits' = edits, latest' = latest,
           row' \in [Device -> [Key -> RowType]],
           \A d \in Device, k \in Key : row'[d][k].t <= latest[k].t,
           LastEditKept',
           mirror' \in [Device -> [Key -> Nat]],
           folder' \in [Key -> ObjectType],
           \A k \in Key : folder'[k].key = k /\ folder'[k].t <= latest[k].t,
           aborts' \in 0 .. MaxAborts,
           \A o \in batch \cup cur : o.t <= latest[o.key].t,
           at = "upsert" => \A o \in cur : o.key \in Memory
    PROVE  IInv'
<1> DEFINE q == Process(at, keys, batch, cur)
<1>0. q \in ProcType /\ q.batch = batch /\ q.cur = cur /\ q.at = at
  BY DEF Process, ProcType
<1>1. proc' = [proc EXCEPT ![p] = q]
  BY DEF Becomes
<1> HIDE DEF q
<1>2. TypeOK'
  BY <1>0, <1>1 DEF IInv, TypeOK
<1>3. \A r \in Proc : r # p => proc'[r] = proc[r]
  BY <1>1 DEF IInv, TypeOK
<1>4. proc'[p] = q
  BY <1>1 DEF IInv, TypeOK
<1>5. NoneNewer'
  BY <1>0, <1>3, <1>4 DEF IInv, NoneNewer
<1>6. UpsertIsMemory'
  BY <1>0, <1>3, <1>4 DEF IInv, UpsertIsMemory
<1> QED
  BY <1>2, <1>5, <1>6 DEF IInv

\* The facts about a process and the tables that every step starts from.
LEMMA ProcFact ==
    ASSUME IInv, NEW p \in Proc
    PROVE  /\ Dev[p] \in Device
           /\ proc[p].keys \in SUBSET Key
           /\ proc[p].batch \in SUBSET ObjectType
           /\ proc[p].cur \in SUBSET ObjectType
           /\ \A o \in proc[p].batch \cup proc[p].cur :
                 o \in ObjectType /\ o.key \in Key /\ o.t \in Nat /\ o.t <= latest[o.key].t
  BY SyncAssumption DEF IInv, TypeOK, NoneNewer, ProcType, ObjectType

LEMMA TableFact ==
    ASSUME IInv
    PROVE  /\ row \in [Device -> [Key -> RowType]]
           /\ mirror \in [Device -> [Key -> Nat]]
           /\ folder \in [Key -> ObjectType]
           /\ latest \in [Key -> RowType]
           /\ aborts \in 0 .. MaxAborts
           /\ \A d \in Device, k \in Key : row[d][k].t <= latest[k].t
           /\ \A k \in Key : folder[k].key = k /\ folder[k].t <= latest[k].t
  BY DEF IInv, TypeOK, NoneNewer

LEMMA StageFact ==
    {"idle", "push", "send", "sent", "fetch", "apply", "upsert", "applied"} \subseteq Stage
  BY DEF Stage

LEMMA IdleFact == \A p : Becomes(p, "idle", {}, {}, {}) <=> proc' = [proc EXCEPT ![p] = Idle]
  BY DEF Becomes, Idle

LEMMA PushInv ==
    ASSUME IInv, NEW p \in Proc, Push(p)
    PROVE  IInv' /\ row' = row
<1> DEFINE d == Dev[p]
<1> USE TableFact, ProcFact, StageFact
<1>0. /\ handoff' = handoff /\ row' = row /\ now' = now /\ edits' = edits
      /\ latest' = latest /\ aborts' = aborts /\ LastEditKept'
  BY DEF IInv, Push, PushStart, PushCheck, PushSend, PushMirror, PushDone,
         UnchangedByProc, LastEditKept
<1>1. CASE PushStart(p)
  <2> DEFINE B == {Object(k, row[d][k], d) : k \in {j \in Key : row[d][j] # NoRow}}
  <2>1. B \in SUBSET ObjectType /\ \A o \in B : o.t <= latest[o.key].t
    BY ObjectFact
  <2>2. Becomes(p, "push", {}, B, {}) /\ mirror' = mirror /\ folder' = folder
    BY <1>1 DEF PushStart
  <2> HIDE DEF B
  <2> QED
    BY <1>0, <2>1, <2>2, ProcStepInv
<1>2. CASE PushCheck(p)
  <2>1. PICK o \in proc[p].batch :
           \/ Becomes(p, "push", {}, proc[p].batch \ {o}, {})
           \/ Becomes(p, "send", {}, proc[p].batch \ {o}, {o})
    BY <1>2 DEF PushCheck
  <2>2. mirror' = mirror /\ folder' = folder
    BY <1>2 DEF PushCheck
  <2>3. CASE Becomes(p, "push", {}, proc[p].batch \ {o}, {})
    BY <1>0, <2>2, <2>3, ProcStepInv
  <2>4. CASE Becomes(p, "send", {}, proc[p].batch \ {o}, {o})
    BY <1>0, <2>2, <2>4, ProcStepInv
  <2> QED
    BY <2>1, <2>3, <2>4, <1>0
<1>3. CASE PushSend(p)
  <2>1. PICK o \in proc[p].cur : folder' = [folder EXCEPT ![o.key] = o]
    BY <1>3 DEF PushSend
  <2>2. Becomes(p, "sent", {}, proc[p].batch, proc[p].cur) /\ mirror' = mirror
    BY <1>3 DEF PushSend
  <2>3. /\ folder' \in [Key -> ObjectType]
        /\ \A k \in Key : folder'[k].key = k /\ folder'[k].t <= latest[k].t
    BY <2>1
  <2> QED
    BY <1>0, <2>2, <2>3, ProcStepInv, SMTT(60), ZenonT(60)
<1>4. CASE PushMirror(p)
  <2>1. PICK o \in proc[p].cur : mirror' = [mirror EXCEPT ![Dev[p]][o.key] = o.t]
    BY <1>4 DEF PushMirror
  <2>2. Becomes(p, "push", {}, proc[p].batch, {}) /\ folder' = folder
    BY <1>4 DEF PushMirror
  <2>3. mirror' \in [Device -> [Key -> Nat]]
    BY <2>1
  <2> QED
    BY <1>0, <2>2, <2>3, ProcStepInv
<1>5. CASE PushDone(p)
  <2>1. Becomes(p, "idle", {}, {}, {}) /\ mirror' = mirror /\ folder' = folder
    BY <1>5, IdleFact DEF PushDone
  <2> QED
    BY <1>0, <2>1, ProcStepInv
<1> QED
  BY <1>0, <1>1, <1>2, <1>3, <1>4, <1>5 DEF Push

\* Applying an object that is not newer than the last edit of its key, to the
\* row of any device, leaves the author's copy of the last edit alone.
LEMMA ApplyFact ==
    ASSUME IInv, NEW d \in Device, NEW o \in ObjectType, NEW new \in RowType,
           o.t <= latest[o.key].t,
           new.t <= latest[o.key].t,
           \/ o.key \in Memory
           \/ new = Merge(row[d][o.key], o),
           row' = [row EXCEPT ![d][o.key] = new], latest' = latest
    PROVE  /\ row' \in [Device -> [Key -> RowType]]
           /\ \A e \in Device, k \in Key : row'[e][k].t <= latest[k].t
           /\ LastEditKept'
           /\ \A e \in Device, k \in Key \ Memory : row'[e][k].t >= row[e][k].t
<1> USE TableFact
<1>0. o.key \in Key /\ o.t \in Nat
  BY DEF ObjectType
<1>1. row' \in [Device -> [Key -> RowType]]
  BY <1>0
<1>2. \A e \in Device, k \in Key :
         IF e = d /\ k = o.key THEN row'[e][k] = new ELSE row'[e][k] = row[e][k]
  BY <1>0
<1>3. \A e \in Device, k \in Key : row'[e][k].t <= latest[k].t
  BY <1>2
<1>4. LastEditKept'
  <2> SUFFICES ASSUME NEW k \in Key \ Memory, latest[k] # NoRow
               PROVE  row'[latest[k].by][k] = latest[k]
    BY DEF LastEditKept
  <2>1. row[latest[k].by][k] = latest[k]
    BY DEF IInv, LastEditKept
  <2>2. CASE latest[k].by = d /\ k = o.key
    <3>1. row[d][k] \in RowType /\ o.t <= row[d][k].t /\ new = Merge(row[d][k], o)
      BY <2>1, <2>2
    <3>2. new = row[d][k]
      BY <3>1, MergeFact
    <3> QED
      BY <1>2, <2>1, <2>2, <3>2
  <2>3. CASE ~(latest[k].by = d /\ k = o.key)
    BY <1>0, <2>1, <2>3
  <2> QED
    BY <2>2, <2>3
<1>5. \A e \in Device, k \in Key \ Memory : row'[e][k].t >= row[e][k].t
  <2> SUFFICES ASSUME NEW e \in Device, NEW k \in Key \ Memory
               PROVE  row'[e][k].t >= row[e][k].t
    OBVIOUS
  <2>1. row[e][k] \in RowType /\ row[e][k].t \in Nat
    BY DEF RowType
  <2>2. CASE e = d /\ k = o.key
    BY <1>2, <2>1, <2>2, MergeFact
  <2>3. CASE ~(e = d /\ k = o.key)
    BY <1>2, <2>1, <2>3
  <2> QED
    BY <2>2, <2>3
<1> QED
  BY <1>1, <1>3, <1>4, <1>5

LEMMA PullInv ==
    ASSUME IInv, NEW p \in Proc, Pull(p)
    PROVE  /\ IInv'
           /\ \A e \in Device, k \in Key \ Memory : row'[e][k].t >= row[e][k].t
<1> DEFINE d == Dev[p]
           Advances == \A e \in Device, k \in Key \ Memory : row'[e][k].t >= row[e][k].t
<1> USE TableFact, ProcFact, StageFact
<1>0. /\ handoff' = handoff /\ now' = now /\ edits' = edits
      /\ latest' = latest /\ aborts' = aborts
  BY DEF Pull, PullList, PullFetch, PullSort, ApplyGuarded, ApplyMemoryCheck,
         ApplyMemoryUpsert, PullMirror, PullDone, UnchangedByProc
<1>a. ASSUME row' = row PROVE LastEditKept' /\ Advances
  BY <1>0, <1>a DEF IInv, LastEditKept, RowType
<1>1. CASE PullList(p)
  <2> DEFINE K == {k \in Key : /\ folder[k] # NoObject(k)
                               /\ folder[k].writer # d
                               /\ folder[k].t > mirror[d][k]}
  <2>1. Becomes(p, "fetch", K, {}, {}) /\ row' = row /\ mirror' = mirror /\ folder' = folder
    BY <1>1 DEF PullList
  <2>2. K \in SUBSET Key
    OBVIOUS
  <2> HIDE DEF K
  <2> QED
    BY <1>0, <1>a, <2>1, <2>2, ProcStepInv
<1>2. CASE PullFetch(p)
  <2>1. row' = row /\ mirror' = mirror /\ folder' = folder
    BY <1>2 DEF PullFetch
  <2>2. PICK k \in proc[p].keys :
           Becomes(p, "fetch", proc[p].keys \ {k}, proc[p].batch \cup {folder[k]}, {})
    BY <1>2 DEF PullFetch
  <2> DEFINE B == proc[p].batch \cup {folder[k]}
  <2>3. B \in SUBSET ObjectType /\ \A o \in B : o.t <= latest[o.key].t
    OBVIOUS
  <2>4. Becomes(p, "fetch", proc[p].keys \ {k}, B, {})
    BY <2>2
  <2> HIDE DEF B
  <2> QED
    BY <1>0, <1>a, <2>1, <2>3, <2>4, ProcStepInv
<1>3. CASE PullSort(p)
  <2>1. /\ Becomes(p, "apply", {}, proc[p].batch, {})
        /\ row' = row /\ mirror' = mirror /\ folder' = folder
    BY <1>3 DEF PullSort
  <2> QED
    BY <1>0, <1>a, <2>1, ProcStepInv
<1>4. CASE ApplyGuarded(p)
  <2>1. PICK o \in proc[p].batch :
           /\ row' = [row EXCEPT ![d][o.key] = Merge(row[d][o.key], o)]
           /\ Becomes(p, "applied", {}, proc[p].batch, {o})
    BY <1>4 DEF ApplyGuarded, NextToApply
  <2>2. mirror' = mirror /\ folder' = folder
    BY <1>4 DEF ApplyGuarded
  <2>3. o \in ObjectType /\ o.key \in Key /\ o.t \in Nat /\ o.t <= latest[o.key].t
    OBVIOUS
  <2> DEFINE new == Merge(row[d][o.key], o)
  <2>4. row[d][o.key] \in RowType /\ row[d][o.key].t \in Nat /\ latest[o.key].t \in Nat
    BY <2>3 DEF RowType
  <2>5. new \in RowType /\ new.t <= latest[o.key].t
    <3>1. /\ new \in RowType
          /\ new.t <= row[d][o.key].t \/ new.t = o.t
      BY <2>3, <2>4, MergeFact
    <3>2. new.t \in Nat /\ row[d][o.key].t <= latest[o.key].t
      BY <2>3, <3>1 DEF RowType
    <3> HIDE DEF new
    <3> QED
      BY <2>3, <2>4, <3>1, <3>2
  <2>6. row' = [row EXCEPT ![d][o.key] = new] /\ new = Merge(row[d][o.key], o)
    BY <2>1
  <2> HIDE DEF new
  <2>7. /\ row' \in [Device -> [Key -> RowType]]
        /\ \A e \in Device, k \in Key : row'[e][k].t <= latest[k].t
        /\ LastEditKept'
        /\ Advances
    BY <1>0, <2>3, <2>5, <2>6, ApplyFact
  <2>8. Becomes(p, "applied", {}, proc[p].batch, {o})
    BY <2>1
  <2>9. IInv'
    BY <1>0, <2>2, <2>3, <2>7, <2>8, ProcStepInv
  <2> QED
    BY <2>7, <2>9
<1>5. CASE ApplyMemoryCheck(p)
  <2>1. PICK o \in proc[p].batch :
           /\ o.key \in Memory
           /\ \/ Becomes(p, "applied", {}, proc[p].batch, {o})
              \/ Becomes(p, "upsert", {}, proc[p].batch, {o})
    BY <1>5 DEF ApplyMemoryCheck, NextToApply
  <2>2. row' = row /\ mirror' = mirror /\ folder' = folder
    BY <1>5 DEF ApplyMemoryCheck
  <2>3. CASE Becomes(p, "applied", {}, proc[p].batch, {o})
    BY <1>0, <1>a, <2>2, <2>3, ProcStepInv, SMTT(60), ZenonT(60)
  <2>4. CASE Becomes(p, "upsert", {}, proc[p].batch, {o})
    BY <1>0, <1>a, <2>1, <2>2, <2>4, ProcStepInv, SMTT(60), ZenonT(60)
  <2> QED
    BY <2>1, <2>3, <2>4
<1>6. CASE ApplyMemoryUpsert(p)
  <2>1. PICK o \in proc[p].cur : row' = [row EXCEPT ![d][o.key] = RowOf(o)]
    BY <1>6 DEF ApplyMemoryUpsert
  <2>2. /\ Becomes(p, "applied", {}, proc[p].batch, proc[p].cur)
        /\ mirror' = mirror /\ folder' = folder
    BY <1>6 DEF ApplyMemoryUpsert
  <2>3. o \in ObjectType /\ o.t <= latest[o.key].t
    OBVIOUS
  <2>4. RowOf(o) \in RowType /\ RowOf(o).t = o.t
    BY <2>3 DEF RowOf, ObjectType, RowType
  <2>5. o.key \in Memory
    BY <1>6 DEF ApplyMemoryUpsert, IInv, UpsertIsMemory
  <2>6. /\ row' \in [Device -> [Key -> RowType]]
        /\ \A e \in Device, k \in Key : row'[e][k].t <= latest[k].t
        /\ LastEditKept'
        /\ Advances
    BY <1>0, <2>1, <2>3, <2>4, <2>5, ApplyFact, ZenonT(60), SMTT(60)
  <2> QED
    BY <1>0, <2>2, <2>6, ProcStepInv, SMTT(60), ZenonT(60)
<1>7. CASE PullMirror(p)
  <2>1. PICK o \in proc[p].cur :
           /\ mirror' = [mirror EXCEPT ![d][o.key] = o.t]
           /\ Becomes(p, "apply", {}, proc[p].batch \ {o}, {})
    BY <1>7 DEF PullMirror
  <2>2. row' = row /\ folder' = folder
    BY <1>7 DEF PullMirror
  <2>3. mirror' \in [Device -> [Key -> Nat]]
    BY <2>1
  <2>4. Becomes(p, "apply", {}, proc[p].batch \ {o}, {})
    BY <2>1
  <2>5. IInv'
    BY <1>0, <1>a, <2>2, <2>3, <2>4, ProcStepInv, SMTT(60), ZenonT(60)
  <2> QED
    BY <1>a, <2>2, <2>5
<1>8. CASE PullDone(p)
  <2>1. /\ Becomes(p, "idle", {}, {}, {})
        /\ row' = row /\ mirror' = mirror /\ folder' = folder
    BY <1>8, IdleFact DEF PullDone
  <2> QED
    BY <1>0, <1>a, <2>1, ProcStepInv
<1> QED
  BY <1>1, <1>2, <1>3, <1>4, <1>5, <1>6, <1>7, <1>8 DEF Pull

LEMMA AbortInv ==
    ASSUME IInv, NEW p \in Proc, Abort(p)
    PROVE  IInv' /\ row' = row
<1>1. /\ Becomes(p, "idle", {}, {}, {})
      /\ handoff' = handoff /\ now' = now /\ edits' = edits /\ latest' = latest
      /\ row' = row /\ mirror' = mirror /\ folder' = folder
  BY IdleFact DEF Abort
<1>2. aborts' \in 0 .. MaxAborts
  BY TableFact, SyncAssumption DEF Abort
<1>3. LastEditKept'
  BY <1>1 DEF IInv, LastEditKept
<1> QED
  BY <1>1, <1>2, <1>3, TableFact, StageFact, ProcStepInv

\* One step of the system: the invariant is kept, and no guarded row goes back.
LEMMA NextInv ==
    ASSUME IInv, [Next]_vars
    PROVE  /\ IInv'
           /\ \A d \in Device, k \in Key \ Memory : row'[d][k].t >= row[d][k].t
<1> USE TableFact
<1>0. \A d \in Device, k \in Key : row[d][k].t >= row[d][k].t
  BY DEF RowType
<1>1. ASSUME NEW d \in Device, NEW k \in Key, Create(d, k) \/ Edit(d, k) \/ Delete(d, k)
      PROVE  IInv' /\ \A e \in Device, j \in Key : row'[e][j].t >= row[e][j].t
  <2>1. row[d][k].del \in BOOLEAN
    BY DEF RowType
  <2>2. Write(d, k, FALSE) \/ Write(d, k, row[d][k].del) \/ Write(d, k, TRUE)
    BY <1>1 DEF Create, Edit, Delete
  <2> QED
    BY <2>1, <2>2, WriteInv
<1>2. ASSUME NEW p \in Proc, Push(p) PROVE IInv' /\ row' = row
  BY <1>2, PushInv
<1>3. ASSUME NEW p \in Proc, Pull(p)
      PROVE  IInv' /\ \A e \in Device, k \in Key \ Memory : row'[e][k].t >= row[e][k].t
  BY <1>3, PullInv
<1>4. ASSUME NEW p \in Proc, Abort(p) PROVE IInv' /\ row' = row
  BY <1>4, AbortInv
<1>5. CASE UNCHANGED vars
  <2>1. IInv'
    BY <1>5 DEF IInv, TypeOK, NoneNewer, UpsertIsMemory, LastEditKept, vars
  <2> QED
    BY <1>0, <1>5, <2>1 DEF vars
<1> QED
  BY <1>0, <1>1, <1>2, <1>3, <1>4, <1>5 DEF Next

LEMMA Invariance == Spec => []IInv
<1>1. IInv /\ [Next]_vars => IInv'
  BY NextInv
<1> QED
  BY <1>1, InitInv, PTL DEF Spec

\* The tables, the transport and the processes' memory keep their types through
\* every interleaving of edits, pushes, pulls and crashes.
THEOREM TypeCorrect == Spec => []TypeOK
<1>1. IInv => TypeOK
  BY DEF IInv
<1> QED
  BY <1>1, Invariance, PTL

\* Last-writer-wins never costs the last writer its own edit: for every number of
\* devices and of sync processes per device, the guarded apply_* statements leave
\* the newest edit of a row in its author's database.
THEOREM LastEditIsKept == Spec => []LastEditKept
<1>1. IInv => LastEditKept
  BY DEF IInv
<1> QED
  BY <1>1, Invariance, PTL

\* No step of any process makes a guarded row older on any device, also when an
\* object is listed in one version and fetched in another.
THEOREM RowsNeverGoBack == Spec => RowsAdvance
<1>1. IInv /\ [Next]_vars =>
        [\A d \in Device, k \in Key \ Memory : row'[d][k].t >= row[d][k].t]_vars
  BY NextInv
<1> QED
  BY <1>1, Invariance, PTL DEF Spec, RowsAdvance


-----------------------------------------------------------------------------
(***************************************************************************)
(* Where edits are handed off, nothing is echoed.  An edit is published    *)
(* when the mirror of its device knows it, or is about to.  A device's     *)
(* unpublished edits are known to itself alone, so nobody else can have    *)
(* edited the row since: what it pushes is not older than what it finds,   *)
(* and the objects on the transport, and with them the mirrors, never go   *)
(* back.  A row that came from elsewhere is therefore covered by the       *)
(* mirror until its device edits it.                                       *)
(***************************************************************************)
Held(p) == proc[p].batch \cup proc[p].cur
PullStage == {"fetch", "apply", "upsert", "applied"}
PushStage == {"push", "send", "sent"}

Published(d, k, t) ==
    \/ t <= mirror[d][k]
    \/ \E p \in Proc : /\ Dev[p] = d /\ proc[p].at = "sent"
                       /\ \E o \in proc[p].cur : o.key = k /\ t <= o.t

\* An edit of d that is in another database, on the transport or pulled.
Abroad(d, k, t) ==
    \/ \E e \in Device \ {d} : row[e][k].by = d /\ row[e][k].t = t
    \/ folder[k].by = d /\ folder[k].t = t
    \/ \E p \in Proc : /\ Dev[p] # d \/ proc[p].at \in PullStage
                       /\ \E o \in Held(p) : o.key = k /\ o.by = d /\ o.t = t

\* An edit of d that is in its own database or being pushed.
AtHome(d, k, t) ==
    \/ row[d][k].by = d /\ row[d][k].t = t
    \/ \E p \in Proc : /\ Dev[p] = d /\ proc[p].at \in PushStage
                       /\ \E o \in Held(p) : o.key = k /\ o.by = d /\ o.t = t

\* An edit of e that is anywhere.
Copy(e, k, t) ==
    \/ \E d \in Device : row[d][k].by = e /\ row[d][k].t = t
    \/ folder[k].by = e /\ folder[k].t = t
    \/ \E p \in Proc : \E o \in Held(p) : o.key = k /\ o.by = e /\ o.t = t

AbroadIsPublished ==
    \A d \in Device, k \in Key, t \in Nat : Abroad(d, k, t) => Published(d, k, t)

UnpublishedIsLast ==
    \A d \in Device, k \in Key, t \in Nat : AtHome(d, k, t) /\ ~Published(d, k, t) =>
        /\ latest[k].by = d
        /\ \A e \in (Device \cup {NoDevice}) \ {d}, u \in Nat : Copy(e, k, u) => u <= t

Mirrored ==
    \A d \in Device, k \in Key :
        \/ row[d][k].by = d
        \/ row[d][k].t <= mirror[d][k]
        \/ \E p \in Proc : /\ Dev[p] = d /\ proc[p].at = "applied"
                           /\ \E o \in proc[p].cur : o.key = k /\ row[d][k].t <= o.t

OnePerKey(p) ==
    /\ \A o, q \in proc[p].batch : o.key = q.key => o = q
    /\ \A o, q \in proc[p].cur : o = q

Pulling(p) ==
    proc[p].at \in PullStage =>
        /\ OnePerKey(p)
        /\ \A k \in proc[p].keys : proc[p].at = "fetch" /\ mirror[Dev[p]][k] <= folder[k].t
        /\ \A o \in proc[p].batch : o.key \notin proc[p].keys /\ mirror[Dev[p]][o.key] <= o.t
        /\ proc[p].cur \subseteq proc[p].batch
        /\ proc[p].at \in {"fetch", "apply"} => proc[p].cur = {}

Pushing(p) ==
    /\ proc[p].at \in PushStage =>
          /\ OnePerKey(p)
          /\ \A o \in proc[p].batch : o.by = Dev[p] \/ o.t <= mirror[Dev[p]][o.key]
          /\ \A o \in Held(p) : o.writer = Dev[p]
    /\ proc[p].at = "push" => proc[p].cur = {}
    /\ proc[p].at \in {"send", "sent"} =>
          \A o \in proc[p].cur : /\ o.by = Dev[p] /\ mirror[Dev[p]][o.key] < o.t
                                 /\ \A q \in proc[p].batch : q.key # o.key
    /\ proc[p].at = "idle" => Held(p) = {}

EchoInv ==
    /\ AbroadIsPublished /\ UnpublishedIsLast /\ Mirrored
    /\ \A p \in Proc : Pulling(p) /\ Pushing(p)
    /\ \A k \in Key : folder[k].writer = folder[k].by

\* Versions are in the order of the times.
LEMMA VersionsInOrder ==
    ASSUME NEW s \in Nat, NEW t \in Nat, s <= t
    PROVE  VersionOf(s) <= VersionOf(t)
<1> DEFINE x == s \div Grain
           y == t \div Grain
<1>0. Grain \in Nat \ {0}
  BY SyncAssumption
<1>1. x \in Nat /\ y \in Nat
  BY <1>0
<1>2. Grain * x <= s /\ t < Grain * (y + 1)
  <2>1. s = Grain * x + (s % Grain) /\ s % Grain \in Nat
    BY <1>0
  <2>2. t = Grain * y + (t % Grain) /\ t % Grain \in 0 .. Grain - 1
    BY <1>0
  <2>3. Grain * (y + 1) = Grain * y + Grain
    BY <1>0, <1>1
  <2>4. Grain * x \in Nat /\ Grain * y \in Nat
    BY <1>0, <1>1
  <2> HIDE DEF x, y
  <2> QED BY <1>0, <2>1, <2>2, <2>3, <2>4
<1> HIDE DEF x, y
<1>3. x <= y
  <2> SUFFICES ASSUME y + 1 <= x PROVE FALSE
    BY <1>1
  <2>1. Grain * (y + 1) <= Grain * x
    <3>1. PICK c \in Nat : x = y + 1 + c
      BY <1>1
    <3>2. Grain * x = Grain * (y + 1) + Grain * c /\ Grain * c \in Nat
      BY <1>0, <1>1, <3>1
    <3>3. Grain * (y + 1) \in Nat
      BY <1>0, <1>1
    <3> QED BY <3>2, <3>3
  <2>2. Grain * (y + 1) \in Nat /\ Grain * x \in Nat
    BY <1>0, <1>1
  <2> QED BY <1>2, <2>1, <2>2
<1>4. s # 0 => t # 0
  OBVIOUS
<1>5. VersionOf(s) = IF s = 0 THEN 0 ELSE IF x = 0 THEN 1 ELSE x
  BY DEF VersionOf, x
<1>6. VersionOf(t) = IF t = 0 THEN 0 ELSE IF y = 0 THEN 1 ELSE y
  BY DEF VersionOf, y
<1> QED BY <1>1, <1>3, <1>4, <1>5, <1>6

LEMMA BecomesFact ==
    ASSUME TypeOK, NEW p \in Proc, NEW at, NEW keys, NEW batch, NEW cur,
           Becomes(p, at, keys, batch, cur)
    PROVE  /\ proc'[p].at = at /\ proc'[p].keys = keys
           /\ proc'[p].batch = batch /\ proc'[p].cur = cur
           /\ \A q \in Proc \ {p} : proc'[q] = proc[q]
<1>1. proc'[p] = Process(at, keys, batch, cur) /\ \A q \in Proc \ {p} : proc'[q] = proc[q]
  BY DEF Becomes, TypeOK
<1> QED BY <1>1 DEF Process

\* Without a new edit, what is published and where the copies are decide.
LEMMA SameEdits ==
    ASSUME EchoInv, latest' = latest,
           \A d \in Device, k \in Key, t \in Nat :
              /\ Published(d, k, t) => Published(d, k, t)'
              /\ Abroad(d, k, t)' => Abroad(d, k, t) \/ Published(d, k, t)'
              /\ AtHome(d, k, t)' => AtHome(d, k, t) \/ Published(d, k, t)',
           \A e \in Device \cup {NoDevice}, k \in Key, t \in Nat : Copy(e, k, t)' => Copy(e, k, t)
    PROVE  AbroadIsPublished' /\ UnpublishedIsLast'
<1>1. AbroadIsPublished'
  BY DEF EchoInv, AbroadIsPublished
<1>2. UnpublishedIsLast'
  <2> SUFFICES ASSUME NEW d \in Device, NEW k \in Key, NEW t \in Nat,
                      AtHome(d, k, t)', ~Published(d, k, t)'
               PROVE  /\ latest'[k].by = d
                      /\ \A e \in (Device \cup {NoDevice}) \ {d}, u \in Nat :
                            Copy(e, k, u)' => u <= t
    BY DEF UnpublishedIsLast
  <2>1. AtHome(d, k, t) /\ ~Published(d, k, t)
    OBVIOUS
  <2> QED BY <2>1 DEF EchoInv, UnpublishedIsLast
<1> QED BY <1>1, <1>2

\* What another process holds, and how it is placed, does not change while the
\* tables stand still.
LEMMA Bystander ==
    ASSUME NEW q \in Proc, proc'[q] = proc[q], Pulling(q), Pushing(q),
           Dev[q] \in Device, proc[q].keys \subseteq Key,
           \A o \in Held(q) : o.key \in Key,
           proc[q].at # "idle" =>
              \A k \in Key : mirror'[Dev[q]][k] = mirror[Dev[q]][k],
           \A k \in Key : /\ folder'[k].t \in Nat /\ folder[k].t \in Nat
                          /\ mirror[Dev[q]][k] \in Nat
                          /\ folder[k].t <= folder'[k].t
    PROVE  Pulling(q)' /\ Pushing(q)'
<1>1. Held(q)' = Held(q) /\ (OnePerKey(q) => OnePerKey(q)')
  BY DEF Held, OnePerKey
<1>2. proc[q].at \in PullStage \cup PushStage => proc[q].at # "idle"
  BY DEF PullStage, PushStage
<1>3. Pulling(q)'
  <2> SUFFICES ASSUME proc[q].at \in PullStage PROVE Pulling(q)'
    BY DEF Pulling
  <2>1. OnePerKey(q)'
    BY <1>1 DEF Pulling
  <2>2. \A k \in proc[q].keys : proc[q].at = "fetch" /\ mirror'[Dev[q]][k] <= folder'[k].t
    <3> SUFFICES ASSUME NEW k \in proc[q].keys
                 PROVE  proc[q].at = "fetch" /\ mirror'[Dev[q]][k] <= folder'[k].t
      OBVIOUS
    <3>1. k \in Key /\ proc[q].at = "fetch" /\ mirror[Dev[q]][k] <= folder[k].t
      BY DEF Pulling
    <3>2. mirror'[Dev[q]][k] = mirror[Dev[q]][k]
      BY <1>2, <3>1
    <3> QED BY <3>1, <3>2
  <2>3. \A o \in proc[q].batch : o.key \notin proc[q].keys /\ mirror'[Dev[q]][o.key] <= o.t
    BY <1>2 DEF Pulling, Held
  <2> QED BY <2>1, <2>2, <2>3 DEF Pulling
<1>4. Pushing(q)'
  <2>1. proc[q].at # "idle" => \A o \in Held(q) : mirror'[Dev[q]][o.key] = mirror[Dev[q]][o.key]
    OBVIOUS
  <2>2. CASE proc[q].at \in PushStage
    <3>1. /\ OnePerKey(q)'
          /\ \A o \in proc[q].batch : o.by = Dev[q] \/ o.t <= mirror'[Dev[q]][o.key]
          /\ \A o \in Held(q) : o.writer = Dev[q]
      BY <1>1, <1>2, <2>1, <2>2 DEF Pushing, Held
    <3>2. proc[q].at \in {"send", "sent"} =>
             \A o \in proc[q].cur : /\ o.by = Dev[q] /\ mirror'[Dev[q]][o.key] < o.t
                                    /\ \A r \in proc[q].batch : r.key # o.key
      BY <2>1 DEF Pushing, Held
    <3> QED BY <1>1, <2>2, <3>1, <3>2 DEF Pushing, PushStage
  <2>3. CASE proc[q].at \notin PushStage
    BY <1>1, <2>3 DEF Pushing, PushStage
  <2> QED BY <2>2, <2>3
<1> QED BY <1>3, <1>4

\* A step of p that changes no table.
LEMMA QuietStep ==
    ASSUME IInv, EchoInv, NEW p \in Proc, NEW at, NEW keys, NEW batch, NEW cur,
           Becomes(p, at, keys, batch, cur),
           latest' = latest, row' = row, mirror' = mirror, folder' = folder,
           proc[p].at \notin {"sent", "applied"},
           at \in PullStage => \A o \in batch \cup cur :
              \/ proc[p].at \in PullStage /\ o \in Held(p)
              \/ o.key \in Key /\ o = folder[o.key],
           at \in PushStage => \A o \in batch \cup cur :
              \/ proc[p].at \in PushStage /\ o \in Held(p)
              \/ /\ o.key \in Key
                 /\ o.by = row[Dev[p]][o.key].by /\ o.t = row[Dev[p]][o.key].t,
           at \notin PullStage \cup PushStage => at = "idle" /\ batch \cup cur = {},
           Pulling(p)', Pushing(p)'
    PROVE  EchoInv'
<1> USE TableFact, ProcFact
<1>1. /\ proc'[p].at = at /\ Held(p)' = batch \cup cur
      /\ \A q \in Proc \ {p} : proc'[q] = proc[q] /\ Held(q)' = Held(q)
  BY BecomesFact DEF IInv, Held
<1>2. \A d \in Device, k \in Key, t \in Nat : Published(d, k, t) => Published(d, k, t)'
  <2> SUFFICES ASSUME NEW d \in Device, NEW k \in Key, NEW t \in Nat, Published(d, k, t)
               PROVE  Published(d, k, t)'
    OBVIOUS
  <2>1. CASE t <= mirror[d][k]
    BY <2>1 DEF Published
  <2>2. CASE \E q \in Proc : /\ Dev[q] = d /\ proc[q].at = "sent"
                             /\ \E o \in proc[q].cur : o.key = k /\ t <= o.t
    <3>1. PICK q \in Proc : /\ Dev[q] = d /\ proc[q].at = "sent"
                            /\ \E o \in proc[q].cur : o.key = k /\ t <= o.t
      BY <2>2
    <3>2. proc'[q] = proc[q]
      BY <1>1, <3>1
    <3> QED BY <3>1, <3>2 DEF Published
  <2> QED BY <2>1, <2>2 DEF Published
<1>3. \A d \in Device, k \in Key, t \in Nat : Abroad(d, k, t)' => Abroad(d, k, t)
  <2> SUFFICES ASSUME NEW d \in Device, NEW k \in Key, NEW t \in Nat, Abroad(d, k, t)'
               PROVE  Abroad(d, k, t)
    OBVIOUS
  <2>1. CASE \/ \E e \in Device \ {d} : row[e][k].by = d /\ row[e][k].t = t
             \/ folder[k].by = d /\ folder[k].t = t
    BY <2>1 DEF Abroad
  <2>2. CASE \E q \in Proc : /\ Dev[q] # d \/ proc'[q].at \in PullStage
                             /\ \E o \in Held(q)' : o.key = k /\ o.by = d /\ o.t = t
    <3>1. PICK q \in Proc : /\ Dev[q] # d \/ proc'[q].at \in PullStage
                            /\ \E o \in Held(q)' : o.key = k /\ o.by = d /\ o.t = t
      BY <2>2
    <3>2. PICK o \in Held(q)' : o.key = k /\ o.by = d /\ o.t = t
      BY <3>1
    <3>3. CASE q # p
      BY <1>1, <3>1, <3>2, <3>3 DEF Abroad
    <3>4. CASE q = p
      <4>1. o \in batch \cup cur
        BY <1>1, <3>2, <3>4
      <4>2. CASE at \in PullStage
        <5>1. CASE proc[p].at \in PullStage /\ o \in Held(p)
          BY <3>2, <5>1 DEF Abroad
        <5>2. CASE o.key \in Key /\ o = folder[o.key]
          BY <3>2, <5>2 DEF Abroad
        <5> QED BY <4>1, <4>2, <5>1, <5>2
      <4>3. CASE at \in PushStage
        <5>1. Dev[p] # d
          BY <1>1, <3>1, <3>4, <4>3 DEF PushStage, PullStage
        <5>2. CASE o \in Held(p)
          BY <3>2, <5>1, <5>2 DEF Abroad
        <5>3. CASE o.by = row[Dev[p]][o.key].by /\ o.t = row[Dev[p]][o.key].t
          BY <3>2, <5>1, <5>3 DEF Abroad
        <5> QED BY <4>1, <4>3, <5>2, <5>3
      <4> QED BY <4>1, <4>2, <4>3
    <3> QED BY <3>3, <3>4
  <2> QED BY <2>1, <2>2 DEF Abroad
<1>4. \A d \in Device, k \in Key, t \in Nat : AtHome(d, k, t)' => AtHome(d, k, t)
  <2> SUFFICES ASSUME NEW d \in Device, NEW k \in Key, NEW t \in Nat, AtHome(d, k, t)'
               PROVE  AtHome(d, k, t)
    OBVIOUS
  <2>1. CASE row[d][k].by = d /\ row[d][k].t = t
    BY <2>1 DEF AtHome
  <2>2. CASE \E q \in Proc : /\ Dev[q] = d /\ proc'[q].at \in PushStage
                             /\ \E o \in Held(q)' : o.key = k /\ o.by = d /\ o.t = t
    <3>1. PICK q \in Proc : /\ Dev[q] = d /\ proc'[q].at \in PushStage
                            /\ \E o \in Held(q)' : o.key = k /\ o.by = d /\ o.t = t
      BY <2>2
    <3>2. PICK o \in Held(q)' : o.key = k /\ o.by = d /\ o.t = t
      BY <3>1
    <3>3. CASE q # p
      BY <1>1, <3>1, <3>2, <3>3 DEF AtHome
    <3>4. CASE q = p
      <4>1. o \in batch \cup cur /\ at \in PushStage
        BY <1>1, <3>1, <3>2, <3>4
      <4>2. CASE proc[p].at \in PushStage /\ o \in Held(p)
        BY <3>1, <3>2, <3>4, <4>2 DEF AtHome
      <4>3. CASE o.by = row[Dev[p]][o.key].by /\ o.t = row[Dev[p]][o.key].t
        BY <3>1, <3>2, <3>4, <4>3 DEF AtHome
      <4> QED BY <4>1, <4>2, <4>3
    <3> QED BY <3>3, <3>4
  <2> QED BY <2>1, <2>2 DEF AtHome
<1>5. \A e \in Device \cup {NoDevice}, k \in Key, t \in Nat : Copy(e, k, t)' => Copy(e, k, t)
  <2> SUFFICES ASSUME NEW e \in Device \cup {NoDevice}, NEW k \in Key, NEW t \in Nat,
                      Copy(e, k, t)'
               PROVE  Copy(e, k, t)
    OBVIOUS
  <2>1. CASE \/ \E d \in Device : row[d][k].by = e /\ row[d][k].t = t
             \/ folder[k].by = e /\ folder[k].t = t
    BY <2>1 DEF Copy
  <2>2. CASE \E q \in Proc : \E o \in Held(q)' : o.key = k /\ o.by = e /\ o.t = t
    <3>1. PICK q \in Proc : \E o \in Held(q)' : o.key = k /\ o.by = e /\ o.t = t
      BY <2>2
    <3>2. PICK o \in Held(q)' : o.key = k /\ o.by = e /\ o.t = t
      BY <3>1
    <3>3. CASE q # p
      BY <1>1, <3>2, <3>3 DEF Copy
    <3>4. CASE q = p
      <4>1. o \in batch \cup cur
        BY <1>1, <3>2, <3>4
      <4>2. \/ o \in Held(p)
            \/ o = folder[o.key]
            \/ o.by = row[Dev[p]][o.key].by /\ o.t = row[Dev[p]][o.key].t
        <5>1. CASE at \in PullStage
          BY <4>1, <5>1
        <5>2. CASE at \in PushStage
          BY <4>1, <5>2
        <5> QED BY <4>1, <5>1, <5>2
      <4> QED BY <3>2, <4>2 DEF Copy
    <3> QED BY <3>3, <3>4
  <2> QED BY <2>1, <2>2 DEF Copy
<1>6. AbroadIsPublished' /\ UnpublishedIsLast'
  BY <1>2, <1>3, <1>4, <1>5, SameEdits
<1>7. Mirrored'
  <2> SUFFICES ASSUME NEW d \in Device, NEW k \in Key, row[d][k].by # d,
                      ~(row[d][k].t <= mirror[d][k])
               PROVE  \E q \in Proc : /\ Dev[q] = d /\ proc'[q].at = "applied"
                                      /\ \E o \in proc'[q].cur : o.key = k /\ row[d][k].t <= o.t
    BY DEF Mirrored
  <2>1. PICK q \in Proc : /\ Dev[q] = d /\ proc[q].at = "applied"
                          /\ \E o \in proc[q].cur : o.key = k /\ row[d][k].t <= o.t
    BY DEF EchoInv, Mirrored
  <2>2. proc'[q] = proc[q]
    BY <1>1, <2>1
  <2> QED BY <2>1, <2>2
<1>8. ASSUME NEW q \in Proc PROVE Pulling(q)' /\ Pushing(q)'
  <2>1. CASE q = p
    BY <2>1
  <2>2. CASE q # p
    <3>1. proc'[q] = proc[q] /\ Pulling(q) /\ Pushing(q)
      BY <1>1, <2>2 DEF EchoInv
    <3>2. /\ Dev[q] \in Device /\ proc[q].keys \subseteq Key
          /\ \A o \in Held(q) : o.key \in Key
      BY DEF Held
    <3>3. \A k \in Key : /\ folder'[k].t \in Nat /\ folder[k].t \in Nat
                         /\ mirror[Dev[q]][k] \in Nat
                         /\ mirror'[Dev[q]][k] = mirror[Dev[q]][k]
                         /\ folder[k].t <= folder'[k].t
      BY <3>2 DEF ObjectType
    <3> QED BY <3>1, <3>2, <3>3, Bystander
  <2> QED BY <2>1, <2>2
<1> QED BY <1>6, <1>7, <1>8 DEF EchoInv

LEMMA ObjectParts ==
    ASSUME NEW k, NEW r, NEW d
    PROVE  /\ Object(k, r, d).key = k /\ Object(k, r, d).t = r.t
           /\ Object(k, r, d).by = r.by /\ Object(k, r, d).writer = d
  BY DEF Object

LEMMA EchoStart ==
    ASSUME IInv, EchoInv, OneAtATime', NEW p \in Proc, PushStart(p)
    PROVE  EchoInv'
<1> USE TableFact, ProcFact
<1> DEFINE d == Dev[p]
           B == {Object(k, row[d][k], d) : k \in {j \in Key : row[d][j] # NoRow}}
<1>1. /\ Becomes(p, "push", {}, B, {}) /\ proc[p].at = "idle"
      /\ latest' = latest /\ row' = row /\ mirror' = mirror /\ folder' = folder
  BY DEF PushStart, UnchangedByProc
<1>2. /\ proc'[p].at = "push" /\ proc'[p].batch = B /\ proc'[p].cur = {} /\ Held(p)' = B
      /\ \A q \in Proc \ {p} : proc'[q] = proc[q]
  <2> HIDE DEF B
  <2> QED BY <1>1, BecomesFact DEF IInv, Held
<1>3. \A o \in B : /\ o.key \in Key /\ o = Object(o.key, row[d][o.key], d)
                   /\ o.by = row[d][o.key].by /\ o.t = row[d][o.key].t /\ o.writer = d
  BY ObjectParts
<1> HIDE DEF B
<1>4. \A k \in Key : row[d][k].by = d \/ row[d][k].t <= mirror[d][k]
  <2> SUFFICES ASSUME NEW k \in Key, row[d][k].by # d, ~(row[d][k].t <= mirror[d][k])
               PROVE  FALSE
    OBVIOUS
  <2>1. PICK q \in Proc : Dev[q] = d /\ proc[q].at = "applied"
    BY DEF EchoInv, Mirrored
  <2>2. q # p /\ proc'[q] = proc[q]
    BY <1>1, <1>2, <2>1
  <2> QED BY <1>2, <2>1, <2>2 DEF OneAtATime
<1>5. Pulling(p)'
  BY <1>2 DEF Pulling, PullStage
<1>6. Pushing(p)'
  <2>1. OnePerKey(p)'
    <3>1. \A o, q \in B : o.key = q.key => o = q
      BY <1>3
    <3> QED BY <1>2, <3>1 DEF OnePerKey
  <2>2. \A o \in B : (o.by = d \/ o.t <= mirror[d][o.key]) /\ o.writer = d
    BY <1>3, <1>4
  <2> QED BY <1>1, <1>2, <2>1, <2>2 DEF Pushing
<1> QED BY <1>1, <1>3, <1>5, <1>6, QuietStep DEF PullStage, PushStage

LEMMA EchoCheck ==
    ASSUME IInv, EchoInv, NEW p \in Proc, PushCheck(p)
    PROVE  EchoInv'
<1> USE TableFact, ProcFact
<1> DEFINE d == Dev[p]
<1>0. /\ proc[p].at = "push" /\ latest' = latest /\ row' = row /\ mirror' = mirror
      /\ folder' = folder /\ proc[p].cur = {}
  BY DEF PushCheck, UnchangedByProc, EchoInv, Pushing
<1>1. PICK o \in proc[p].batch :
         IF VersionOf(mirror[d][o.key]) >= VersionOf(o.t)
         THEN Becomes(p, "push", {}, proc[p].batch \ {o}, {})
         ELSE Becomes(p, "send", {}, proc[p].batch \ {o}, {o})
  BY DEF PushCheck
<1>2. /\ \A q \in proc[p].batch : /\ q.by = d \/ q.t <= mirror[d][q.key]
                                  /\ q.writer = d /\ q \in Held(p)
      /\ \A q \in proc[p].batch \ {o} : q.key # o.key
      /\ OnePerKey(p)
  BY <1>0 DEF EchoInv, Pushing, PushStage, Held, OnePerKey
<1>3. CASE VersionOf(mirror[d][o.key]) >= VersionOf(o.t)
  <2> DEFINE B == proc[p].batch \ {o}
  <2>1. Becomes(p, "push", {}, B, {}) /\ B \subseteq proc[p].batch
    BY <1>1, <1>3
  <2> HIDE DEF B
  <2>2. proc'[p].at = "push" /\ proc'[p].batch = B /\ proc'[p].cur = {} /\ Held(p)' = B
    BY <2>1, BecomesFact DEF IInv, Held
  <2>3. Pulling(p)'
    BY <2>2 DEF Pulling, PullStage
  <2>4. OnePerKey(p)'
    BY <1>2, <2>1, <2>2 DEF OnePerKey
  <2>5. Pushing(p)'
    BY <1>0, <1>2, <2>1, <2>2, <2>4 DEF Pushing
  <2> QED BY <1>0, <1>2, <2>1, <2>3, <2>5, QuietStep DEF PullStage, PushStage
<1>4. CASE ~(VersionOf(mirror[d][o.key]) >= VersionOf(o.t))
  <2> DEFINE B == proc[p].batch \ {o}
  <2>1. Becomes(p, "send", {}, B, {o}) /\ B \subseteq proc[p].batch
        /\ \A q \in B : q.key # o.key
    BY <1>1, <1>2, <1>4
  <2> HIDE DEF B
  <2>2. /\ proc'[p].at = "send" /\ proc'[p].batch = B /\ proc'[p].cur = {o}
        /\ Held(p)' = B \cup {o}
    BY <2>1, BecomesFact DEF IInv, Held
  <2>3. mirror[d][o.key] \in Nat /\ o.t \in Nat
    OBVIOUS
  <2>4. ~(o.t <= mirror[d][o.key])
    <3> SUFFICES ASSUME o.t <= mirror[d][o.key] PROVE FALSE
      OBVIOUS
    <3>1. VersionOf(o.t) <= VersionOf(mirror[d][o.key])
      BY <2>3, VersionsInOrder
    <3> QED BY <1>4, <3>1
  <2>5. o.by = d /\ mirror[d][o.key] < o.t
    BY <1>2, <2>3, <2>4
  <2>6. Pulling(p)'
    BY <2>2 DEF Pulling, PullStage
  <2>7. OnePerKey(p)'
    BY <1>2, <2>1, <2>2 DEF OnePerKey
  <2>8. Pushing(p)'
    BY <1>0, <1>2, <2>1, <2>2, <2>5, <2>7 DEF Pushing, PushStage
  <2> QED BY <1>0, <1>2, <2>1, <2>6, <2>8, QuietStep DEF PullStage, PushStage
<1> QED BY <1>3, <1>4

LEMMA EchoRest ==
    ASSUME IInv, EchoInv, NEW p \in Proc, latest' = latest, row' = row, mirror' = mirror,
           folder' = folder, Becomes(p, "idle", {}, {}, {}),
           proc[p].at \notin {"sent", "applied"}
    PROVE  EchoInv'
<1>1. proc'[p].at = "idle" /\ Held(p)' = {}
  BY BecomesFact DEF IInv, Held
<1>2. Pulling(p)' /\ Pushing(p)'
  BY <1>1 DEF Pulling, Pushing, PullStage, PushStage
<1> QED BY <1>2, QuietStep DEF PullStage, PushStage

LEMMA EchoList ==
    ASSUME IInv, EchoInv, NEW p \in Proc, PullList(p)
    PROVE  EchoInv'
<1> USE TableFact, ProcFact
<1> DEFINE K == {k \in Key : /\ folder[k] # NoObject(k)
                             /\ folder[k].writer # Dev[p]
                             /\ folder[k].t > mirror[Dev[p]][k]}
<1>1. /\ Becomes(p, "fetch", K, {}, {}) /\ proc[p].at = "idle"
      /\ latest' = latest /\ row' = row /\ mirror' = mirror /\ folder' = folder
  BY DEF PullList, UnchangedByProc
<1>2. \A k \in K : mirror[Dev[p]][k] <= folder[k].t
  BY DEF ObjectType
<1> HIDE DEF K
<1>3. /\ proc'[p].at = "fetch" /\ proc'[p].keys = K
      /\ proc'[p].batch = {} /\ proc'[p].cur = {}
  BY <1>1, BecomesFact DEF IInv
<1>4. Pulling(p)' /\ Pushing(p)'
  BY <1>1, <1>2, <1>3 DEF Pulling, Pushing, PullStage, PushStage, OnePerKey
<1> QED BY <1>1, <1>4, QuietStep DEF PullStage, PushStage

LEMMA EchoFetch ==
    ASSUME IInv, EchoInv, NEW p \in Proc, PullFetch(p)
    PROVE  EchoInv'
<1> USE TableFact, ProcFact
<1>1. /\ proc[p].at = "fetch"
      /\ latest' = latest /\ row' = row /\ mirror' = mirror /\ folder' = folder
  BY DEF PullFetch, UnchangedByProc
<1>2. PICK k \in proc[p].keys :
         Becomes(p, "fetch", proc[p].keys \ {k}, proc[p].batch \cup {folder[k]}, {})
  BY DEF PullFetch
<1> DEFINE K == proc[p].keys \ {k}
           B == proc[p].batch \cup {folder[k]}
<1>3. /\ k \in Key /\ folder[k].key = k
      /\ OnePerKey(p) /\ mirror[Dev[p]][k] <= folder[k].t
      /\ \A j \in proc[p].keys : mirror[Dev[p]][j] <= folder[j].t
      /\ \A o \in proc[p].batch : o.key \notin proc[p].keys /\ mirror[Dev[p]][o.key] <= o.t
  BY <1>1 DEF EchoInv, Pulling, PullStage
<1>4. \A o \in B : o \in proc[p].batch \/ o = folder[k]
  OBVIOUS
<1>5. /\ \A o \in B : o.key \notin K /\ mirror[Dev[p]][o.key] <= o.t
      /\ \A o, q \in B : o.key = q.key => o = q
      /\ \A j \in K : mirror[Dev[p]][j] <= folder[j].t
  BY <1>3, <1>4 DEF OnePerKey
<1>6. \A o \in B : o \in Held(p) \/ (o.key \in Key /\ o = folder[o.key])
  BY <1>3, <1>4 DEF Held
<1>7. Becomes(p, "fetch", K, B, {})
  BY <1>2
<1> HIDE DEF K, B
<1>8. /\ proc'[p].at = "fetch" /\ proc'[p].keys = K
      /\ proc'[p].batch = B /\ proc'[p].cur = {}
  BY <1>7, BecomesFact DEF IInv
<1>9. Pulling(p)' /\ Pushing(p)'
  BY <1>1, <1>5, <1>8 DEF Pulling, Pushing, PullStage, PushStage, OnePerKey
<1> QED BY <1>1, <1>6, <1>7, <1>9, QuietStep DEF PullStage, PushStage

LEMMA EchoSort ==
    ASSUME IInv, EchoInv, NEW p \in Proc, PullSort(p)
    PROVE  EchoInv'
<1> USE TableFact, ProcFact
<1>1. /\ proc[p].at = "fetch" /\ Becomes(p, "apply", {}, proc[p].batch, {})
      /\ latest' = latest /\ row' = row /\ mirror' = mirror /\ folder' = folder
  BY DEF PullSort, UnchangedByProc
<1>2. /\ proc'[p].at = "apply" /\ proc'[p].keys = {}
      /\ proc'[p].batch = proc[p].batch /\ proc'[p].cur = {}
  BY <1>1, BecomesFact DEF IInv
<1>3. Pulling(p)' /\ Pushing(p)'
  BY <1>1, <1>2 DEF EchoInv, Pulling, Pushing, PullStage, PushStage, OnePerKey
<1> QED BY <1>1, <1>3, QuietStep DEF PullStage, PushStage, Held

LEMMA EchoMemoryCheck ==
    ASSUME IInv, EchoInv, NEW p \in Proc, ApplyMemoryCheck(p)
    PROVE  EchoInv'
<1> USE TableFact, ProcFact
<1>1. /\ proc[p].at = "apply"
      /\ latest' = latest /\ row' = row /\ mirror' = mirror /\ folder' = folder
  BY DEF ApplyMemoryCheck, UnchangedByProc
<1>2. PICK o \in proc[p].batch, at \in {"applied", "upsert"} :
         Becomes(p, at, {}, proc[p].batch, {o})
  BY DEF ApplyMemoryCheck, NextToApply
<1>3. /\ proc'[p].at = at /\ proc'[p].keys = {}
      /\ proc'[p].batch = proc[p].batch /\ proc'[p].cur = {o}
  BY <1>2, BecomesFact DEF IInv
<1>4. Pulling(p)' /\ Pushing(p)'
  BY <1>1, <1>3 DEF EchoInv, Pulling, Pushing, PullStage, PushStage, OnePerKey
<1> QED BY <1>1, <1>2, <1>4, QuietStep DEF PullStage, PushStage, Held

\* The other processes, when p alone has moved and no object has gone back.
LEMMA Others ==
    ASSUME IInv, EchoInv, NEW p \in Proc, NEW q \in Proc \ {p}, proc'[q] = proc[q],
           \A k \in Key : folder'[k] \in ObjectType /\ folder[k].t <= folder'[k].t,
           \/ mirror' = mirror
           \/ /\ OneAtATime /\ proc[p].at # "idle"
              /\ \A e \in Device \ {Dev[p]} : mirror'[e] = mirror[e]
    PROVE  Pulling(q)' /\ Pushing(q)'
<1> USE TableFact, ProcFact
<1>1. /\ Pulling(q) /\ Pushing(q) /\ Dev[q] \in Device /\ proc[q].keys \subseteq Key
      /\ \A o \in Held(q) : o.key \in Key
  BY DEF EchoInv, Held
<1>2. proc[q].at # "idle" => \A k \in Key : mirror'[Dev[q]][k] = mirror[Dev[q]][k]
  BY <1>1 DEF OneAtATime
<1>3. \A k \in Key : /\ folder'[k].t \in Nat /\ folder[k].t \in Nat
                     /\ mirror[Dev[q]][k] \in Nat /\ folder[k].t <= folder'[k].t
  BY <1>1 DEF ObjectType
<1> QED BY <1>1, <1>2, <1>3, Bystander

LEMMA EchoApply ==
    ASSUME IInv, EchoInv, NEW p \in Proc, NEW o \in proc[p].batch,
           proc[p].at \in {"apply", "upsert"},
           NEW new, new = row[Dev[p]][o.key] \/ (new.by = o.by /\ new.t = o.t),
           row' = [row EXCEPT ![Dev[p]][o.key] = new],
           Becomes(p, "applied", {}, proc[p].batch, {o}),
           latest' = latest, mirror' = mirror, folder' = folder
    PROVE  EchoInv'
<1> USE TableFact, ProcFact
<1> DEFINE d == Dev[p]
<1>0. o.key \in Key /\ o.t \in Nat /\ o \in Held(p) /\ d \in Device
  BY DEF Held
<1>1. /\ proc'[p].at = "applied" /\ proc'[p].keys = {}
      /\ proc'[p].batch = proc[p].batch /\ proc'[p].cur = {o}
      /\ \A q \in Proc \ {p} : proc'[q] = proc[q] /\ Held(q)' = Held(q)
  BY BecomesFact DEF IInv, Held
<1>2. Held(p)' \subseteq Held(p)
  BY <1>1 DEF Held
<1>3. \A e \in Device, k \in Key :
         \/ row'[e][k] = row[e][k]
         \/ e = d /\ k = o.key /\ row'[e][k].by = o.by /\ row'[e][k].t = o.t
  BY <1>0
<1>5. \A k \in Key : o.key = k => Abroad(o.by, k, o.t)
  BY <1>0 DEF Abroad, PullStage
<1>6. \A e \in Device, k \in Key, t \in Nat : Published(e, k, t) => Published(e, k, t)'
  <2> SUFFICES ASSUME NEW e \in Device, NEW k \in Key, NEW t \in Nat, Published(e, k, t)
               PROVE  Published(e, k, t)'
    OBVIOUS
  <2>1. CASE t <= mirror[e][k]
    BY <2>1 DEF Published
  <2>2. CASE \E q \in Proc : /\ Dev[q] = e /\ proc[q].at = "sent"
                             /\ \E x \in proc[q].cur : x.key = k /\ t <= x.t
    <3>1. PICK q \in Proc : /\ Dev[q] = e /\ proc[q].at = "sent"
                            /\ \E x \in proc[q].cur : x.key = k /\ t <= x.t
      BY <2>2
    <3>2. proc'[q] = proc[q]
      BY <1>1, <3>1
    <3> QED BY <3>1, <3>2 DEF Published
  <2> QED BY <2>1, <2>2 DEF Published
<1>7. \A e \in Device, k \in Key, t \in Nat : Abroad(e, k, t)' => Abroad(e, k, t)
  <2> SUFFICES ASSUME NEW e \in Device, NEW k \in Key, NEW t \in Nat, Abroad(e, k, t)'
               PROVE  Abroad(e, k, t)
    OBVIOUS
  <2>1. CASE \E x \in Device \ {e} : row'[x][k].by = e /\ row'[x][k].t = t
    <3>1. PICK x \in Device \ {e} : row'[x][k].by = e /\ row'[x][k].t = t
      BY <2>1
    <3>2. CASE row'[x][k] = row[x][k]
      BY <3>1, <3>2 DEF Abroad
    <3>3. CASE k = o.key /\ row'[x][k].by = o.by /\ row'[x][k].t = o.t
      BY <1>5, <3>1, <3>3
    <3> QED BY <1>3, <3>2, <3>3
  <2>2. CASE folder[k].by = e /\ folder[k].t = t
    BY <2>2 DEF Abroad
  <2>3. CASE \E q \in Proc : /\ Dev[q] # e \/ proc'[q].at \in PullStage
                             /\ \E x \in Held(q)' : x.key = k /\ x.by = e /\ x.t = t
    <3>1. PICK q \in Proc : /\ Dev[q] # e \/ proc'[q].at \in PullStage
                            /\ \E x \in Held(q)' : x.key = k /\ x.by = e /\ x.t = t
      BY <2>3
    <3>2. CASE q # p
      BY <1>1, <3>1, <3>2 DEF Abroad
    <3>3. CASE q = p
      <4>1. proc[p].at \in PullStage
        BY DEF PullStage
      <4> QED BY <1>2, <3>1, <3>3, <4>1 DEF Abroad
    <3> QED BY <3>2, <3>3
  <2> QED BY <2>1, <2>2, <2>3 DEF Abroad
<1>8. \A e \in Device, k \in Key, t \in Nat :
         AtHome(e, k, t)' => AtHome(e, k, t) \/ Published(e, k, t)'
  <2> SUFFICES ASSUME NEW e \in Device, NEW k \in Key, NEW t \in Nat, AtHome(e, k, t)'
               PROVE  AtHome(e, k, t) \/ Published(e, k, t)'
    OBVIOUS
  <2>1. CASE row'[e][k].by = e /\ row'[e][k].t = t
    <3>1. CASE row'[e][k] = row[e][k]
      BY <2>1, <3>1 DEF AtHome
    <3>2. CASE k = o.key /\ row'[e][k].by = o.by /\ row'[e][k].t = o.t
      <4>1. Abroad(e, k, t)
        BY <1>5, <2>1, <3>2
      <4>2. Published(e, k, t)
        BY <4>1 DEF EchoInv, AbroadIsPublished
      <4> QED BY <1>6, <4>2
    <3> QED BY <1>3, <3>1, <3>2
  <2>2. CASE \E q \in Proc : /\ Dev[q] = e /\ proc'[q].at \in PushStage
                             /\ \E x \in Held(q)' : x.key = k /\ x.by = e /\ x.t = t
    <3>1. PICK q \in Proc : /\ Dev[q] = e /\ proc'[q].at \in PushStage
                            /\ \E x \in Held(q)' : x.key = k /\ x.by = e /\ x.t = t
      BY <2>2
    <3>2. q # p
      BY <1>1, <3>1 DEF PushStage
    <3> QED BY <1>1, <3>1, <3>2 DEF AtHome
  <2> QED BY <2>1, <2>2 DEF AtHome
<1>9. \A e \in Device \cup {NoDevice}, k \in Key, t \in Nat : Copy(e, k, t)' => Copy(e, k, t)
  <2> SUFFICES ASSUME NEW e \in Device \cup {NoDevice}, NEW k \in Key, NEW t \in Nat,
                      Copy(e, k, t)'
               PROVE  Copy(e, k, t)
    OBVIOUS
  <2>1. CASE \E x \in Device : row'[x][k].by = e /\ row'[x][k].t = t
    <3>1. PICK x \in Device : row'[x][k].by = e /\ row'[x][k].t = t
      BY <2>1
    <3>2. CASE row'[x][k] = row[x][k]
      BY <3>1, <3>2 DEF Copy
    <3>3. CASE k = o.key /\ row'[x][k].by = o.by /\ row'[x][k].t = o.t
      BY <1>0, <3>1, <3>3 DEF Copy
    <3> QED BY <1>3, <3>2, <3>3
  <2>2. CASE folder[k].by = e /\ folder[k].t = t
    BY <2>2 DEF Copy
  <2>3. CASE \E q \in Proc : \E x \in Held(q)' : x.key = k /\ x.by = e /\ x.t = t
    <3>1. PICK q \in Proc : \E x \in Held(q)' : x.key = k /\ x.by = e /\ x.t = t
      BY <2>3
    <3>2. Held(q)' \subseteq Held(q)
      BY <1>1, <1>2
    <3> QED BY <3>1, <3>2 DEF Copy
  <2> QED BY <2>1, <2>2, <2>3 DEF Copy
<1>10. AbroadIsPublished' /\ UnpublishedIsLast'
  BY <1>6, <1>7, <1>8, <1>9, SameEdits
<1>11. Mirrored'
  <2> SUFFICES ASSUME NEW e \in Device, NEW k \in Key, row'[e][k].by # e,
                      ~(row'[e][k].t <= mirror[e][k])
               PROVE  \E q \in Proc : /\ Dev[q] = e /\ proc'[q].at = "applied"
                                      /\ \E x \in proc'[q].cur : x.key = k /\ row'[e][k].t <= x.t
    BY DEF Mirrored
  <2>1. CASE row'[e][k] = row[e][k]
    <3>1. PICK q \in Proc : /\ Dev[q] = e /\ proc[q].at = "applied"
                            /\ \E x \in proc[q].cur : x.key = k /\ row[e][k].t <= x.t
      BY <2>1 DEF EchoInv, Mirrored
    <3>2. proc'[q] = proc[q]
      BY <1>1, <3>1
    <3> QED BY <2>1, <3>1, <3>2
  <2>2. CASE e = d /\ k = o.key /\ row'[e][k].t = o.t
    <3>1. Dev[p] = e /\ proc'[p].at = "applied" /\ o \in proc'[p].cur
      BY <1>1, <2>2
    <3>2. o.key = k /\ row'[e][k].t <= o.t
      BY <1>0, <2>2
    <3> QED BY <3>1, <3>2
  <2> QED BY <1>3, <2>1, <2>2
<1>12. Pulling(p)' /\ Pushing(p)'
  <2>1. proc[p].at \in PullStage /\ proc[p].at # "fetch"
    BY DEF PullStage
  <2> QED BY <1>1, <2>1 DEF EchoInv, Pulling, Pushing, PullStage, PushStage, OnePerKey
<1>13. ASSUME NEW q \in Proc \ {p} PROVE Pulling(q)' /\ Pushing(q)'
  <2>1. \A k \in Key : folder'[k] \in ObjectType /\ folder[k].t <= folder'[k].t
    BY DEF ObjectType
  <2> QED BY <1>1, <2>1, Others
<1> QED BY <1>10, <1>11, <1>12, <1>13 DEF EchoInv

\* set_mirror: the mirror of p's device moves up to what p has pushed or applied.
LEMMA EchoMirror ==
    ASSUME IInv, EchoInv, OneAtATime, NEW p \in Proc, NEW o \in proc[p].cur,
           mirror' = [mirror EXCEPT ![Dev[p]][o.key] = o.t],
           NEW at, NEW batch, batch \subseteq proc[p].batch, Becomes(p, at, {}, batch, {}),
           \/ proc[p].at = "sent" /\ at = "push"
           \/ /\ proc[p].at = "applied" /\ at = "apply"
              /\ \A q \in batch : q.key # o.key,
           latest' = latest, row' = row, folder' = folder
    PROVE  EchoInv'
<1> USE TableFact, ProcFact
<1> DEFINE d == Dev[p]
<1>0. o.key \in Key /\ o.t \in Nat /\ o \in Held(p) /\ d \in Device
  BY DEF Held
<1>1. /\ proc'[p].at = at /\ proc'[p].keys = {} /\ proc'[p].batch = batch
      /\ proc'[p].cur = {} /\ Held(p)' = batch /\ batch \subseteq Held(p)
      /\ \A q \in Proc \ {p} : proc'[q] = proc[q] /\ Held(q)' = Held(q)
  BY BecomesFact DEF IInv, Held
<1>2. /\ Pulling(p) /\ Pushing(p)
      /\ proc[p].at = "applied" =>
           /\ o \in proc[p].batch /\ proc[p].cur = {o}
           /\ \A q \in proc[p].batch : mirror[d][q.key] <= q.t
  BY DEF EchoInv, Pulling, PullStage, OnePerKey
<1>3. /\ proc[p].at = "sent" =>
           /\ mirror[d][o.key] < o.t /\ proc[p].cur = {o}
           /\ \A q \in proc[p].batch : /\ q.by = d \/ q.t <= mirror[d][q.key]
                                       /\ q.writer = d /\ q.key # o.key
  BY <1>2 DEF Pushing, PushStage, OnePerKey, Held
<1>4. /\ mirror[d][o.key] \in Nat /\ mirror[d][o.key] <= o.t /\ mirror'[d][o.key] = o.t
      /\ proc[p].cur = {o}
      /\ \A q \in batch : q.key # o.key
  <2>1. mirror[d][o.key] \in Nat /\ mirror'[d][o.key] = o.t
    BY <1>0
  <2>2. CASE proc[p].at = "applied"
    BY <1>2, <2>1, <2>2
  <2>3. CASE proc[p].at = "sent"
    BY <1>0, <1>3, <2>1, <2>3
  <2> QED BY <2>2, <2>3
<1>5. \A e \in Device, k \in Key :
         /\ mirror[e][k] \in Nat /\ mirror'[e][k] \in Nat /\ mirror[e][k] <= mirror'[e][k]
         /\ e # d \/ k # o.key => mirror'[e][k] = mirror[e][k]
  BY <1>0, <1>4
<1>6. \A e \in Device, k \in Key, t \in Nat : Published(e, k, t) => Published(e, k, t)'
  <2> SUFFICES ASSUME NEW e \in Device, NEW k \in Key, NEW t \in Nat, Published(e, k, t)
               PROVE  Published(e, k, t)'
    OBVIOUS
  <2>1. CASE t <= mirror[e][k]
    BY <1>5, <2>1 DEF Published
  <2>2. CASE \E q \in Proc : /\ Dev[q] = e /\ proc[q].at = "sent"
                             /\ \E x \in proc[q].cur : x.key = k /\ t <= x.t
    <3>1. PICK q \in Proc : /\ Dev[q] = e /\ proc[q].at = "sent"
                            /\ \E x \in proc[q].cur : x.key = k /\ t <= x.t
      BY <2>2
    <3>2. CASE q = p
      <4>1. e = d /\ k = o.key /\ t <= o.t
        BY <1>4, <3>1, <3>2
      <4> QED BY <1>4, <4>1 DEF Published
    <3>3. CASE q # p
      BY <1>1, <3>1, <3>3 DEF Published
    <3> QED BY <3>2, <3>3
  <2> QED BY <2>1, <2>2 DEF Published
<1>7. \A q \in Proc : Held(q)' \subseteq Held(q)
  BY <1>1
<1>8. \A e \in Device, k \in Key, t \in Nat : Abroad(e, k, t)' => Abroad(e, k, t)
  <2> SUFFICES ASSUME NEW e \in Device, NEW k \in Key, NEW t \in Nat, Abroad(e, k, t)'
               PROVE  Abroad(e, k, t)
    OBVIOUS
  <2>1. CASE \/ \E x \in Device \ {e} : row[x][k].by = e /\ row[x][k].t = t
             \/ folder[k].by = e /\ folder[k].t = t
    BY <2>1 DEF Abroad
  <2>2. CASE \E q \in Proc : /\ Dev[q] # e \/ proc'[q].at \in PullStage
                             /\ \E x \in Held(q)' : x.key = k /\ x.by = e /\ x.t = t
    <3>1. PICK q \in Proc : /\ Dev[q] # e \/ proc'[q].at \in PullStage
                            /\ \E x \in Held(q)' : x.key = k /\ x.by = e /\ x.t = t
      BY <2>2
    <3>2. Dev[q] # e \/ proc[q].at \in PullStage
      BY <1>1, <3>1 DEF PullStage
    <3>3. Held(q)' \subseteq Held(q)
      BY <1>7
    <3> QED BY <3>1, <3>2, <3>3 DEF Abroad
  <2> QED BY <2>1, <2>2 DEF Abroad
<1>9. \A e \in Device, k \in Key, t \in Nat : AtHome(e, k, t)' => AtHome(e, k, t)
  <2> SUFFICES ASSUME NEW e \in Device, NEW k \in Key, NEW t \in Nat, AtHome(e, k, t)'
               PROVE  AtHome(e, k, t)
    OBVIOUS
  <2>1. CASE row[e][k].by = e /\ row[e][k].t = t
    BY <2>1 DEF AtHome
  <2>2. CASE \E q \in Proc : /\ Dev[q] = e /\ proc'[q].at \in PushStage
                             /\ \E x \in Held(q)' : x.key = k /\ x.by = e /\ x.t = t
    <3>1. PICK q \in Proc : /\ Dev[q] = e /\ proc'[q].at \in PushStage
                            /\ \E x \in Held(q)' : x.key = k /\ x.by = e /\ x.t = t
      BY <2>2
    <3>2. proc[q].at \in PushStage
      BY <1>1, <3>1 DEF PushStage
    <3>3. Held(q)' \subseteq Held(q)
      BY <1>7
    <3> QED BY <3>1, <3>2, <3>3 DEF AtHome
  <2> QED BY <2>1, <2>2 DEF AtHome
<1>10. \A e \in Device \cup {NoDevice}, k \in Key, t \in Nat : Copy(e, k, t)' => Copy(e, k, t)
  <2> SUFFICES ASSUME NEW e \in Device \cup {NoDevice}, NEW k \in Key, NEW t \in Nat,
                      Copy(e, k, t)'
               PROVE  Copy(e, k, t)
    OBVIOUS
  <2>1. CASE \/ \E x \in Device : row[x][k].by = e /\ row[x][k].t = t
             \/ folder[k].by = e /\ folder[k].t = t
    BY <2>1 DEF Copy
  <2>2. CASE \E q \in Proc : \E x \in Held(q)' : x.key = k /\ x.by = e /\ x.t = t
    <3>1. PICK q \in Proc : \E x \in Held(q)' : x.key = k /\ x.by = e /\ x.t = t
      BY <2>2
    <3>2. Held(q)' \subseteq Held(q)
      BY <1>7
    <3> QED BY <3>1, <3>2 DEF Copy
  <2> QED BY <2>1, <2>2 DEF Copy
<1>11. AbroadIsPublished' /\ UnpublishedIsLast'
  BY <1>6, <1>8, <1>9, <1>10, SameEdits
<1>12. Mirrored'
  <2> SUFFICES ASSUME NEW e \in Device, NEW k \in Key, row[e][k].by # e,
                      ~(row[e][k].t <= mirror'[e][k])
               PROVE  \E q \in Proc : /\ Dev[q] = e /\ proc'[q].at = "applied"
                                      /\ \E x \in proc'[q].cur : x.key = k /\ row[e][k].t <= x.t
    BY DEF Mirrored
  <2>0. row[e][k].t \in Nat
    BY DEF RowType
  <2>1. PICK q \in Proc : /\ Dev[q] = e /\ proc[q].at = "applied"
                          /\ \E x \in proc[q].cur : x.key = k /\ row[e][k].t <= x.t
    BY <1>5, <2>0 DEF EchoInv, Mirrored
  <2>2. CASE q = p
    BY <1>4, <2>1, <2>2
  <2>3. CASE q # p
    BY <1>1, <2>1, <2>3, SMTT(60), ZenonT(60)
  <2> QED BY <2>2, <2>3
<1>13. Pulling(p)' /\ Pushing(p)'
  <2>1. \A q \in batch : q.key \in Key /\ mirror'[d][q.key] = mirror[d][q.key]
    BY <1>0, <1>4, <1>5
  <2>2. CASE proc[p].at = "applied" /\ at = "apply"
    <3>1. OnePerKey(p)
      BY <1>2, <2>2 DEF Pulling, PullStage
    <3>2. \A q \in batch : mirror'[d][q.key] <= q.t
      BY <1>2, <2>1, <2>2
    <3> QED BY <1>1, <2>2, <3>1, <3>2 DEF Pulling, Pushing, PullStage, PushStage, OnePerKey
  <2>3. CASE proc[p].at = "sent" /\ at = "push"
    <3>1. OnePerKey(p)
      BY <1>2, <2>3 DEF Pushing, PushStage
    <3>2. \A q \in batch : (q.by = d \/ q.t <= mirror'[d][q.key]) /\ q.writer = d
      BY <1>3, <2>1, <2>3
    <3> QED BY <1>1, <2>3, <3>1, <3>2 DEF Pulling, Pushing, PullStage, PushStage, OnePerKey
  <2> QED BY <2>2, <2>3
<1>14. ASSUME NEW q \in Proc \ {p} PROVE Pulling(q)' /\ Pushing(q)'
  <2>1. \A k \in Key : folder'[k] \in ObjectType /\ folder[k].t <= folder'[k].t
    BY DEF ObjectType
  <2>2. \A e \in Device \ {d} : mirror'[e] = mirror[e]
    BY <1>0
  <2>3. proc[p].at # "idle"
    OBVIOUS
  <2>4. proc'[q] = proc[q]
    BY <1>1
  <2> QED BY <2>1, <2>2, <2>3, <2>4, Others
<1> QED BY <1>11, <1>12, <1>13, <1>14 DEF EchoInv

LEMMA EchoSend ==
    ASSUME IInv, EchoInv, OneAtATime, NEW p \in Proc, PushSend(p)
    PROVE  EchoInv'
<1> USE TableFact, ProcFact
<1> DEFINE d == Dev[p]
<1>0. /\ proc[p].at = "send" /\ latest' = latest /\ row' = row /\ mirror' = mirror
      /\ Becomes(p, "sent", {}, proc[p].batch, proc[p].cur)
  BY DEF PushSend, UnchangedByProc
<1>1. PICK o \in proc[p].cur : folder' = [folder EXCEPT ![o.key] = o]
  BY DEF PushSend
<1>2. /\ o.key \in Key /\ o.t \in Nat /\ o \in ObjectType /\ o \in Held(p) /\ d \in Device
  BY DEF Held
<1>3. /\ proc'[p].at = "sent" /\ proc'[p].keys = {} /\ proc'[p].batch = proc[p].batch
      /\ proc'[p].cur = proc[p].cur /\ Held(p)' = Held(p)
      /\ \A q \in Proc \ {p} : proc'[q] = proc[q] /\ Held(q)' = Held(q)
  BY <1>0, BecomesFact DEF IInv, Held
<1>4. /\ Pushing(p) /\ o.by = d /\ o.writer = d /\ mirror[d][o.key] < o.t
  BY <1>0, <1>2 DEF EchoInv, Pushing, PushStage
<1>5. \A k \in Key : folder'[k] = IF k = o.key THEN o ELSE folder[k]
  BY <1>1, <1>2
<1>6. folder[o.key] \in ObjectType /\ folder[o.key].t \in Nat /\ mirror[d][o.key] \in Nat
  BY <1>2 DEF ObjectType
<1>7. \A t \in Nat : Published(d, o.key, t) => t <= mirror[d][o.key]
  <2>1. \A q \in Proc : Dev[q] = d => proc[q].at # "sent"
    BY <1>0 DEF OneAtATime
  <2> QED BY <2>1 DEF Published
<1>8. folder[o.key].t <= o.t
  <2>1. CASE folder[o.key].by = d
    <3>1. Abroad(d, o.key, folder[o.key].t)
      BY <1>2, <2>1 DEF Abroad
    <3>2. Published(d, o.key, folder[o.key].t)
      BY <1>2, <1>6, <3>1 DEF EchoInv, AbroadIsPublished
    <3> QED BY <1>2, <1>4, <1>6, <1>7, <3>2
  <2>2. CASE folder[o.key].by # d
    <3>1. AtHome(d, o.key, o.t)
      BY <1>0, <1>2, <1>4 DEF AtHome, PushStage
    <3>2. ~Published(d, o.key, o.t)
      BY <1>2, <1>4, <1>6, <1>7
    <3>3. \A e \in (Device \cup {NoDevice}) \ {d}, u \in Nat : Copy(e, o.key, u) => u <= o.t
      BY <1>2, <3>1, <3>2 DEF EchoInv, UnpublishedIsLast
    <3>4. Copy(folder[o.key].by, o.key, folder[o.key].t)
      BY DEF Copy
    <3>5. folder[o.key].by \in (Device \cup {NoDevice}) \ {d}
      BY <1>6, <2>2 DEF ObjectType
    <3> QED BY <1>6, <3>3, <3>4, <3>5
  <2> QED BY <2>1, <2>2
<1>9. \A e \in Device, k \in Key, t \in Nat : Published(e, k, t) => Published(e, k, t)'
  <2> SUFFICES ASSUME NEW e \in Device, NEW k \in Key, NEW t \in Nat, Published(e, k, t)
               PROVE  Published(e, k, t)'
    OBVIOUS
  <2>1. CASE t <= mirror[e][k]
    BY <1>0, <2>1 DEF Published
  <2>2. CASE \E q \in Proc : /\ Dev[q] = e /\ proc[q].at = "sent"
                             /\ \E x \in proc[q].cur : x.key = k /\ t <= x.t
    <3>1. PICK q \in Proc : /\ Dev[q] = e /\ proc[q].at = "sent"
                            /\ \E x \in proc[q].cur : x.key = k /\ t <= x.t
      BY <2>2
    <3>2. proc'[q] = proc[q]
      BY <1>0, <1>3, <3>1
    <3> QED BY <3>1, <3>2 DEF Published
  <2> QED BY <2>1, <2>2 DEF Published
<1>10. Published(d, o.key, o.t)'
  <2>1. Dev[p] = d /\ proc'[p].at = "sent" /\ o \in proc'[p].cur /\ o.t <= o.t
    BY <1>2, <1>3
  <2> QED BY <2>1 DEF Published
<1>11. \A e \in Device, k \in Key, t \in Nat :
          Abroad(e, k, t)' => Abroad(e, k, t) \/ Published(e, k, t)'
  <2> SUFFICES ASSUME NEW e \in Device, NEW k \in Key, NEW t \in Nat, Abroad(e, k, t)'
               PROVE  Abroad(e, k, t) \/ Published(e, k, t)'
    OBVIOUS
  <2>1. CASE \E x \in Device \ {e} : row'[x][k].by = e /\ row'[x][k].t = t
    BY <1>0, <2>1 DEF Abroad
  <2>2. CASE folder'[k].by = e /\ folder'[k].t = t
    BY <1>4, <1>5, <1>10, <2>2 DEF Abroad
  <2>3. CASE \E q \in Proc : /\ Dev[q] # e \/ proc'[q].at \in PullStage
                             /\ \E x \in Held(q)' : x.key = k /\ x.by = e /\ x.t = t
    <3>1. PICK q \in Proc : /\ Dev[q] # e \/ proc'[q].at \in PullStage
                            /\ \E x \in Held(q)' : x.key = k /\ x.by = e /\ x.t = t
      BY <2>3
    <3>2. Dev[q] # e \/ proc[q].at \in PullStage
      BY <1>3, <3>1 DEF PullStage
    <3>3. Held(q)' = Held(q)
      BY <1>3
    <3> QED BY <3>1, <3>2, <3>3 DEF Abroad
  <2> QED BY <2>1, <2>2, <2>3 DEF Abroad
<1>12. \A e \in Device, k \in Key, t \in Nat : AtHome(e, k, t)' => AtHome(e, k, t)
  <2> SUFFICES ASSUME NEW e \in Device, NEW k \in Key, NEW t \in Nat, AtHome(e, k, t)'
               PROVE  AtHome(e, k, t)
    OBVIOUS
  <2>1. CASE row'[e][k].by = e /\ row'[e][k].t = t
    BY <1>0, <2>1 DEF AtHome
  <2>2. CASE \E q \in Proc : /\ Dev[q] = e /\ proc'[q].at \in PushStage
                             /\ \E x \in Held(q)' : x.key = k /\ x.by = e /\ x.t = t
    <3>1. PICK q \in Proc : /\ Dev[q] = e /\ proc'[q].at \in PushStage
                            /\ \E x \in Held(q)' : x.key = k /\ x.by = e /\ x.t = t
      BY <2>2
    <3>2. proc[q].at \in PushStage
      BY <1>0, <1>3, <3>1 DEF PushStage
    <3>3. Held(q)' = Held(q)
      BY <1>3
    <3> QED BY <3>1, <3>2, <3>3 DEF AtHome
  <2> QED BY <2>1, <2>2 DEF AtHome
<1>13. \A e \in Device \cup {NoDevice}, k \in Key, t \in Nat : Copy(e, k, t)' => Copy(e, k, t)
  <2> SUFFICES ASSUME NEW e \in Device \cup {NoDevice}, NEW k \in Key, NEW t \in Nat,
                      Copy(e, k, t)'
               PROVE  Copy(e, k, t)
    OBVIOUS
  <2>1. CASE \E x \in Device : row'[x][k].by = e /\ row'[x][k].t = t
    BY <1>0, <2>1 DEF Copy
  <2>2. CASE folder'[k].by = e /\ folder'[k].t = t
    BY <1>2, <1>5, <2>2 DEF Copy
  <2>3. CASE \E q \in Proc : \E x \in Held(q)' : x.key = k /\ x.by = e /\ x.t = t
    <3>1. PICK q \in Proc : \E x \in Held(q)' : x.key = k /\ x.by = e /\ x.t = t
      BY <2>3
    <3>2. Held(q)' = Held(q)
      BY <1>3
    <3> QED BY <3>1, <3>2 DEF Copy
  <2> QED BY <2>1, <2>2, <2>3 DEF Copy
<1>14. AbroadIsPublished' /\ UnpublishedIsLast'
  BY <1>0, <1>9, <1>11, <1>12, <1>13, SameEdits
<1>15. Mirrored'
  <2> SUFFICES ASSUME NEW e \in Device, NEW k \in Key, row[e][k].by # e,
                      ~(row[e][k].t <= mirror[e][k])
               PROVE  \E q \in Proc : /\ Dev[q] = e /\ proc'[q].at = "applied"
                                      /\ \E x \in proc'[q].cur : x.key = k /\ row[e][k].t <= x.t
    BY <1>0 DEF Mirrored
  <2>1. PICK q \in Proc : /\ Dev[q] = e /\ proc[q].at = "applied"
                          /\ \E x \in proc[q].cur : x.key = k /\ row[e][k].t <= x.t
    BY DEF EchoInv, Mirrored
  <2>2. proc'[q] = proc[q]
    BY <1>0, <1>3, <2>1
  <2> QED BY <2>1, <2>2
<1>16. Pulling(p)' /\ Pushing(p)'
  BY <1>0, <1>3, <1>4 DEF Pulling, Pushing, PullStage, PushStage, OnePerKey
<1>17. ASSUME NEW q \in Proc \ {p} PROVE Pulling(q)' /\ Pushing(q)'
  <2>1. \A k \in Key : folder'[k] \in ObjectType /\ folder[k].t <= folder'[k].t
    <3> SUFFICES ASSUME NEW k \in Key
                 PROVE  folder'[k] \in ObjectType /\ folder[k].t <= folder'[k].t
      OBVIOUS
    <3>1. CASE k = o.key
      BY <1>2, <1>5, <1>8, <3>1
    <3>2. CASE k # o.key
      <4>1. folder'[k] = folder[k] /\ folder[k] \in ObjectType
        BY <1>5, <3>2
      <4>2. folder[k].t \in Nat
        BY <4>1 DEF ObjectType
      <4> QED BY <4>1, <4>2
    <3> QED BY <3>1, <3>2
  <2>2. proc'[q] = proc[q]
    BY <1>3
  <2> QED BY <1>0, <2>1, <2>2, Others
<1>18. \A k \in Key : folder'[k].writer = folder'[k].by
  BY <1>4, <1>5 DEF EchoInv
<1> QED BY <1>14, <1>15, <1>16, <1>17, <1>18 DEF EchoInv

LEMMA EchoWrite ==
    ASSUME IInv, EchoInv, NEW d \in Device, NEW k \in Key, NEW del, Write(d, k, del),
           latest[k] = NoRow \/ row[d][k] = latest[k]
    PROVE  EchoInv'
<1> USE TableFact, ProcFact
<1>1. PICK a \in Advance :
         LET r == [t |-> now + a, rev |-> edits + 1, by |-> d, del |-> del]
         IN  row' = [row EXCEPT ![d][k] = r] /\ latest' = [latest EXCEPT ![k] = r]
  BY DEF Write
<1> DEFINE r == [t |-> now + a, rev |-> edits + 1, by |-> d, del |-> del]
           T == now + a
<1>2. row' = [row EXCEPT ![d][k] = r] /\ latest' = [latest EXCEPT ![k] = r]
      /\ r.t = T /\ r.by = d
  BY <1>1
<1>3. T \in Nat /\ latest[k].t \in Nat /\ latest[k].t <= T
  <2>1. a \in Nat /\ now \in Nat /\ latest[k].t \in Nat /\ latest[k].t <= now
    BY SyncAssumption DEF IInv, TypeOK, NoneNewer, RowType
  <2> QED BY <2>1
<1> HIDE DEF r, T
<1>4. mirror' = mirror /\ folder' = folder /\ proc' = proc
  BY DEF Write
<1>5. /\ row'[d][k].by = d /\ row'[d][k].t = T /\ latest'[k].by = d
      /\ \A e \in Device, j \in Key : e # d \/ j # k => row'[e][j] = row[e][j]
      /\ \A j \in Key \ {k} : latest'[j] = latest[j]
  BY <1>2
<1>6. \A q \in Proc : Held(q)' = Held(q)
  BY <1>4 DEF Held
<1>7. \A e, j, t : Published(e, j, t)' <=> Published(e, j, t)
  BY <1>4 DEF Published
<1>8. \A e \in Device, j \in Key, t \in Nat : Abroad(e, j, t)' => Abroad(e, j, t)
  <2> SUFFICES ASSUME NEW e \in Device, NEW j \in Key, NEW t \in Nat, Abroad(e, j, t)'
               PROVE  Abroad(e, j, t)
    OBVIOUS
  <2>1. CASE \E x \in Device \ {e} : row'[x][j].by = e /\ row'[x][j].t = t
    <3>1. PICK x \in Device \ {e} : row'[x][j].by = e /\ row'[x][j].t = t
      BY <2>1
    <3>2. row'[x][j] = row[x][j]
      BY <1>5, <3>1
    <3> QED BY <3>1, <3>2 DEF Abroad
  <2>2. CASE folder'[j].by = e /\ folder'[j].t = t
    BY <1>4, <2>2 DEF Abroad
  <2>3. CASE \E q \in Proc : /\ Dev[q] # e \/ proc'[q].at \in PullStage
                             /\ \E x \in Held(q)' : x.key = j /\ x.by = e /\ x.t = t
    BY <1>4, <1>6, <2>3 DEF Abroad
  <2> QED BY <2>1, <2>2, <2>3 DEF Abroad
<1>9. \A e \in Device, j \in Key, t \in Nat :
         AtHome(e, j, t)' => AtHome(e, j, t) \/ (e = d /\ j = k /\ t = T)
  <2> SUFFICES ASSUME NEW e \in Device, NEW j \in Key, NEW t \in Nat, AtHome(e, j, t)'
               PROVE  AtHome(e, j, t) \/ (e = d /\ j = k /\ t = T)
    OBVIOUS
  <2>1. CASE row'[e][j].by = e /\ row'[e][j].t = t
    BY <1>5, <2>1 DEF AtHome
  <2>2. CASE \E q \in Proc : /\ Dev[q] = e /\ proc'[q].at \in PushStage
                             /\ \E x \in Held(q)' : x.key = j /\ x.by = e /\ x.t = t
    BY <1>4, <1>6, <2>2 DEF AtHome
  <2> QED BY <2>1, <2>2 DEF AtHome
<1>10. \A e \in Device \cup {NoDevice}, j \in Key, t \in Nat :
          Copy(e, j, t)' => Copy(e, j, t) \/ (e = d /\ j = k)
  <2> SUFFICES ASSUME NEW e \in Device \cup {NoDevice}, NEW j \in Key, NEW t \in Nat,
                      Copy(e, j, t)'
               PROVE  Copy(e, j, t) \/ (e = d /\ j = k)
    OBVIOUS
  <2>1. CASE \E x \in Device : row'[x][j].by = e /\ row'[x][j].t = t
    <3>1. PICK x \in Device : row'[x][j].by = e /\ row'[x][j].t = t
      BY <2>1
    <3>2. CASE x = d /\ j = k
      BY <1>5, <3>1, <3>2
    <3>3. CASE ~(x = d /\ j = k)
      <4>1. row'[x][j] = row[x][j]
        BY <1>5, <3>3
      <4> QED BY <3>1, <4>1 DEF Copy
    <3> QED BY <3>2, <3>3
  <2>2. CASE folder'[j].by = e /\ folder'[j].t = t
    BY <1>4, <2>2 DEF Copy
  <2>3. CASE \E q \in Proc : \E x \in Held(q)' : x.key = j /\ x.by = e /\ x.t = t
    BY <1>6, <2>3 DEF Copy
  <2> QED BY <2>1, <2>2, <2>3 DEF Copy
<1>11. \A e, t : Copy(e, k, t) => t <= latest[k].t
  <2> SUFFICES ASSUME NEW e, NEW t, Copy(e, k, t) PROVE t <= latest[k].t
    OBVIOUS
  <2>1. CASE \E x \in Device : row[x][k].by = e /\ row[x][k].t = t
    BY <2>1
  <2>2. CASE folder[k].by = e /\ folder[k].t = t
    BY <2>2
  <2>3. CASE \E q \in Proc : \E x \in Held(q) : x.key = k /\ x.by = e /\ x.t = t
    BY <2>3 DEF Held
  <2> QED BY <2>1, <2>2, <2>3 DEF Copy
<1>12. AbroadIsPublished'
  BY <1>7, <1>8 DEF EchoInv, AbroadIsPublished
<1>13. UnpublishedIsLast'
  <2> SUFFICES ASSUME NEW e \in Device, NEW j \in Key, NEW t \in Nat,
                      AtHome(e, j, t)', ~Published(e, j, t)
               PROVE  /\ latest'[j].by = e
                      /\ \A x \in (Device \cup {NoDevice}) \ {e}, u \in Nat :
                            Copy(x, j, u)' => u <= t
    BY <1>7 DEF UnpublishedIsLast
  <2>1. CASE j # k
    <3>1. AtHome(e, j, t) /\ latest'[j] = latest[j]
      BY <1>5, <1>9, <2>1
    <3>2. /\ latest[j].by = e
          /\ \A x \in (Device \cup {NoDevice}) \ {e}, u \in Nat : Copy(x, j, u) => u <= t
      BY <3>1 DEF EchoInv, UnpublishedIsLast
    <3> QED BY <1>10, <2>1, <3>1, <3>2
  <2>2. CASE j = k /\ e = d
    <3>1. \A x \in (Device \cup {NoDevice}) \ {e}, u \in Nat : Copy(x, j, u)' => Copy(x, j, u)
      BY <1>10, <2>2
    <3>2. CASE t = T
      <4> SUFFICES ASSUME NEW x \in (Device \cup {NoDevice}) \ {e}, NEW u \in Nat, Copy(x, k, u)
                   PROVE  u <= T
        BY <1>5, <2>2, <3>1, <3>2
      <4>1. u <= latest[k].t
        BY <1>11
      <4> QED BY <1>3, <4>1
    <3>3. CASE AtHome(e, j, t)
      BY <1>5, <2>2, <3>1, <3>3 DEF EchoInv, UnpublishedIsLast
    <3> QED BY <1>9, <2>2, <3>2, <3>3
  <2>3. CASE j = k /\ e # d
    <3>1. AtHome(e, k, t)
      BY <1>9, <2>3
    <3>2. latest[k].by = e
      BY <2>3, <3>1 DEF EchoInv, UnpublishedIsLast
    <3>3. latest[k] # NoRow
      BY <3>2, SyncAssumption DEF NoRow
    <3>4. row[d][k] = latest[k]
      BY <3>3
    <3>5. Abroad(e, k, latest[k].t)
      BY <2>3, <3>2, <3>4 DEF Abroad
    <3>6. Published(e, k, latest[k].t)
      BY <1>3, <3>5 DEF EchoInv, AbroadIsPublished
    <3>7. t <= latest[k].t
      <4>1. Copy(e, k, t)
        BY <3>1 DEF AtHome, Copy
      <4> QED BY <1>11, <4>1
    <3>8. Published(e, k, t)
      <4>1. CASE latest[k].t <= mirror[e][k]
        <5>1. mirror[e][k] \in Nat
          OBVIOUS
        <5> QED BY <1>3, <3>7, <4>1, <5>1 DEF Published
      <4>2. CASE \E q \in Proc : /\ Dev[q] = e /\ proc[q].at = "sent"
                                 /\ \E x \in proc[q].cur : x.key = k /\ latest[k].t <= x.t
        <5>1. PICK q \in Proc : /\ Dev[q] = e /\ proc[q].at = "sent"
                                /\ \E x \in proc[q].cur : x.key = k /\ latest[k].t <= x.t
          BY <4>2
        <5>2. PICK x \in proc[q].cur : x.key = k /\ latest[k].t <= x.t
          BY <5>1
        <5>3. x.t \in Nat
          OBVIOUS
        <5>4. t <= x.t
          BY <1>3, <3>7, <5>2, <5>3
        <5> QED BY <5>1, <5>2, <5>4 DEF Published
      <4> QED BY <3>6, <4>1, <4>2 DEF Published
    <3> QED BY <2>3, <3>8
  <2> QED BY <2>1, <2>2, <2>3
<1>14. Mirrored'
  <2> SUFFICES ASSUME NEW e \in Device, NEW j \in Key, row'[e][j].by # e,
                      ~(row'[e][j].t <= mirror[e][j])
               PROVE  \E q \in Proc : /\ Dev[q] = e /\ proc[q].at = "applied"
                                      /\ \E x \in proc[q].cur : x.key = j /\ row'[e][j].t <= x.t
    BY <1>4 DEF Mirrored
  <2>1. row'[e][j] = row[e][j]
    BY <1>5
  <2> QED BY <2>1 DEF EchoInv, Mirrored
<1>15. ASSUME NEW q \in Proc PROVE Pulling(q)' /\ Pushing(q)'
  <2>1. Pulling(q) /\ Pushing(q)
    BY DEF EchoInv
  <2> QED BY <1>4, <1>6, <2>1 DEF Pulling, Pushing, OnePerKey
<1>16. \A j \in Key : folder'[j].writer = folder'[j].by
  BY <1>4 DEF EchoInv
<1> QED BY <1>12, <1>13, <1>14, <1>15, <1>16 DEF EchoInv

LEMMA EchoInit == Init => EchoInv
<1> SUFFICES ASSUME Init PROVE EchoInv
  OBVIOUS
<1> USE SyncAssumption
<1>1. \A p \in Proc : proc[p].at = "idle" /\ Held(p) = {}
  BY DEF Init, Idle, Process, Held
<1>2. NoRow.by = NoDevice /\ NoRow.t = 0
  BY DEF NoRow
<1>3. \A d \in Device, k \in Key : row[d][k].by = NoDevice /\ row[d][k].t = 0 /\ mirror[d][k] = 0
  BY <1>2 DEF Init
<1>4. \A k \in Key : folder[k].by = NoDevice /\ folder[k].writer = NoDevice
  BY <1>2, ObjectParts DEF Init, NoObject
<1>5. AbroadIsPublished /\ UnpublishedIsLast
  BY <1>1, <1>3, <1>4 DEF AbroadIsPublished, UnpublishedIsLast, Abroad, AtHome
<1>6. Mirrored
  BY <1>3 DEF Mirrored
<1>7. \A p \in Proc : Pulling(p) /\ Pushing(p)
  BY <1>1 DEF Pulling, Pushing, PullStage, PushStage
<1> QED BY <1>4, <1>5, <1>6, <1>7 DEF EchoInv

\* One step, where edits are handed off, the processes of a device follow one
\* another and none dies before the mirror is written.
LEMMA EchoStep ==
    ASSUME IInv, EchoInv, handoff, OneAtATime, OneAtATime', [OrderlyAborts]_vars, [Next]_vars
    PROVE  EchoInv'
<1> USE TableFact, ProcFact
<1>1. ASSUME NEW d \in Device, NEW k \in Key, Create(d, k) \/ Edit(d, k) \/ Delete(d, k)
      PROVE  EchoInv'
  <2>1. Write(d, k, FALSE) \/ Write(d, k, row[d][k].del) \/ Write(d, k, TRUE)
    BY <1>1 DEF Create, Edit, Delete
  <2>2. latest[k] = NoRow \/ row[d][k] = latest[k]
    BY <1>1 DEF Create, Edit, Delete, MayEdit
  <2> QED BY <2>1, <2>2, EchoWrite
<1>2. ASSUME NEW p \in Proc, Push(p) PROVE EchoInv'
  <2>1. CASE PushMirror(p)
    <3>1. PICK o \in proc[p].cur : mirror' = [mirror EXCEPT ![Dev[p]][o.key] = o.t]
      BY <2>1 DEF PushMirror
    <3>2. /\ proc[p].at = "sent" /\ Becomes(p, "push", {}, proc[p].batch, {})
          /\ latest' = latest /\ row' = row /\ folder' = folder
      BY <2>1 DEF PushMirror, UnchangedByProc
    <3> QED BY <3>1, <3>2, EchoMirror
  <2>2. CASE PushDone(p)
    <3>1. /\ proc[p].at = "push" /\ Becomes(p, "idle", {}, {}, {})
          /\ latest' = latest /\ row' = row /\ mirror' = mirror /\ folder' = folder
      BY <2>2, IdleFact DEF PushDone, UnchangedByProc
    <3> QED BY <3>1, EchoRest
  <2> QED BY <1>2, <2>1, <2>2, EchoStart, EchoCheck, EchoSend DEF Push
<1>3. ASSUME NEW p \in Proc, Pull(p) PROVE EchoInv'
  <2>0. Pulling(p)
    BY DEF EchoInv
  <2>1. CASE ApplyGuarded(p)
    <3>1. PICK o \in proc[p].batch :
             /\ row' = [row EXCEPT ![Dev[p]][o.key] = Merge(row[Dev[p]][o.key], o)]
             /\ Becomes(p, "applied", {}, proc[p].batch, {o})
      BY <2>1 DEF ApplyGuarded, NextToApply
    <3>2. /\ proc[p].at = "apply"
          /\ latest' = latest /\ mirror' = mirror /\ folder' = folder
      BY <2>1 DEF ApplyGuarded, UnchangedByProc
    <3> DEFINE new == Merge(row[Dev[p]][o.key], o)
    <3>3. new = row[Dev[p]][o.key] \/ (new.by = o.by /\ new.t = o.t)
      BY DEF Merge, MergeLive, MergeTombstone, RowOf
    <3>4. row' = [row EXCEPT ![Dev[p]][o.key] = new]
      BY <3>1
    <3> HIDE DEF new
    <3>5. Becomes(p, "applied", {}, proc[p].batch, {o})
      BY <3>1
    <3> QED BY <3>2, <3>3, <3>4, <3>5, EchoApply
  <2>2. CASE ApplyMemoryUpsert(p)
    <3>1. PICK o \in proc[p].cur : row' = [row EXCEPT ![Dev[p]][o.key] = RowOf(o)]
      BY <2>2 DEF ApplyMemoryUpsert
    <3>2. /\ proc[p].at = "upsert" /\ Becomes(p, "applied", {}, proc[p].batch, proc[p].cur)
          /\ latest' = latest /\ mirror' = mirror /\ folder' = folder
      BY <2>2 DEF ApplyMemoryUpsert, UnchangedByProc
    <3>3. o \in proc[p].batch /\ proc[p].cur = {o}
      BY <2>0, <3>2 DEF Pulling, PullStage, OnePerKey
    <3> DEFINE new == RowOf(o)
    <3>4. new.by = o.by /\ new.t = o.t /\ row' = [row EXCEPT ![Dev[p]][o.key] = new]
      BY <3>1 DEF RowOf
    <3>5. Becomes(p, "applied", {}, proc[p].batch, {o})
      BY <3>2, <3>3
    <3> HIDE DEF new
    <3> QED BY <3>2, <3>3, <3>4, <3>5, EchoApply
  <2>3. CASE PullMirror(p)
    <3>1. PICK o \in proc[p].cur :
             /\ mirror' = [mirror EXCEPT ![Dev[p]][o.key] = o.t]
             /\ Becomes(p, "apply", {}, proc[p].batch \ {o}, {})
      BY <2>3 DEF PullMirror
    <3>2. /\ proc[p].at = "applied"
          /\ latest' = latest /\ row' = row /\ folder' = folder
      BY <2>3 DEF PullMirror, UnchangedByProc
    <3> DEFINE B == proc[p].batch \ {o}
    <3>3. B \subseteq proc[p].batch /\ \A q \in B : q.key # o.key
      BY <2>0, <3>2 DEF Pulling, PullStage, OnePerKey
    <3>4. Becomes(p, "apply", {}, B, {})
      BY <3>1
    <3> HIDE DEF B
    <3> QED BY <3>1, <3>2, <3>3, <3>4, EchoMirror
  <2>4. CASE PullDone(p)
    <3>1. /\ proc[p].at = "apply" /\ Becomes(p, "idle", {}, {}, {})
          /\ latest' = latest /\ row' = row /\ mirror' = mirror /\ folder' = folder
      BY <2>4, IdleFact DEF PullDone, UnchangedByProc
    <3> QED BY <3>1, EchoRest
  <2> QED BY <1>3, <2>1, <2>2, <2>3, <2>4, EchoList, EchoFetch, EchoSort, EchoMemoryCheck DEF Pull
<1>4. ASSUME NEW p \in Proc, Abort(p) PROVE EchoInv'
  <2>1. /\ proc[p].at # "idle" /\ Becomes(p, "idle", {}, {}, {})
        /\ latest' = latest /\ row' = row /\ mirror' = mirror /\ folder' = folder
    BY <1>4, IdleFact DEF Abort
  <2>2. proc'[p].at = "idle"
    BY <2>1, BecomesFact DEF IInv
  <2>3. proc' # proc
    BY <2>1, <2>2
  <2>4. proc[p].at \notin {"sent", "applied"}
    BY <2>2, <2>3 DEF OrderlyAborts, vars
  <2> QED BY <2>1, <2>4, EchoRest
<1>5. CASE UNCHANGED vars
  BY <1>5 DEF vars, EchoInv, AbroadIsPublished, UnpublishedIsLast, Mirrored, Abroad,
              AtHome, Published, Copy, Pulling, Pushing, OnePerKey, Held
<1> QED BY <1>1, <1>2, <1>3, <1>4, <1>5 DEF Next

\* Where edits are handed off, the processes of a device follow one another and
\* none dies between the transport or a row and the mirror, a device pushes
\* nothing but edits of its own: what the push reads (engine.rs) is either its
\* own or covered by the mirror, and its own is never older than what it finds.
THEOREM NothingIsEchoed ==
    Spec /\ []OneAtATime /\ [][OrderlyAborts]_vars => []NoEcho
<1> DEFINE Inv == IInv /\ (handoff => EchoInv)
<1>1. Init => Inv
  BY InitInv, EchoInit
<1>2. Inv /\ OneAtATime /\ OneAtATime' /\ [OrderlyAborts]_vars /\ [Next]_vars => Inv'
  <2> SUFFICES ASSUME Inv, OneAtATime, OneAtATime', [OrderlyAborts]_vars, [Next]_vars
               PROVE  Inv'
    OBVIOUS
  <2>1. IInv'
    BY NextInv
  <2>2. handoff' = handoff
    BY DEF Next, Create, Edit, Delete, Write, Push, Pull, PushStart, PushCheck, PushSend,
           PushMirror, PushDone, PullList, PullFetch, PullSort, ApplyGuarded,
           ApplyMemoryCheck, ApplyMemoryUpsert, PullMirror, PullDone, Abort,
           UnchangedByProc, vars
  <2>3. ASSUME handoff' PROVE EchoInv'
    BY <2>2, <2>3, EchoStep
  <2> QED BY <2>1, <2>3
<1>3. Inv => NoEcho
  BY DEF EchoInv, NoEcho
<1> HIDE DEF Inv
<1> QED BY <1>1, <1>2, <1>3, PTL DEF Spec
=============================================================================
