----------------------- MODULE ConversationSyncProofs -----------------------
(* ConversationSync for every set of devices and messages, on a shared or a  *)
(* replicated directory; Documents for every set of devices and number of    *)
(* sections; and what carries the objects, for any clients, threads, folders *)
(* and relays: an object that cannot be read is still owed by a client       *)
(* (MeshRelay, as R), and nothing goes to a public relay without consent     *)
(* (SyncTarget, as T).                                                       *)
EXTENDS SyncedDirectory, Integers, FiniteSetTheorems, TLAPS

IInv == TypeOK /\ NoForeignRemains

LEMMA RowFact ==
    ASSUME NEW t \in Nat, NEW del \in BOOLEAN, NEW sync \in BOOLEAN
    PROVE  /\ Row(t, del, sync) \in RowType
           /\ Row(t, del, sync).t = t /\ Row(t, del, sync).del = del
           /\ Live(Row(t, del, sync)) <=> t > 0 /\ ~del
  BY DEF Row, RowType, Live

\* What a device reads is a directory.
LEMMA DirFact ==
    ASSUME TypeOK, NEW d \in Device
    PROVE  /\ Dir(d) \in DirType
           /\ Dir(d).conv \in FileType /\ Dir(d).conv.t \in Nat
           /\ Dir(d).conv.del \in BOOLEAN
  BY DEF Dir, TypeOK, DirType, FileType

\* The row a pull leaves is a row, and when it is dead either it was dead before
\* or the tombstone has just cleared the messages.
LEMMA PulledFact ==
    ASSUME TypeOK, NEW d \in Device
    PROVE  /\ PulledRow(d) \in RowType
           /\ ~Live(PulledRow(d)) => ~Live(conv[d]) \/ KeptMessages(d) = {}
<1> DEFINE f == Dir(d).conv
<1>1. conv[d] \in RowType /\ conv[d].t \in Nat /\ conv[d].sync \in BOOLEAN
  BY DEF TypeOK, RowType
<1>2. f.t \in Nat /\ f.del \in BOOLEAN
  BY DirFact
<1>3. CASE ~ConvPending(d)
  <2>1. PulledRow(d) = conv[d]
    BY <1>3 DEF PulledRow
  <2> QED
    BY <1>1, <2>1
<1>4. CASE ConvPending(d) /\ f.del
  <2>1. PulledRow(d) = ApplyTombstone(conv[d], f) /\ KeptMessages(d) = {}
    BY <1>4 DEF PulledRow, KeptMessages
  <2>2. ApplyTombstone(conv[d], f) \in RowType
    BY <1>1, <1>2, RowFact DEF ApplyTombstone
  <2> QED
    BY <2>1, <2>2
<1>5. CASE ConvPending(d) /\ ~f.del
  <2>1. PulledRow(d) = ApplyConversation(conv[d], f)
    BY <1>5 DEF PulledRow
  <2>2. CASE f.t > conv[d].t
    <3>1. PulledRow(d) = Row(f.t, FALSE, TRUE)
      BY <2>1, <2>2 DEF ApplyConversation
    <3>2. f.t > 0
      BY <1>1, <1>2, <2>2
    <3> QED
      BY <1>2, <3>1, <3>2, RowFact
  <2>3. CASE ~(f.t > conv[d].t)
    BY <1>1, <2>1, <2>3 DEF ApplyConversation
  <2> QED
    BY <2>2, <2>3
<1> QED
  BY <1>2, <1>3, <1>4, <1>5

LEMMA InitInv == Init => IInv
<1> SUFFICES ASSUME Init PROVE IInv
  OBVIOUS
<1>1. NoConv \in RowType
  BY RowFact DEF NoConv
<1>2. folder \in DirType
  BY DEF Init, File, FileType, DirType
<1>3. TypeOK
  <2>1. [conv |-> 0, msgs |-> {}] \in [conv: Nat, msgs: SUBSET Msg]
    OBVIOUS
  <2>2. mirrored \in [Device -> [conv: Nat, msgs: SUBSET Msg]]
    BY <2>1 DEF Init
  <2>3. view \in [Device -> DirType]
    BY <1>2 DEF Init
  <2>4. conv \in [Device -> RowType] /\ msgs \in [Device -> SUBSET Msg]
    BY <1>1 DEF Init
  <2>5. /\ clock \in 0 .. MaxEdits /\ deletes \in 0 .. MaxDeletes
        /\ written \in SUBSET Msg /\ replicated \in BOOLEAN
    BY ConversationAssumption DEF Init
  <2> QED
    BY <1>2, <2>2, <2>3, <2>4, <2>5 DEF TypeOK
<1>4. NoForeignRemains
  BY DEF Init, NoForeignRemains
<1> QED
  BY <1>3, <1>4 DEF IInv

\* A write of the row that keeps the messages, or clears them, and keeps a dead
\* row dead only over its own device's messages.
LEMMA StoreInv ==
    ASSUME IInv, NEW d \in Device, Store(d)
    PROVE  IInv'
<1> USE ConversationAssumption
<1>1. conv[d] \in RowType /\ conv[d].t \in Nat /\ conv[d].del \in BOOLEAN /\ conv[d].sync \in BOOLEAN
  BY DEF IInv, TypeOK, RowType
<1>2. ASSUME NEW del \in BOOLEAN, NEW sync \in BOOLEAN, Stamp(d, del, sync)
      PROVE  /\ clock' \in 0 .. MaxEdits
             /\ conv' \in [Device -> RowType]
             /\ Live(conv'[d]) <=> ~del
             /\ \A e \in Device \ {d} : conv'[e] = conv[e]
  <2>1. clock + 1 \in Nat /\ clock + 1 > 0
    BY DEF IInv, TypeOK
  <2>2. conv' = [conv EXCEPT ![d] = Row(clock + 1, del, sync)]
    BY <1>2 DEF Stamp
  <2>3. clock' \in 0 .. MaxEdits
    BY <1>2 DEF Stamp, IInv, TypeOK
  <2> QED
    BY <2>1, <2>2, <2>3, RowFact DEF IInv, TypeOK
<1>3. CASE Create(d)
  <2>1. /\ Stamp(d, FALSE, FALSE)
        /\ UNCHANGED <<replicated, deletes, written, msgs, mirrored, folder, view>>
    BY <1>3 DEF Create
  <2> QED
    BY <1>2, <2>1 DEF IInv, TypeOK, NoForeignRemains
<1>4. CASE Rename(d) \/ \E sync \in BOOLEAN : SetSyncScope(d, sync)
  <2>1. PICK sync \in BOOLEAN : conv[d].t > 0 /\ Stamp(d, conv[d].del, sync)
    BY <1>1, <1>4 DEF Rename, SetSyncScope
  <2>2. UNCHANGED <<replicated, deletes, written, msgs, mirrored, folder, view>>
    BY <1>4 DEF Rename, SetSyncScope
  <2>3. Live(conv'[d]) <=> Live(conv[d])
    BY <1>1, <1>2, <2>1 DEF Live
  <2> QED
    BY <1>1, <1>2, <2>1, <2>2, <2>3 DEF IInv, TypeOK, NoForeignRemains
<1>5. CASE Delete(d)
  <2>1. Stamp(d, TRUE, conv[d].sync)
    BY <1>5 DEF Delete
  <2>2. deletes' \in 0 .. MaxDeletes /\ UNCHANGED <<replicated, written, mirrored, folder, view>>
    BY <1>5 DEF Delete, IInv, TypeOK
  <2>3. msgs' = [msgs EXCEPT ![d] = {}]
    BY <1>5 DEF Delete
  <2> QED
    BY <1>1, <1>2, <2>1, <2>2, <2>3 DEF IInv, TypeOK, NoForeignRemains
<1>6. CASE \E m \in Msg : Append(d, m)
  <2>1. PICK m \in Msg : Append(d, m)
    BY <1>6
  <2> QED
    BY <2>1 DEF Append, IInv, TypeOK, NoForeignRemains
<1> QED
  BY <1>3, <1>4, <1>5, <1>6 DEF Store

LEMMA PushInv ==
    ASSUME IInv, NEW d \in Device, Push(d)
    PROVE  IInv'
<1>1. conv[d].t \in Nat /\ conv[d].del \in BOOLEAN
  BY DEF IInv, TypeOK, RowType
<1>2. MsgsToPush(d) \subseteq Msg
  BY DEF IInv, TypeOK, MsgsToPush
<1>3. File(conv[d].t, conv[d].del, {d}) \in FileType
  BY <1>1 DEF File, FileType
<1>4. folder.conv \in FileType /\ folder.msgs \in SUBSET (Msg \X Device)
  BY DEF IInv, TypeOK, DirType
<1>5. folder' \in DirType
  BY <1>2, <1>3, <1>4 DEF Push, DirType
<1>6. mirrored' \in [Device -> [conv: Nat, msgs: SUBSET Msg]]
  BY <1>1, <1>2 DEF Push, IInv, TypeOK
<1> QED
  BY <1>5, <1>6 DEF Push, IInv, TypeOK, NoForeignRemains

LEMMA DeliverInv ==
    ASSUME IInv, NEW d \in Device, Deliver(d)
    PROVE  IInv'
<1>1. /\ folder.conv \in FileType /\ folder.msgs \in SUBSET (Msg \X Device)
      /\ view[d].conv \in FileType /\ view[d].msgs \in SUBSET (Msg \X Device)
  BY DEF IInv, TypeOK, DirType
<1>2. view' \in [Device -> DirType]
  <2>1. CASE DeliverConv(d)
    BY <1>1, <2>1 DEF DeliverConv, IInv, TypeOK, DirType
  <2>2. CASE \E f \in folder.msgs : DeliverMsg(d, f)
    BY <1>1, <2>2 DEF DeliverMsg, IInv, TypeOK, DirType
  <2> QED
    BY <2>1, <2>2 DEF Deliver
<1>3. UNCHANGED <<replicated, clock, deletes, written, conv, msgs, mirrored, folder>>
  BY DEF Deliver, DeliverConv, DeliverMsg
<1> QED
  BY <1>2, <1>3 DEF IInv, TypeOK, NoForeignRemains

LEMMA PullInv ==
    ASSUME IInv, NEW d \in Device, Pull(d)
    PROVE  IInv'
<1>1. MsgsPending(d) \subseteq Msg /\ KeptMessages(d) \subseteq msgs[d]
      /\ LandedMessages(d) \subseteq Msg /\ msgs[d] \subseteq Msg
  BY DEF MsgsPending, KeptMessages, LandedMessages, IInv, TypeOK
<1>2. PulledRow(d) \in RowType
      /\ (~Live(PulledRow(d)) => ~Live(conv[d]) \/ KeptMessages(d) = {})
  BY PulledFact DEF IInv
<1>3. conv' = [conv EXCEPT ![d] = PulledRow(d)]
      /\ msgs' = [msgs EXCEPT ![d] = KeptMessages(d) \cup LandedMessages(d)]
  BY DEF Pull
<1>4. mirrored' \in [Device -> [conv: Nat, msgs: SUBSET Msg]]
  BY <1>1, DirFact DEF Pull, IInv, TypeOK
<1>5. TypeOK'
  BY <1>1, <1>2, <1>3, <1>4 DEF Pull, IInv, TypeOK
<1>6. ~Live(PulledRow(d)) =>
        \A m \in KeptMessages(d) \cup LandedMessages(d) : Author[m] = d
  BY <1>1, <1>2 DEF LandedMessages, IInv, NoForeignRemains
<1>7. NoForeignRemains'
  BY <1>3, <1>6 DEF IInv, TypeOK, NoForeignRemains
<1> QED
  BY <1>5, <1>7 DEF IInv

LEMMA Invariance == Spec => []IInv
<1>1. ASSUME IInv, [Next]_vars PROVE IInv'
  <2>1. ASSUME Next PROVE IInv'
    BY <1>1, <2>1, StoreInv, PushInv, DeliverInv, PullInv DEF Next
  <2>2. ASSUME UNCHANGED vars PROVE IInv'
    BY <1>1, <2>2 DEF IInv, TypeOK, NoForeignRemains, vars
  <2> QED
    BY <1>1, <2>1, <2>2
<1> QED
  BY <1>1, InitInv, PTL DEF Spec

\* Whatever order the files of a conversation arrive in, no device keeps another
\* device's message under a conversation that is absent or deleted there.
THEOREM NoForeignMessageRemains == Spec => []NoForeignRemains
<1>1. IInv => NoForeignRemains
  BY DEF IInv
<1> QED
  BY <1>1, Invariance, PTL

-----------------------------------------------------------------------------
(* Documents.  What an ingest has stored and what it has yet to store is   *)
(* the content, whoever has the document has it all until somebody deletes *)
(* or dies, and a deletion that meets nobody halfway leaves nothing.       *)

DocRows == [t : 0 .. MaxWrites, del : BOOLEAN, sync : BOOLEAN]
DocFiles == [t : 0 .. MaxWrites, del : BOOLEAN, secs : SUBSET D!Section,
             writer : SUBSET Device]
DocTyped ==
    /\ docClock \in 0 .. MaxWrites /\ docDeletes \in Nat /\ crashes \in Nat
    /\ content \subseteq D!Section
    /\ row \in [Device -> DocRows]
    /\ secs \in [Device -> SUBSET D!Section] /\ fts \in [Device -> SUBSET D!Section]
    /\ ingesting \in [Device -> SUBSET D!Section]
    /\ applying \in [Device -> SUBSET DocFiles]
    /\ \A d \in Device : applying[d] = {} \/ \E f \in DocFiles : applying[d] = {f}
    /\ docMirrored \in [Device -> 0 .. MaxWrites]
    /\ file \in DocFiles
    /\ raced \in [Device -> BOOLEAN]

Searchable(d) ==
    /\ fts[d] \subseteq secs[d]
    /\ row[d].t = 0 => secs[d] = {} /\ ingesting[d] = {}
    /\ row[d].sync => ingesting[d] = {}
    /\ row[d].del /\ ~raced[d] =>
          /\ secs[d] = {} /\ ingesting[d] = {}
          /\ \A f \in applying[d] : f.t > row[d].t
    /\ row[d].t <= docClock
    /\ \A f \in applying[d] : ~f.del /\ f.t > 0 /\ f.t <= docClock

Unharmed == docDeletes = 0 /\ crashes = 0
Complete(d) ==
    /\ ~row[d].del
    /\ row[d].t > 0 => fts[d] = secs[d] /\ fts[d] \cup ingesting[d] = content
    /\ \A f \in applying[d] : f.secs = content

DInv ==
    /\ DocTyped
    /\ file.t <= docClock
    /\ \A d \in Device : Searchable(d)
    /\ Unharmed => /\ ~file.del /\ (file.t > 0 => file.secs = content)
                   /\ \A d \in Device : Complete(d)

LEMMA DFields ==
  ASSUME MaxWrites \in Nat
  PROVE
  /\ \A t \in 0 .. MaxWrites, del \in BOOLEAN, sync \in BOOLEAN :
        /\ D!Row(t, del, sync) \in DocRows
        /\ D!Row(t, del, sync).t = t /\ D!Row(t, del, sync).del = del
        /\ D!Row(t, del, sync).sync = sync
  /\ \A r \in DocRows : r.t \in 0 .. MaxWrites /\ r.t \in Nat /\ r.del \in BOOLEAN /\ r.sync \in BOOLEAN
  /\ \A f \in DocFiles : /\ f.t \in 0 .. MaxWrites /\ f.t \in Nat /\ f.del \in BOOLEAN
                         /\ f.secs \subseteq D!Section
<1>1. ASSUME NEW t \in 0 .. MaxWrites, NEW del \in BOOLEAN, NEW sync \in BOOLEAN
      PROVE  /\ D!Row(t, del, sync) \in DocRows
             /\ D!Row(t, del, sync).t = t /\ D!Row(t, del, sync).del = del
             /\ D!Row(t, del, sync).sync = sync
  BY DEF D!Row, DocRows
<1>2. \A r \in DocRows : r.t \in 0 .. MaxWrites /\ r.t \in Nat /\ r.del \in BOOLEAN /\ r.sync \in BOOLEAN
  BY DEF DocRows
<1>3. \A f \in DocFiles : /\ f.t \in 0 .. MaxWrites /\ f.t \in Nat /\ f.del \in BOOLEAN
                          /\ f.secs \subseteq D!Section
  BY DEF DocFiles
<1> QED BY <1>1, <1>2, <1>3

\* What a device has, one by one.
LEMMA DHeld ==
  ASSUME DocTyped, MaxWrites \in Nat, NEW d \in Device
  PROVE  /\ row[d] \in DocRows /\ row[d].t \in 0 .. MaxWrites /\ row[d].t \in Nat
         /\ row[d].del \in BOOLEAN /\ row[d].sync \in BOOLEAN
         /\ docClock \in Nat /\ file.t \in 0 .. MaxWrites /\ file.t \in Nat
         /\ secs[d] \subseteq D!Section /\ fts[d] \subseteq D!Section
         /\ \A f \in applying[d] : f \in DocFiles /\ f.t \in 0 .. MaxWrites /\ f.t \in Nat
                                    /\ f.secs \subseteq D!Section
<1>1. row[d] \in DocRows /\ file \in DocFiles /\ applying[d] \subseteq DocFiles
      /\ docClock \in 0 .. MaxWrites /\ secs[d] \subseteq D!Section /\ fts[d] \subseteq D!Section
  BY DEF DocTyped
<1>2. docClock \in Nat
  BY <1>1
<1> QED BY <1>1, <1>2, DFields

LEMMA DPayload ==
  ASSUME NEW t \in 0 .. MaxWrites, NEW del \in BOOLEAN, NEW s \in SUBSET D!Section,
         NEW w \in SUBSET Device
  PROVE  /\ D!Payload(t, del, s, w) \in DocFiles
         /\ D!Payload(t, del, s, w).t = t /\ D!Payload(t, del, s, w).del = del
         /\ D!Payload(t, del, s, w).secs = s
  BY DEF D!Payload, DocFiles

LEMMA DInitInv == ASSUME D!Init, MaxWrites \in Nat PROVE DInv
<1>1. 0 \in 0 .. MaxWrites /\ {} \in SUBSET D!Section /\ {} \in SUBSET Device
  OBVIOUS
<1>2. D!NoRow \in DocRows /\ D!NoRow.t = 0 /\ D!NoRow.del = FALSE /\ D!NoRow.sync = FALSE
  BY <1>1 DEF D!NoRow, D!Row, DocRows
<1>3. file \in DocFiles /\ file.t = 0 /\ file.del = FALSE
  BY <1>1 DEF D!Init, D!Payload, DocFiles
<1>4. DocTyped
  BY <1>1, <1>2, <1>3 DEF D!Init, DocTyped
<1>5. \A d \in Device : /\ row[d].t = 0 /\ ~row[d].del /\ ~row[d].sync /\ secs[d] = {}
                        /\ fts[d] = {} /\ ingesting[d] = {} /\ applying[d] = {}
  BY <1>2 DEF D!Init
<1>6. (\A d \in Device : Searchable(d) /\ Complete(d)) /\ docClock = 0
  BY <1>5 DEF D!Init, Searchable, Complete
<1> QED BY <1>3, <1>4, <1>6 DEF DInv

\* A step of d leaves the others as they are, and the content.
LEMMA DStep ==
  ASSUME DInv, MaxWrites \in Nat, NEW d \in Device, DocTyped', docClock <= docClock',
         content' = content \/ docClock = 0,
         \A e \in Device \ {d} :
            /\ row'[e] = row[e] /\ secs'[e] = secs[e] /\ fts'[e] = fts[e]
            /\ ingesting'[e] = ingesting[e] /\ applying'[e] = applying[e]
            /\ raced'[e] = raced[e],
         file'.t <= docClock', Searchable(d)',
         Unharmed' => Unharmed,
         Unharmed' => ~file'.del /\ (file'.t > 0 => file'.secs = content') /\ Complete(d)'
  PROVE  DInv'
<1>1. DocTyped /\ (\A e \in Device : Searchable(e)) /\ (Unharmed => \A e \in Device : Complete(e))
  BY DEF DInv
<1>0. docClock \in Nat /\ docClock' \in Nat
  BY <1>1 DEF DocTyped
<1>2. ASSUME NEW e \in Device, e # d PROVE Searchable(e)'
  <2>1. /\ Searchable(e) /\ row[e].t \in Nat /\ \A f \in applying[e] : f.t \in Nat
        /\ row'[e] = row[e] /\ secs'[e] = secs[e] /\ fts'[e] = fts[e]
        /\ ingesting'[e] = ingesting[e] /\ applying'[e] = applying[e] /\ raced'[e] = raced[e]
    BY <1>1, <1>2, DHeld
  <2> QED BY <1>0, <2>1 DEF Searchable
<1>3. ASSUME NEW e \in Device, e # d, Unharmed' PROVE Complete(e)'
  <2>1. /\ Complete(e) /\ Searchable(e) /\ row[e].t \in Nat /\ \A f \in applying[e] : f.t \in Nat
        /\ row'[e] = row[e] /\ secs'[e] = secs[e] /\ fts'[e] = fts[e]
        /\ ingesting'[e] = ingesting[e] /\ applying'[e] = applying[e]
    BY <1>1, <1>3, DHeld
  <2>2. docClock = 0 => row[e].t = 0 /\ \A f \in applying[e] : FALSE
    BY <1>0, <2>1 DEF Searchable
  <2> QED BY <2>1, <2>2 DEF Complete
<1> QED BY <1>2, <1>3 DEF DInv
\* The user's side: ingest, scope and delete.
LEMMA DUser ==
  ASSUME DInv, MaxWrites \in Nat \ {0}, NEW d \in Device,
         D!Ingest(d) \/ D!StoreSection(d) \/ \E sync \in BOOLEAN : D!SetSyncScope(d, sync)
  PROVE  DInv'
<1>1. /\ DocTyped /\ Searchable(d) /\ (Unharmed => Complete(d)) /\ MaxWrites \in Nat
      /\ row[d] \in DocRows /\ row[d].t \in 0 .. MaxWrites /\ row[d].del \in BOOLEAN
      /\ row[d].sync \in BOOLEAN /\ file.t <= docClock /\ file.t \in 0 .. MaxWrites
      /\ docClock \in 0 .. MaxWrites /\ docClock \in Nat
  <2>1. DocTyped /\ Searchable(d) /\ (Unharmed => Complete(d)) /\ file.t <= docClock
    BY DEF DInv
  <2> QED BY <2>1, DHeld DEF DocTyped
<1>2. CASE D!Ingest(d)
  <2>1. /\ docClock = 0 /\ docClock' = 1
        /\ content' \in SUBSET D!Section
        /\ row' = [row EXCEPT ![d] = D!Row(1, FALSE, FALSE)]
        /\ ingesting' = [ingesting EXCEPT ![d] = content']
        /\ UNCHANGED <<docDeletes, crashes, secs, fts, applying, docMirrored, file, raced>>
    BY <1>2 DEF D!Ingest, D!Extracted, D!index, D!shared
  <2>0. 1 \in 0 .. MaxWrites
    BY DEF DocRows
  <2>2. /\ D!Row(1, FALSE, FALSE) \in DocRows
        /\ D!Row(1, FALSE, FALSE).t = 1 /\ ~D!Row(1, FALSE, FALSE).del
        /\ ~D!Row(1, FALSE, FALSE).sync
    BY <1>1, <2>0, DFields
  <2>3. DocTyped'
    <3>1. docClock' \in 0 .. MaxWrites /\ row' \in [Device -> DocRows]
          /\ ingesting' \in [Device -> SUBSET D!Section]
      BY <1>1, <2>0, <2>1, <2>2 DEF DocTyped
    <3> QED BY <1>1, <2>1, <3>1 DEF DocTyped
  <2>4. /\ row'[d] = D!Row(1, FALSE, FALSE) /\ ingesting'[d] = content'
        /\ secs[d] = {} /\ fts[d] = {} /\ file.t = 0 /\ applying[d] = {}
    <3>1. row[d].t = 0 /\ file.t = 0
      BY <1>1, <2>1 DEF Searchable
    <3>2. \A f \in applying[d] : f.t \in Nat
      BY <1>1, DHeld
    <3>3. applying[d] = {}
      BY <1>1, <2>1, <3>2 DEF Searchable
    <3> QED BY <1>1, <2>1, <3>1, <3>3 DEF Searchable, DocTyped
  <2>9. /\ row'[d].t = 1 /\ ~row'[d].del /\ ~row'[d].sync /\ docClock' = 1 /\ secs'[d] = {}
        /\ fts'[d] = {} /\ applying'[d] = {} /\ file' = file /\ file'.t <= docClock'
        /\ docClock <= docClock' /\ ingesting'[d] = content'
    <3>1. PICK new : new = D!Row(1, FALSE, FALSE)
      OBVIOUS
    <3>2. row'[d] = new /\ new.t = 1 /\ ~new.del /\ ~new.sync
      BY <2>2, <2>4, <3>1
    <3>3. file'.t <= docClock' /\ docClock <= docClock' /\ file' = file
      BY <2>1, <2>4
    <3> QED BY <2>1, <2>4, <3>2, <3>3
  <2>5. Searchable(d)'
    BY <2>9 DEF Searchable
  <2>6. Complete(d)'
    BY <2>9 DEF Complete
  <2>7. Unharmed' => Unharmed /\ ~file'.del
    BY <2>1 DEF Unharmed, DInv
  <2>8. \A e \in Device \ {d} :
          /\ row'[e] = row[e] /\ secs'[e] = secs[e] /\ fts'[e] = fts[e]
          /\ ingesting'[e] = ingesting[e] /\ applying'[e] = applying[e] /\ raced'[e] = raced[e]
    BY <1>1, <2>1 DEF DocTyped
  <2>10. file.t = 0 /\ (content' = content \/ docClock = 0)
    BY <2>1, <2>4
  <2> QED BY <1>1, <2>3, <2>5, <2>6, <2>7, <2>8, <2>9, <2>10, DStep
<1>3. CASE D!StoreSection(d)
  <2>1. PICK x \in ingesting[d] :
          \/ /\ crashes' = crashes /\ applying' = applying
             /\ ingesting' = [ingesting EXCEPT ![d] = @ \ {x}]
             /\ fts' = [fts EXCEPT ![d] = fts[d] \cup {x}]
             /\ secs' = [secs EXCEPT ![d] = secs[d] \cup {x}]
          \/ /\ crashes' = crashes + 1 /\ applying' = [applying EXCEPT ![d] = {}]
             /\ ingesting' = [ingesting EXCEPT ![d] = {}]
             /\ fts' = [fts EXCEPT ![d] = fts[d]]
             /\ secs' = [secs EXCEPT ![d] = secs[d] \cup {x}]
    BY <1>3 DEF D!StoreSection, D!Lives, D!Dies, D!Indexed
  <2>2. UNCHANGED <<docClock, docDeletes, content, row, docMirrored, file, raced>>
    BY <1>3 DEF D!StoreSection, D!shared
  <2>3. /\ secs'[d] = secs[d] \cup {x}
        /\ \/ /\ crashes' = crashes /\ applying'[d] = applying[d]
              /\ ingesting'[d] = ingesting[d] \ {x} /\ fts'[d] = fts[d] \cup {x}
           \/ /\ crashes' = crashes + 1 /\ applying'[d] = {}
              /\ ingesting'[d] = {} /\ fts'[d] = fts[d]
        /\ \A e \in Device \ {d} : /\ secs'[e] = secs[e] /\ fts'[e] = fts[e]
                                   /\ ingesting'[e] = ingesting[e]
                                   /\ applying'[e] = applying[e]
    BY <1>1, <2>1 DEF DocTyped
  <2>4. x \in D!Section /\ row[d].t # 0 /\ ~row[d].sync /\ (row[d].del => raced[d])
    BY <1>1, <2>1 DEF Searchable, DocTyped
  <2>5. DocTyped'
    <3>1. crashes' \in Nat /\ applying' \in [Device -> SUBSET DocFiles]
          /\ \A e \in Device : applying'[e] = {} \/ \E f \in DocFiles : applying'[e] = {f}
      BY <1>1, <2>1, <2>3 DEF DocTyped
    <3>2. /\ secs' \in [Device -> SUBSET D!Section] /\ fts' \in [Device -> SUBSET D!Section]
          /\ ingesting' \in [Device -> SUBSET D!Section]
      BY <1>1, <2>1, <2>4 DEF DocTyped
    <3> QED BY <1>1, <2>2, <3>1, <3>2 DEF DocTyped
  <2>6. Searchable(d)'
    BY <1>1, <2>2, <2>3, <2>4 DEF Searchable
  <2>7. Unharmed' => Unharmed /\ crashes' = crashes
    BY <1>1, <2>2, <2>3 DEF Unharmed, DocTyped
  <2>8. Unharmed' => Complete(d)'
    <3>1. crashes' = crashes + 1 => crashes' # crashes
      BY <1>1 DEF DocTyped
    <3> QED BY <1>1, <2>1, <2>2, <2>3, <2>7, <3>1 DEF Complete
  <2>9. Unharmed => ~file.del /\ (file.t > 0 => file.secs = content)
    BY DEF DInv
  <2> QED BY <1>1, <2>2, <2>3, <2>5, <2>6, <2>7, <2>8, <2>9, DStep
<1>4. ASSUME NEW sync \in BOOLEAN, D!SetSyncScope(d, sync) PROVE DInv'
  <2>1. /\ row[d].t > 0 /\ ingesting[d] = {} /\ docClock < MaxWrites /\ docClock' = docClock + 1
        /\ row' = [row EXCEPT ![d] = D!Row(docClock', row[d].del, sync)]
        /\ raced' = IF row[d].del THEN [raced EXCEPT ![d] = raced[d] \/ D!Busy(d)] ELSE raced
        /\ UNCHANGED <<docDeletes, crashes, content, secs, fts, ingesting, applying,
                       docMirrored, file>>
    BY <1>4 DEF D!SetSyncScope, D!Raced, D!index, D!shared
  <2>2. docClock' \in 0 .. MaxWrites /\ docClock' > 0 /\ docClock <= docClock'
    BY <1>1, <2>1
  <2>3. PICK new \in DocRows : /\ new = D!Row(docClock', row[d].del, sync) /\ new.t = docClock'
                              /\ new.del = row[d].del /\ new.sync = sync
    <3>1. PICK t, del : t = docClock' /\ del = row[d].del
      OBVIOUS
    <3>2. t \in 0 .. MaxWrites /\ del \in BOOLEAN
      BY <1>1, <2>2, <3>1
    <3>3. /\ D!Row(t, del, sync) \in DocRows /\ D!Row(t, del, sync).t = t
          /\ D!Row(t, del, sync).del = del /\ D!Row(t, del, sync).sync = sync
      BY <1>1, <3>2, DFields
    <3> QED BY <3>1, <3>3
  <2>4. /\ row' \in [Device -> DocRows] /\ row'[d] = new
        /\ raced' \in [Device -> BOOLEAN]
        /\ row[d].del => (raced'[d] <=> raced[d] \/ D!Busy(d))
        /\ \A e \in Device \ {d} : row'[e] = row[e] /\ raced'[e] = raced[e]
    <3>1. row' \in [Device -> DocRows] /\ row'[d] = new /\ \A e \in Device \ {d} : row'[e] = row[e]
      BY <1>1, <2>1, <2>3 DEF DocTyped
    <3>2. (raced[d] \/ D!Busy(d)) \in BOOLEAN
      BY DEF D!Busy
    <3>3. /\ raced' \in [Device -> BOOLEAN]
          /\ row[d].del => (raced'[d] <=> raced[d] \/ D!Busy(d))
          /\ \A e \in Device \ {d} : raced'[e] = raced[e]
      BY <1>1, <2>1, <3>2 DEF DocTyped
    <3> QED BY <3>1, <3>3
  <2>5. DocTyped'
    BY <1>1, <2>1, <2>2, <2>4 DEF DocTyped
  <2>6. Searchable(d)'
    <3>1. \A f \in applying[d] : f.t \in Nat /\ f.t <= docClock'
      BY <1>1, <2>2, DHeld DEF Searchable
    <3>2. row'[d].del /\ ~raced'[d] => ~D!Busy(d) /\ row[d].del /\ ~raced[d]
      BY <2>3, <2>4
    <3>3. row'[d].t # 0 /\ row'[d].t <= docClock'
      BY <2>2, <2>3, <2>4
    <3> QED BY <1>1, <2>1, <3>1, <3>2, <3>3 DEF Searchable, D!Busy
  <2>7. (Unharmed' => Unharmed) /\ (Unharmed => Complete(d)')
    BY <1>1, <2>1, <2>3, <2>4 DEF Unharmed, Complete
  <2>8. Unharmed => ~file.del /\ (file.t > 0 => file.secs = content)
    BY DEF DInv
  <2>9. file'.t <= docClock'
    BY <1>1, <2>1, <2>2
  <2> QED BY <1>1, <2>1, <2>2, <2>4, <2>5, <2>6, <2>7, <2>8, <2>9, DStep
<1> QED BY <1>2, <1>3, <1>4

LEMMA DDeletes == ASSUME DInv, MaxWrites \in Nat \ {0}, NEW d \in Device, D!Delete(d) PROVE DInv'
<1>1. /\ DocTyped /\ Searchable(d) /\ MaxWrites \in Nat
      /\ row[d] \in DocRows /\ row[d].t \in 0 .. MaxWrites /\ row[d].sync \in BOOLEAN
      /\ file.t <= docClock /\ file.t \in 0 .. MaxWrites
      /\ docClock \in 0 .. MaxWrites /\ docClock \in Nat
  <2>1. DocTyped /\ Searchable(d) /\ file.t <= docClock
    BY DEF DInv
  <2> QED BY <2>1, DHeld DEF DocTyped
<1>2. /\ row[d].t > 0 /\ ~row[d].del /\ docClock < MaxWrites /\ docClock' = docClock + 1
      /\ docDeletes' = docDeletes + 1
      /\ raced' = [raced EXCEPT ![d] = raced[d] \/ D!Busy(d)]
      /\ UNCHANGED <<content, docMirrored, file>>
  BY DEF D!Delete, D!Raced, D!shared
<1>3. /\ docClock' \in 0 .. MaxWrites /\ docClock' > 0 /\ docClock <= docClock'
      /\ docClock' # 0 /\ docClock' <= docClock'
  BY <1>1, <1>2
<1>4. PICK new \in DocRows : /\ new = D!Row(docClock', TRUE, row[d].sync) /\ new.t = docClock'
                            /\ new.sync = row[d].sync /\ new.del
  <2>1. PICK t, sync : t = docClock' /\ sync = row[d].sync
    OBVIOUS
  <2>2. t \in 0 .. MaxWrites /\ sync \in BOOLEAN
    BY <1>1, <1>3, <2>1
  <2>3. /\ D!Row(t, TRUE, sync) \in DocRows /\ D!Row(t, TRUE, sync).t = t
        /\ D!Row(t, TRUE, sync).del /\ D!Row(t, TRUE, sync).sync = sync
    BY <1>1, <2>2, DFields
  <2> QED BY <2>1, <2>3
<1>5. \/ /\ crashes' = crashes /\ row' = [row EXCEPT ![d] = new]
         /\ secs' = [secs EXCEPT ![d] = {}] /\ fts' = [fts EXCEPT ![d] = {}]
         /\ UNCHANGED <<ingesting, applying>>
      \/ /\ crashes' = crashes + 1 /\ row' = row
         /\ ingesting' = [ingesting EXCEPT ![d] = {}]
         /\ applying' = [applying EXCEPT ![d] = {}]
         /\ fts' = [fts EXCEPT ![d] = {}]
         /\ secs' = [secs EXCEPT ![d] = secs[d]] \/ secs' = [secs EXCEPT ![d] = {}]
  BY <1>2, <1>4 DEF D!Delete, D!Lives, D!Dies, D!Indexed
<1>6. /\ raced' \in [Device -> BOOLEAN] /\ (raced'[d] <=> raced[d] \/ D!Busy(d))
      /\ \A e \in Device \ {d} : raced'[e] = raced[e]
  <2>1. (raced[d] \/ D!Busy(d)) \in BOOLEAN
    BY DEF D!Busy
  <2> QED BY <1>1, <1>2, <2>1 DEF DocTyped
<1>7. /\ row' \in [Device -> DocRows] /\ secs' \in [Device -> SUBSET D!Section]
      /\ fts' \in [Device -> SUBSET D!Section] /\ ingesting' \in [Device -> SUBSET D!Section]
      /\ applying' \in [Device -> SUBSET DocFiles] /\ crashes' \in Nat
      /\ \A e \in Device : applying'[e] = {} \/ \E f \in DocFiles : applying'[e] = {f}
  BY <1>1, <1>5 DEF DocTyped
<1>8. DocTyped'
  BY <1>1, <1>2, <1>3, <1>6, <1>7 DEF DocTyped
<1>9. \A e \in Device \ {d} :
        /\ row'[e] = row[e] /\ secs'[e] = secs[e] /\ fts'[e] = fts[e]
        /\ ingesting'[e] = ingesting[e] /\ applying'[e] = applying[e]
  BY <1>1, <1>5 DEF DocTyped
<1>10. \A f \in applying[d] : f.t \in Nat /\ f.t <= docClock'
  BY <1>1, <1>3, DHeld DEF Searchable
<1>11. Searchable(d)'
  <2>1. CASE /\ row' = [row EXCEPT ![d] = new]
             /\ secs' = [secs EXCEPT ![d] = {}] /\ fts' = [fts EXCEPT ![d] = {}]
             /\ UNCHANGED <<ingesting, applying>>
    <3>1. /\ row'[d] = new /\ secs'[d] = {} /\ fts'[d] = {} /\ ingesting'[d] = ingesting[d]
          /\ applying'[d] = applying[d]
      BY <1>1, <2>1 DEF DocTyped
    <3>2. new.t # 0 /\ new.t <= docClock'
      <4>1. new.t = docClock'
        BY <1>4
      <4> QED BY <1>3, <4>1
    <3> QED BY <1>1, <1>4, <1>6, <1>10, <3>1, <3>2 DEF Searchable, D!Busy
  <2>2. CASE /\ row' = row
             /\ ingesting' = [ingesting EXCEPT ![d] = {}]
             /\ applying' = [applying EXCEPT ![d] = {}]
             /\ fts' = [fts EXCEPT ![d] = {}]
             /\ secs' = [secs EXCEPT ![d] = secs[d]] \/ secs' = [secs EXCEPT ![d] = {}]
    <3>1. row'[d] = row[d] /\ fts'[d] = {} /\ ingesting'[d] = {} /\ applying'[d] = {}
      BY <1>1, <2>2 DEF DocTyped
    <3>2. row[d].t # 0 /\ row[d].t <= docClock'
      BY <1>1, <1>2, <1>3 DEF Searchable
    <3> QED BY <1>2, <3>1, <3>2 DEF Searchable
  <2> QED BY <1>5, <2>1, <2>2
<1>12. ~Unharmed'
  BY <1>1, <1>2 DEF Unharmed, DocTyped
<1>13. file'.t <= docClock'
  BY <1>1, <1>2, <1>3
<1> QED BY <1>1, <1>2, <1>3, <1>6, <1>8, <1>9, <1>11, <1>12, <1>13, DStep

LEMMA DPush == ASSUME DInv, MaxWrites \in Nat \ {0}, NEW d \in Device, D!Push(d) PROVE DInv'
<1>1. /\ DocTyped /\ Searchable(d) /\ (Unharmed => Complete(d)) /\ MaxWrites \in Nat
  BY DEF DInv
<1>2. /\ row[d].t \in 0 .. MaxWrites /\ row[d].t \in Nat /\ row[d].del \in BOOLEAN
      /\ secs[d] \subseteq D!Section /\ docMirrored[d] \in Nat
  <2>1. docMirrored[d] \in 0 .. MaxWrites
    BY <1>1 DEF DocTyped
  <2> QED BY <1>1, <2>1, DHeld
<1>3. PICK s : s = IF row[d].del THEN {} ELSE secs[d]
  OBVIOUS
<1>4. PICK new : new = D!Payload(row[d].t, row[d].del, s, {d})
  OBVIOUS
<1>5. /\ new \in DocFiles /\ new.t = row[d].t /\ new.del = row[d].del /\ new.secs = s
  <2>1. PICK t, del : t = row[d].t /\ del = row[d].del
    OBVIOUS
  <2>2. s \in SUBSET D!Section /\ {d} \in SUBSET Device
    BY <1>2, <1>3
  <2>3. D!Payload(t, del, s, {d}) \in DocFiles /\ D!Payload(t, del, s, {d}).t = t
        /\ D!Payload(t, del, s, {d}).del = del /\ D!Payload(t, del, s, {d}).secs = s
    BY <1>2, <2>1, <2>2, DPayload
  <2> QED BY <1>4, <2>1, <2>3
<1>6. /\ row[d].sync /\ row[d].t > docMirrored[d] /\ file' = new
      /\ docMirrored' = [docMirrored EXCEPT ![d] = row[d].t]
      /\ UNCHANGED <<docClock, docDeletes, crashes, content, row, secs, fts, ingesting, applying,
                     raced>>
  BY <1>3, <1>4 DEF D!Push, D!index
<1>7. DocTyped'
  <2>1. docMirrored' \in [Device -> 0 .. MaxWrites] /\ file' \in DocFiles
    BY <1>1, <1>2, <1>5, <1>6 DEF DocTyped
  <2> QED BY <1>1, <1>6, <2>1 DEF DocTyped
<1>8. file'.t <= docClock' /\ docClock <= docClock' /\ Searchable(d)'
  <2>1. docClock \in Nat
    BY <1>1, DHeld
  <2>2. new.t <= docClock
    BY <1>1, <1>5 DEF Searchable
  <2> QED BY <1>1, <1>6, <2>1, <2>2 DEF Searchable
<1>9. Unharmed' => Unharmed /\ ~file'.del /\ (file'.t > 0 => file'.secs = content') /\ Complete(d)'
  <2>1. (Unharmed' => Unharmed) /\ (Unharmed => Complete(d)')
    BY <1>1, <1>6 DEF Unharmed, Complete
  <2>2. ASSUME Unharmed PROVE ~file'.del /\ file'.secs = content'
    <3>1. ~row[d].del /\ secs[d] = fts[d] /\ fts[d] \cup ingesting[d] = content
      BY <1>1, <1>2, <1>6, <2>2 DEF Complete
    <3>2. ingesting[d] = {}
      BY <1>1, <1>6 DEF Searchable
    <3>3. ~new.del /\ new.secs = content
      BY <1>3, <1>5, <3>1, <3>2
    <3> QED BY <1>6, <3>3
  <2> QED BY <2>1, <2>2
<1> QED BY <1>1, <1>6, <1>7, <1>8, <1>9, DStep

LEMMA DPullTombstone ==
  ASSUME DInv, MaxWrites \in Nat \ {0}, NEW d \in Device, D!PullTombstone(d) PROVE DInv'
<1>1. DocTyped /\ Searchable(d) /\ MaxWrites \in Nat /\ file.t <= docClock
  BY DEF DInv
<1>2. /\ row[d] \in DocRows /\ row[d].t \in Nat /\ row[d].sync \in BOOLEAN
      /\ docClock \in Nat /\ file.t \in 0 .. MaxWrites /\ file.t \in Nat
  BY <1>1, DHeld
<1>3. PICK new : new = D!Row(file.t, TRUE, row[d].sync)
  OBVIOUS
<1>4. new \in DocRows /\ new.t = file.t /\ new.del /\ new.sync = row[d].sync
  <2>1. PICK t, sync : t = file.t /\ sync = row[d].sync
    OBVIOUS
  <2>2. /\ D!Row(t, TRUE, sync) \in DocRows /\ D!Row(t, TRUE, sync).t = t
        /\ D!Row(t, TRUE, sync).del /\ D!Row(t, TRUE, sync).sync = sync
    BY <1>1, <1>2, <2>1, DFields
  <2> QED BY <1>3, <2>1, <2>2
<1>5. /\ applying[d] = {} /\ file.del
      /\ secs' = [secs EXCEPT ![d] = {}] /\ fts' = [fts EXCEPT ![d] = {}]
      /\ docMirrored' = [docMirrored EXCEPT ![d] = file.t]
      /\ \/ /\ row' = [row EXCEPT ![d] = new] /\ row[d].t > 0 /\ row[d].t < file.t
            /\ raced' = [raced EXCEPT ![d] = raced[d] \/ D!Busy(d)]
         \/ UNCHANGED <<row, raced>>
      /\ UNCHANGED <<docClock, docDeletes, crashes, content, ingesting, applying, file>>
  BY <1>3 DEF D!PullTombstone, D!ToPull, D!Seen, D!Indexed, D!Raced
<1>6. /\ raced' \in [Device -> BOOLEAN] /\ row' \in [Device -> DocRows]
      /\ \/ row'[d] = new /\ row[d].t < file.t /\ (raced'[d] <=> raced[d] \/ D!Busy(d))
         \/ row'[d] = row[d] /\ raced'[d] = raced[d]
      /\ \A e \in Device \ {d} : row'[e] = row[e] /\ raced'[e] = raced[e]
  <2>1. (raced[d] \/ D!Busy(d)) \in BOOLEAN
    BY DEF D!Busy
  <2> QED BY <1>1, <1>4, <1>5, <2>1, ZenonT(60), SMTT(60) DEF DocTyped
<1>7. /\ secs' \in [Device -> SUBSET D!Section] /\ fts' \in [Device -> SUBSET D!Section]
      /\ docMirrored' \in [Device -> 0 .. MaxWrites] /\ secs'[d] = {} /\ fts'[d] = {}
      /\ ingesting'[d] = ingesting[d] /\ applying'[d] = {}
      /\ \A e \in Device \ {d} : /\ secs'[e] = secs[e] /\ fts'[e] = fts[e]
                                 /\ ingesting'[e] = ingesting[e] /\ applying'[e] = applying[e]
  BY <1>1, <1>2, <1>5 DEF DocTyped
<1>8. DocTyped'
  BY <1>1, <1>5, <1>6, <1>7 DEF DocTyped
<1>9. Searchable(d)'
  <2>1. CASE row'[d] = new /\ row[d].t < file.t /\ (raced'[d] <=> raced[d] \/ D!Busy(d))
    <3>1. row'[d].t # 0 /\ row'[d].t <= docClock' /\ (row'[d].sync => row[d].sync)
      <4>1. row'[d].t = file.t /\ row'[d].sync = row[d].sync
        BY <1>4, <2>1
      <4>2. file.t # 0 /\ file.t <= docClock'
        BY <1>1, <1>2, <1>5, <2>1
      <4> QED BY <4>1, <4>2
    <3> QED BY <1>1, <1>5, <1>7, <2>1, <3>1 DEF Searchable, D!Busy
  <2>2. CASE row'[d] = row[d] /\ raced'[d] = raced[d]
    BY <1>1, <1>5, <1>7, <2>2 DEF Searchable
  <2> QED BY <1>6, <2>1, <2>2
<1>10. ~Unharmed'
  BY <1>5 DEF Unharmed, DInv
<1> QED BY <1>1, <1>2, <1>5, <1>6, <1>7, <1>8, <1>9, <1>10, DStep

LEMMA DPullCheck ==
  ASSUME DInv, MaxWrites \in Nat \ {0}, NEW d \in Device, D!PullCheck(d) PROVE DInv'
<1>1. /\ DocTyped /\ Searchable(d) /\ (Unharmed => Complete(d)) /\ MaxWrites \in Nat
      /\ file.t <= docClock /\ file \in DocFiles
      /\ (Unharmed => ~file.del /\ (file.t > 0 => file.secs = content))
  BY DEF DInv, DocTyped
<1>2. /\ row[d].t \in Nat /\ docMirrored[d] \in Nat
      /\ docClock \in Nat /\ file.t \in 0 .. MaxWrites /\ file.t \in Nat
  <2>1. docMirrored[d] \in 0 .. MaxWrites
    BY <1>1 DEF DocTyped
  <2> QED BY <1>1, <2>1, DHeld
<1>3. /\ file.t > docMirrored[d] /\ ~file.del
      /\ \/ docMirrored' = [docMirrored EXCEPT ![d] = file.t] /\ applying' = applying
         \/ /\ docMirrored' = docMirrored /\ applying' = [applying EXCEPT ![d] = {file}]
            /\ ~(row[d].t >= file.t)
      /\ UNCHANGED <<docClock, docDeletes, crashes, content, row, secs, fts, ingesting, file, raced>>
  BY DEF D!PullCheck, D!ToPull, D!Seen, D!index
<1>4. /\ docMirrored' \in [Device -> 0 .. MaxWrites]
      /\ applying' \in [Device -> SUBSET DocFiles]
      /\ \/ applying'[d] = applying[d]
         \/ applying'[d] = {file} /\ row[d].t < file.t
      /\ \A e \in Device \ {d} : applying'[e] = applying[e]
  BY <1>1, <1>2, <1>3 DEF DocTyped
<1>5. DocTyped'
  <2>1. \A e \in Device : applying'[e] = {} \/ \E f \in DocFiles : applying'[e] = {f}
    BY <1>1, <1>4 DEF DocTyped
  <2> QED BY <1>1, <1>3, <1>4, <2>1 DEF DocTyped
<1>6. Searchable(d)'
  <2>1. CASE applying'[d] = applying[d]
    BY <1>1, <1>3, <2>1 DEF Searchable
  <2>2. CASE applying'[d] = {file} /\ row[d].t < file.t
    BY <1>1, <1>2, <1>3, <2>2 DEF Searchable
  <2> QED BY <1>4, <2>1, <2>2
<1>7. Unharmed' => Unharmed /\ ~file'.del /\ (file'.t > 0 => file'.secs = content') /\ Complete(d)'
  <2>1. (Unharmed' => Unharmed) /\ file.t > 0
    BY <1>2, <1>3 DEF Unharmed
  <2>2. Unharmed => \A f \in applying'[d] : f.secs = content
    BY <1>1, <1>4, <2>1 DEF Complete
  <2>3. Unharmed => Complete(d)'
    BY <1>1, <1>3, <2>2 DEF Complete
  <2> QED BY <1>1, <1>3, <2>1, <2>3
<1>8. file'.t <= docClock' /\ docClock <= docClock'
  BY <1>1, <1>2, <1>3
<1> QED BY <1>1, <1>3, <1>4, <1>5, <1>6, <1>7, <1>8, DStep

LEMMA DUpserted ==
  ASSUME MaxWrites \in Nat, NEW r \in DocRows, NEW f \in DocFiles
  PROVE  /\ D!Upserted(r, f) \in DocRows
         /\ f.t > r.t => /\ D!Upserted(r, f).t = f.t /\ ~D!Upserted(r, f).del
                         /\ D!Upserted(r, f).sync <=> r.t = 0 \/ r.sync
         /\ ~(f.t > r.t) => D!Upserted(r, f) = r
<1>1. f.t \in 0 .. MaxWrites /\ f.t \in Nat /\ r.t \in Nat /\ r.sync \in BOOLEAN
  BY DFields
<1>2. (r.t = 0 \/ r.sync) \in BOOLEAN
  OBVIOUS
<1>3. CASE f.t > r.t
  <2>1. D!Upserted(r, f) = D!Row(f.t, FALSE, r.t = 0 \/ r.sync)
    BY <1>3 DEF D!Upserted
  <2>2. PICK t, sync : t = f.t /\ sync = (r.t = 0 \/ r.sync)
    OBVIOUS
  <2>3. /\ D!Row(t, FALSE, sync) \in DocRows /\ D!Row(t, FALSE, sync).t = t
        /\ ~D!Row(t, FALSE, sync).del /\ D!Row(t, FALSE, sync).sync = sync
    BY <1>1, <1>2, <2>2, DFields
  <2> QED BY <1>3, <2>1, <2>2, <2>3
<1>4. CASE ~(f.t > r.t)
  BY <1>4 DEF D!Upserted
<1> QED BY <1>3, <1>4

LEMMA DPrefix ==
  ASSUME MaxSections \in Nat, NEW s \in SUBSET D!Section, NEW n \in 0 .. D!Cardinality(s)
  PROVE  /\ n \in Nat /\ 1 .. n \subseteq D!Section /\ 1 .. (n - 1) \subseteq 1 .. n
<1>1. D!Cardinality(s) = Cardinality(s)
  BY DEF D!Cardinality, Cardinality
<1>2. IsFiniteSet(D!Section) /\ Cardinality(D!Section) = MaxSections
  BY FS_Interval DEF D!Section
<1>3. Cardinality(s) <= MaxSections /\ Cardinality(s) \in Nat
  BY <1>2, FS_Subset, FS_CardinalityType
<1>4. n \in Nat /\ n <= MaxSections
  BY <1>1, <1>3
<1> QED BY <1>4 DEF D!Section

LEMMA DPullRebuild ==
  ASSUME DInv, MaxWrites \in Nat \ {0}, MaxSections \in Nat, NEW d \in Device, D!PullRebuild(d)
  PROVE  DInv'
<1>1. /\ DocTyped /\ Searchable(d) /\ (Unharmed => Complete(d)) /\ MaxWrites \in Nat
      /\ file.t <= docClock /\ (Unharmed => ~file.del /\ (file.t > 0 => file.secs = content))
  BY DEF DInv
<1>2. PICK f \in applying[d] :
        /\ row' = [row EXCEPT ![d] = D!Upserted(row[d], f)]
        /\ \/ /\ crashes' = crashes /\ docMirrored' = [docMirrored EXCEPT ![d] = f.t]
              /\ secs' = [secs EXCEPT ![d] = f.secs] /\ fts' = [fts EXCEPT ![d] = f.secs]
              /\ applying' = [applying EXCEPT ![d] = {}] /\ ingesting' = ingesting
           \/ /\ crashes' = crashes + 1 /\ docMirrored' = docMirrored
              /\ ingesting' = [ingesting EXCEPT ![d] = {}]
              /\ applying' = [applying EXCEPT ![d] = {}]
              /\ \/ secs' = [secs EXCEPT ![d] = secs[d]] /\ fts' = [fts EXCEPT ![d] = {}]
                 \/ \E n \in 0 .. D!Cardinality(f.secs) :
                      /\ secs' = [secs EXCEPT ![d] = 1 .. n]
                      /\ \/ fts' = [fts EXCEPT ![d] = 1 .. n]
                         \/ fts' = [fts EXCEPT ![d] = 1 .. (n - 1)]
        /\ UNCHANGED <<docClock, docDeletes, content, file, raced>>
  BY DEF D!PullRebuild, D!Lives, D!Dies, D!Seen, D!Indexed
<1>3. /\ row[d] \in DocRows /\ row[d].t \in Nat /\ row[d].del \in BOOLEAN /\ row[d].sync \in BOOLEAN
      /\ docClock \in Nat /\ f \in DocFiles /\ f.t \in 0 .. MaxWrites /\ f.t \in Nat
      /\ f.secs \subseteq D!Section /\ secs[d] \subseteq D!Section
      /\ ~f.del /\ f.t > 0 /\ f.t <= docClock
  BY <1>1, DHeld DEF Searchable
<1>4. PICK new : new = D!Upserted(row[d], f)
  OBVIOUS
<1>5. /\ new \in DocRows /\ row' = [row EXCEPT ![d] = new]
      /\ f.t > row[d].t => new.t = f.t /\ ~new.del /\ (new.sync <=> row[d].t = 0 \/ row[d].sync)
      /\ ~(f.t > row[d].t) => new = row[d]
  BY <1>1, <1>2, <1>3, <1>4, DUpserted
<1>6. /\ row' \in [Device -> DocRows] /\ row'[d] = new
      /\ \A e \in Device \ {d} : row'[e] = row[e]
  BY <1>1, <1>5 DEF DocTyped
<1>7. \E s \in SUBSET D!Section, i \in SUBSET D!Section :
        /\ secs' = [secs EXCEPT ![d] = s] /\ fts' = [fts EXCEPT ![d] = i] /\ i \subseteq s
        /\ crashes' = crashes => s = f.secs /\ i = f.secs
  <2>1. CASE /\ crashes' = crashes
             /\ secs' = [secs EXCEPT ![d] = f.secs] /\ fts' = [fts EXCEPT ![d] = f.secs]
    BY <1>3, <2>1
  <2>2. CASE /\ crashes' = crashes + 1
             /\ secs' = [secs EXCEPT ![d] = secs[d]] /\ fts' = [fts EXCEPT ![d] = {}]
    <3>1. crashes' # crashes
      BY <1>1, <2>2 DEF DocTyped
    <3>2. PICK s : s = secs[d]
      OBVIOUS
    <3>3. s \in SUBSET D!Section /\ {} \subseteq s /\ {} \in SUBSET D!Section
      BY <1>3, <3>2
    <3>4. secs' = [secs EXCEPT ![d] = s] /\ fts' = [fts EXCEPT ![d] = {}]
      BY <2>2, <3>2
    <3> QED BY <3>1, <3>3, <3>4
  <2>3. ASSUME crashes' = crashes + 1, NEW n \in 0 .. D!Cardinality(f.secs),
               secs' = [secs EXCEPT ![d] = 1 .. n],
               \/ fts' = [fts EXCEPT ![d] = 1 .. n]
               \/ fts' = [fts EXCEPT ![d] = 1 .. (n - 1)]
        PROVE  \E s \in SUBSET D!Section, i \in SUBSET D!Section :
                 /\ secs' = [secs EXCEPT ![d] = s] /\ fts' = [fts EXCEPT ![d] = i] /\ i \subseteq s
                 /\ crashes' = crashes => s = f.secs /\ i = f.secs
    <3>1. crashes' # crashes
      BY <1>1, <2>3 DEF DocTyped
    <3>2. 1 .. n \subseteq D!Section /\ 1 .. (n - 1) \subseteq 1 .. n
      BY <1>3, DPrefix
    <3> QED BY <2>3, <3>1, <3>2
  <2> QED BY <1>2, <2>1, <2>2, <2>3
<1>8. PICK s \in SUBSET D!Section, i \in SUBSET D!Section :
        /\ secs' = [secs EXCEPT ![d] = s] /\ fts' = [fts EXCEPT ![d] = i] /\ i \subseteq s
        /\ crashes' = crashes => s = f.secs /\ i = f.secs
  BY <1>7
<1>9. /\ secs' \in [Device -> SUBSET D!Section] /\ fts' \in [Device -> SUBSET D!Section]
      /\ secs'[d] = s /\ fts'[d] = i
      /\ \A e \in Device \ {d} : secs'[e] = secs[e] /\ fts'[e] = fts[e]
  BY <1>1, <1>8 DEF DocTyped
<1>10. /\ crashes' \in Nat /\ docMirrored' \in [Device -> 0 .. MaxWrites]
       /\ ingesting' \in [Device -> SUBSET D!Section]
       /\ applying' \in [Device -> SUBSET DocFiles] /\ applying'[d] = {}
       /\ \/ ingesting'[d] = {}
          \/ ingesting'[d] = ingesting[d] /\ crashes' = crashes
       /\ \A e \in Device \ {d} : ingesting'[e] = ingesting[e] /\ applying'[e] = applying[e]
  <2>1. /\ applying' = [applying EXCEPT ![d] = {}]
        /\ ingesting' = ingesting \/ ingesting' = [ingesting EXCEPT ![d] = {}]
        /\ docMirrored' = docMirrored \/ docMirrored' = [docMirrored EXCEPT ![d] = f.t]
        /\ crashes' = crashes \/ crashes' = crashes + 1
        /\ ingesting' = ingesting => crashes' = crashes \/ ingesting[d] = {}
    BY <1>1, <1>2 DEF DocTyped
  <2> QED BY <1>1, <1>3, <2>1 DEF DocTyped
<1>11. DocTyped'
  <2>1. \A e \in Device : applying'[e] = {} \/ \E g \in DocFiles : applying'[e] = {g}
    BY <1>1, <1>10 DEF DocTyped
  <2> QED BY <1>1, <1>2, <1>6, <1>9, <1>10, <2>1 DEF DocTyped
<1>12. Searchable(d)'
  <2>1. new.t # 0 /\ new.t <= docClock /\ (new.sync => ingesting[d] = {})
        /\ (new.del => raced[d])
    <3>1. CASE f.t > row[d].t
      BY <1>1, <1>3, <1>5, <3>1 DEF Searchable
    <3>2. CASE ~(f.t > row[d].t)
      BY <1>1, <1>3, <1>5, <3>2 DEF Searchable
    <3> QED BY <3>1, <3>2
  <2> QED BY <1>2, <1>6, <1>8, <1>9, <1>10, <2>1 DEF Searchable
<1>13. Unharmed' => Unharmed /\ Complete(d)'
  <2>1. SUFFICES ASSUME Unharmed' PROVE Unharmed /\ Complete(d)'
    OBVIOUS
  <2>2. Unharmed /\ crashes' = crashes
    BY <1>1, <1>2, <2>1 DEF Unharmed, DocTyped
  <2>3. s = f.secs /\ i = f.secs /\ f.secs = content /\ ~row[d].del
    BY <1>1, <1>2, <1>8, <2>2 DEF Complete
  <2>4. ~new.del
    BY <1>5, <2>3
  <2>5. ingesting[d] \subseteq content
    <3>1. row[d].t > 0 \/ row[d].t = 0
      BY <1>3
    <3> QED BY <1>1, <2>2, <3>1 DEF Complete, Searchable
  <2>6. /\ ~row'[d].del /\ fts'[d] = content' /\ secs'[d] = content' /\ applying'[d] = {}
        /\ content' = content /\ ingesting'[d] \subseteq content'
    BY <1>2, <1>6, <1>9, <1>10, <2>3, <2>4, <2>5
  <2>7. Complete(d)'
    BY <2>6 DEF Complete
  <2> QED BY <2>2, <2>7
<1>14. file'.t <= docClock' /\ docClock <= docClock'
  BY <1>1, <1>2, <1>3
<1> QED BY <1>1, <1>2, <1>6, <1>9, <1>10, <1>11, <1>12, <1>13, <1>14, DStep

LEMMA DSound == ASSUME DInv, MaxWrites \in Nat PROVE SearchIsSound
<1>1. DocTyped /\ (\A d \in Device : Searchable(d)) /\ (Unharmed => \A d \in Device : Complete(d))
  BY DEF DInv
<1>2. D!TypeOK
  <2>1. ASSUME NEW d \in Device PROVE D!Cardinality(applying[d]) <= 1
    <3>1. applying[d] = {} \/ \E f \in DocFiles : applying[d] = {f}
      BY <1>1 DEF DocTyped
    <3>2. Cardinality(applying[d]) = 0 \/ Cardinality(applying[d]) = 1
      BY <3>1, FS_EmptySet, FS_Singleton
    <3>3. D!Cardinality(applying[d]) = Cardinality(applying[d])
      BY DEF D!Cardinality, Cardinality
    <3> QED BY <3>2, <3>3
  <2> QED BY <1>1, <2>1 DEF DocTyped, DocRows, D!TypeOK
<1>3. D!IndexHasSections /\ D!DeletedIsNotFound
  BY <1>1 DEF D!IndexHasSections, D!DeletedIsNotFound, Searchable
<1>4. D!SectionsTravel
  BY <1>1 DEF D!SectionsTravel, Unharmed, Complete
<1> QED BY <1>2, <1>3, <1>4 DEF SearchIsSound, D!SearchIsSound

\* A deleted document is not found, nothing is found that is not there, and
\* until somebody deletes or dies every device that has a document has all its
\* sections (pai-documents lib.rs, apply_document, apply_doc_tombstone).
THEOREM SearchStaysSound ==
  ASSUME MaxWrites \in Nat \ {0}, MaxSections \in Nat
  PROVE  D!Spec => []SearchIsSound
<1>1. D!Init => DInv
  BY DInitInv
<1>2. DInv /\ [D!Next]_(D!vars) => DInv'
  <2>1. ASSUME DInv, D!Next PROVE DInv'
    <3>1. PICK d \in Device :
            \/ D!Ingest(d) \/ D!StoreSection(d) \/ D!Delete(d)
            \/ \E sync \in BOOLEAN : D!SetSyncScope(d, sync)
            \/ D!Push(d) \/ D!PullTombstone(d) \/ D!PullCheck(d) \/ D!PullRebuild(d)
      BY <2>1 DEF D!Next
    <3> QED BY <2>1, <3>1, DUser, DDeletes, DPush, DPullTombstone, DPullCheck, DPullRebuild
  <2>2. ASSUME DInv, UNCHANGED D!vars PROVE DInv'
    BY <2>2 DEF D!vars, D!index, D!shared, DInv, DocTyped, Searchable, Complete, Unharmed, D!Section
  <2> QED BY <2>1, <2>2
<1>3. DInv => SearchIsSound
  BY DSound
<1> QED BY <1>1, <1>2, <1>3, PTL DEF D!Spec

-----------------------------------------------------------------------------
(* Public relays.  A relay that is saved, or that has passed the gate, is  *)
(* near by or was consented to; a request that names no relay resolves to  *)
(* one that was saved, and one that carries consent has been recorded.     *)

Fine(relay) == relay \in Local \cup {T!None} \cup consented

AfterGate == {"target", "save", "run"}
TConsent ==
    /\ Fine(saved.relay)
    /\ \A t \in T!Thread :
          LET j == job[t] IN
          /\ j.pc \in AfterGate => Fine(j.to.relay)
          /\ j.pc = "gate" /\ (j.args.allow \/ j.args.relay = T!None) => Fine(j.to.relay)
          /\ j.pc \in {"save", "run"}
                => j.to.lan \/ j.to.dir # T!None \/ j.to.relay # T!None
    /\ used \subseteq Folder \cup {T!None, "lan"} \cup Local \cup consented

TInv == T!TypeOK /\ TConsent

LEMMA TInitInv == ASSUME T!Init PROVE TInv
  BY DEF T!Init, TInv, T!TypeOK, TConsent, Fine, AfterGate, T!Choice, T!NoArgs, T!Args,
     T!Idle, T!Job

\* An argument, or else what is saved: a choice again.
LEMMA ResolvedIsAChoice ==
  ASSUME saved \in T!Choice, NEW args \in T!Choice
  PROVE  /\ T!Resolved(args) \in T!Choice
         /\ T!Resolved(args).allow = args.allow
         /\ T!Resolved(args).relay = IF args.relay # T!None THEN args.relay ELSE saved.relay
  BY DEF T!Resolved, T!Or, T!Choice, T!Args

LEMMA TStepInv == ASSUME TInv, [T!Next]_(T!vars) PROVE TInv'
<1> USE DEF TInv
<1>1. CASE T!Ask
  <2>1. PICK lan \in BOOLEAN, allow \in BOOLEAN, dir \in Folder \cup {T!None},
             relay_ \in Url \cup {T!None} :
           job' = [job EXCEPT !["app"] =
                      T!Job("asked", T!Args(lan, dir, relay_, allow), T!NoArgs)]
    BY <1>1 DEF T!Ask
  <2> DEFINE new == T!Job("asked", T!Args(lan, dir, relay_, allow), T!NoArgs)
  <2>2. new.pc = "asked" /\ new \in [pc : {"asked"}, args : T!Choice, to : T!Choice]
    BY DEF T!Job, T!Args, T!Choice, T!NoArgs
  <2>3. \A t \in T!Thread : job'[t] = IF t = "app" THEN new ELSE job[t]
    BY <2>1 DEF T!TypeOK
  <2> HIDE DEF new
  <2>4. T!TypeOK'
    BY <1>1, <2>1, <2>2, <2>3 DEF T!TypeOK, T!Ask, new, T!Thread
  <2> QED BY <1>1, <2>2, <2>3, <2>4 DEF TConsent, Fine, AfterGate, T!Ask
<1>2. CASE T!Due
  BY <1>2 DEF T!Due, T!TypeOK, TConsent, Fine, AfterGate
<1>3. CASE T!Timer
  <2>1. \A t \in T!Thread :
           job'[t] = IF t = "timer" THEN T!Job("asked", T!NoArgs, T!NoArgs) ELSE job[t]
    BY <1>3 DEF T!TypeOK, T!Timer
  <2>2. T!TypeOK'
    BY <1>3 DEF T!TypeOK, T!Timer, T!Job, T!NoArgs, T!Args, T!Choice, T!Thread
  <2> QED BY <1>3, <2>1, <2>2 DEF TConsent, Fine, AfterGate, T!Timer, T!Job
<1>4. ASSUME NEW t \in T!Thread, T!Resolve(t) PROVE TInv'
  <2> DEFINE to == T!Resolved(job[t].args)
  <2>1. job[t].args \in T!Choice /\ job[t].pc = "asked"
    BY <1>4 DEF T!TypeOK, T!Resolve
  <2>2. /\ to \in T!Choice /\ to.allow = job[t].args.allow
        /\ to.relay = IF job[t].args.relay # T!None THEN job[t].args.relay ELSE saved.relay
    BY <2>1, ResolvedIsAChoice DEF T!TypeOK
  <2>3. /\ job' = [job EXCEPT ![t] = T!Job("gate", job[t].args, to)]
        /\ consented' = IF job[t].args.allow THEN consented \cup ({to.relay} \ {T!None})
                        ELSE consented
        /\ UNCHANGED <<saved, used>>
    BY <1>4 DEF T!Resolve
  <2> HIDE DEF to
  <2>4. \A u \in T!Thread :
           job'[u] = IF u = t THEN T!Job("gate", job[t].args, to) ELSE job[u]
    BY <2>3 DEF T!TypeOK
  <2>5. consented \subseteq consented' /\ consented' \subseteq Url
    BY <2>2, <2>3 DEF T!TypeOK, T!Choice
  <2>6. T!TypeOK'
    BY <1>4, <2>1, <2>2, <2>3, <2>5 DEF T!TypeOK, T!Job
  <2>7. job[t].args.allow \/ job[t].args.relay = T!None 
           => to.relay \in Local \cup {T!None} \cup consented'
    <3>1. to.relay \in Url \cup {T!None}
      BY <2>2 DEF T!Choice
    <3>2. CASE job[t].args.allow
      BY <3>1, <3>2, <2>3
    <3>3. CASE ~job[t].args.allow /\ job[t].args.relay = T!None
      BY <3>3, <2>2, <2>3 DEF Fine, TConsent
    <3> QED BY <3>2, <3>3
  <2> QED
    BY <2>3, <2>4, <2>5, <2>6, <2>7 DEF TConsent, Fine, AfterGate, T!Job
<1>5. ASSUME NEW t \in T!Thread, T!Gate(t) PROVE TInv'
  <2> DEFINE new == IF T!Allowed(job[t].args, job[t].to.relay)
                    THEN T!Job("target", job[t].args, job[t].to) ELSE T!Idle
  <2>1. job' = [job EXCEPT ![t] = new] /\ UNCHANGED <<saved, consented, used>>
    BY <1>5 DEF T!Gate
  <2>2. /\ new.pc \in {"idle", "target"}
        /\ new.pc = "target" => Fine(new.to.relay)
        /\ new \in [pc : {"idle", "target"}, args : T!Choice, to : T!Choice]
    <3>1. job[t].args \in T!Choice /\ job[t].to \in T!Choice /\ job[t].pc = "gate"
      BY <1>5 DEF T!Gate, T!TypeOK
    <3>2. CASE T!Allowed(job[t].args, job[t].to.relay)
      <4>1. Fine(job[t].to.relay)
        BY <3>1, <3>2 DEF T!Allowed, TConsent, Fine
      <4> QED BY <3>1, <3>2, <4>1 DEF T!Job
    <3>3. CASE ~T!Allowed(job[t].args, job[t].to.relay)
      BY <3>3 DEF T!Idle, T!Job, T!NoArgs, T!Args, T!Choice
    <3> QED BY <3>2, <3>3
  <2> HIDE DEF new
  <2>3. \A u \in T!Thread : job'[u] = IF u = t THEN new ELSE job[u]
    BY <2>1 DEF T!TypeOK
  <2>4. T!TypeOK'
    BY <1>5, <2>1, <2>2 DEF T!TypeOK
  <2> QED BY <2>1, <2>2, <2>3, <2>4 DEF TConsent, Fine, AfterGate
<1>6. ASSUME NEW t \in T!Thread, T!Target(t) PROVE TInv'
  <2>1. PICK new \in {T!Job("save", job[t].args, job[t].to), T!Idle} :
           /\ job' = [job EXCEPT ![t] = new]
           /\ new # T!Idle => job[t].to.lan \/ job[t].to.dir # T!None
                                \/ job[t].to.relay # T!None
    BY <1>6 DEF T!Target
  <2>2. job[t].pc = "target" /\ UNCHANGED <<saved, consented, used>>
    BY <1>6 DEF T!Target
  <2>3. /\ new.pc \in {"idle", "save"}
        /\ new.pc = "save" => new.to = job[t].to /\ new # T!Idle
        /\ new \in [pc : {"idle", "save"}, args : T!Choice, to : T!Choice]
    <3>1. job[t].args \in T!Choice /\ job[t].to \in T!Choice
      BY DEF T!TypeOK
    <3>2. T!Idle.pc = "idle" /\ T!Idle \in [pc : {"idle"}, args : T!Choice, to : T!Choice]
      BY DEF T!Idle, T!Job, T!NoArgs, T!Args, T!Choice
    <3>3. CASE new = T!Idle
      BY <3>2, <3>3
    <3>4. CASE new = T!Job("save", job[t].args, job[t].to)
      BY <3>1, <3>2, <3>4 DEF T!Job
    <3> QED BY <2>1, <3>3, <3>4
  <2>4. \A u \in T!Thread : job'[u] = IF u = t THEN new ELSE job[u]
    BY <2>1 DEF T!TypeOK
  <2>5. T!TypeOK'
    BY <1>6, <2>1, <2>2, <2>3 DEF T!TypeOK, T!Target
  <2>6. new.pc = "save" => Fine(new.to.relay)
    BY <2>2, <2>3 DEF TConsent, AfterGate
  <2> QED BY <2>1, <2>2, <2>3, <2>4, <2>5, <2>6 DEF TConsent, Fine, AfterGate
<1>7. ASSUME NEW t \in T!Thread, T!Save(t) PROVE TInv'
  <2> DEFINE to == job[t].to
             new == T!Job("run", job[t].args, to)
  <2>1. /\ job[t].pc = "save" /\ job' = [job EXCEPT ![t] = new]
        /\ saved' = T!Args(to.lan, T!Or(to.dir, saved.dir), T!Or(to.relay, saved.relay),
                           saved.allow \/ (to.allow /\ to.relay # T!None))
        /\ UNCHANGED <<consented, used>>
    BY <1>7 DEF T!Save
  <2>2. /\ Fine(to.relay) /\ to \in T!Choice
        /\ to.lan \/ to.dir # T!None \/ to.relay # T!None
    BY <2>1 DEF TConsent, AfterGate, T!TypeOK
  <2>3. new.pc = "run" /\ new.to = to
        /\ new \in [pc : {"run"}, args : T!Choice, to : T!Choice]
    BY <2>2 DEF T!Job, T!TypeOK
  <2>4. saved' \in T!Choice /\ Fine(saved'.relay)
    BY <2>1, <2>2 DEF T!TypeOK, T!Choice, T!Args, T!Or, TConsent
  <2> HIDE DEF new, to
  <2>5. \A u \in T!Thread : job'[u] = IF u = t THEN new ELSE job[u]
    BY <2>1 DEF T!TypeOK
  <2>6. T!TypeOK'
    BY <1>7, <2>1, <2>3, <2>4 DEF T!TypeOK
  <2> QED BY <2>1, <2>2, <2>3, <2>4, <2>5, <2>6 DEF TConsent, Fine, AfterGate
<1>8. ASSUME NEW t \in T!Thread, T!Run(t) PROVE TInv'
  <2>1. /\ job[t].pc = "run" /\ job' = [job EXCEPT ![t] = T!Idle]
        /\ used' \in {used, used \cup {T!Chosen(job[t].to)}}
        /\ UNCHANGED <<saved, consented>>
    BY <1>8 DEF T!Run
  <2>2. T!Idle.pc = "idle" /\ T!Idle \in [pc : {"idle"}, args : T!Choice, to : T!Choice]
    BY DEF T!Idle, T!Job, T!NoArgs, T!Args, T!Choice
  <2>3. \A u \in T!Thread : job'[u] = IF u = t THEN T!Idle ELSE job[u]
    BY <2>1 DEF T!TypeOK
  <2>4. T!Chosen(job[t].to) \in Folder \cup {"lan"} \cup ((Local \cup consented) \cap Url)
    BY <2>1 DEF TConsent, Fine, AfterGate, T!Chosen, T!TypeOK, T!Choice
  <2>5. T!TypeOK'
    BY <1>8, <2>1, <2>2, <2>4 DEF T!TypeOK
  <2> QED BY <2>1, <2>2, <2>3, <2>4, <2>5 DEF TConsent, Fine, AfterGate
<1>9. CASE UNCHANGED T!vars
  BY <1>9 DEF T!vars, T!TypeOK, TConsent, Fine, AfterGate
<1> QED BY <1>1, <1>2, <1>3, <1>4, <1>5, <1>6, <1>7, <1>8, <1>9 DEF T!Next

\* Nothing goes to a public relay for which consent was never given, whatever the
\* timer and the requests of the application read of each other's rows, provided
\* that relays, folders and the two words of the model have different names
\* (run_sync, require_local_or_flag).
THEOREM NothingPublicUnasked ==
  ASSUME T!Apart
  PROVE  T!Spec => []PublicByConsent
<1>1. TInv => PublicByConsent
  BY DEF TInv, TConsent, T!Apart, PublicByConsent, T!PublicByConsent
<1> QED BY <1>1, TInitInv, TStepInv, PTL DEF T!Spec

-----------------------------------------------------------------------------
(* Objects that cannot be read.  A thread that has opened KEY.part still   *)
(* owes; whatever is in KEY.part beside threads is the doing of one of     *)
(* them, of two if it is torn, and a successful rename takes the name from *)
(* all the others.                                                         *)

\* What a thread of the relay may be at (the type of thread).
Requests == [pc : {"free", "open", "write", "rename", "done", "failed"},
             c : Client \cup {0}, v : 0 .. MaxVersions, fd : {"part", "obj", "gone"}]

\* It has opened KEY.part and not yet tried to rename it.
Active(s) == thread[s].pc \in {"write", "rename"}

\* A client and the thread that handles its request know of each other.
Links ==
    /\ \A c \in Client :
          /\ acked[c] <= edits[c]
          /\ at[c].pc = "found" => acked[c] < edits[c]
          /\ at[c].pc = "waiting" => /\ at[c].ref \in Slot
                                    /\ thread[at[c].ref].pc # "free"
                                    /\ thread[at[c].ref].c = c
    /\ \A s \in Slot :
          thread[s].pc # "free" =>
              /\ thread[s].c \in Client /\ at[thread[s].c] = R!Waiting(s)
              /\ acked[thread[s].c] < thread[s].v /\ thread[s].v <= edits[thread[s].c]

\* What is in KEY.part, by the threads that hold it.
Writers ==
    /\ part = R!NoFile => \A s \in Slot : thread[s].fd # "part"
    /\ part # R!NoFile /\ (\E s \in Slot : Active(s)) =>
          /\ part = "empty" => \E s \in Slot : thread[s].pc = "write" /\ thread[s].fd = "part"
          /\ part = "whole" => \E s \in Slot : thread[s].pc = "rename" /\ thread[s].fd = "part"
          /\ part = "torn" => \E r, s \in Slot :
                                /\ r # s /\ Active(r) /\ Active(s)
                                /\ thread[r].fd = "part" /\ thread[s].fd = "part"

\* The client has not been told, nor is about to be, that its push is stored.
Owing(c) ==
    /\ acked[c] # edits[c]
    /\ ~(at[c].pc = "waiting" /\ thread[at[c].ref].pc = "done")
Owed == obj \notin {R!NoFile, "whole"} => \E c \in Client : Owing(c)

MInv == R!TypeOK /\ Links /\ Writers /\ Owed

LEMMA MInitInv == ASSUME MaxVersions \in Nat, R!Init PROVE MInv
  BY DEF R!Init, MInv, R!TypeOK, Links, Writers, Owed, R!Idle, R!Free, R!Handling, R!NoFile, R!Content,
     Active

\* The client of a thread that is not done is owing.
LEMMA ThreadOwes ==
  ASSUME R!TypeOK, Links, NEW s \in Slot, thread[s].pc \notin {"free", "done"}
  PROVE  thread[s].c \in Client /\ Owing(thread[s].c)
<1> DEFINE c == thread[s].c
<1>1. /\ c \in Client /\ at[c] = R!Waiting(s)
      /\ acked[c] < thread[s].v /\ thread[s].v <= edits[c]
  BY DEF Links
<1>2. acked[c] \in Int /\ thread[s].v \in Int /\ edits[c] \in Int
  BY <1>1 DEF R!TypeOK
<1>3. at[c].ref = s
  BY <1>1 DEF R!Waiting
<1> HIDE DEF c
<1>4. Owing(c)
  BY <1>1, <1>2, <1>3 DEF Owing
<1> QED BY <1>1, <1>4 DEF c

-----------------------------------------------------------------------------
(* The steps of threads.                                                   *)

LEMMA OpenInv == ASSUME MInv, NEW s \in Slot, R!Open(s) PROVE MInv'
<1> DEFINE new == R!Handling("write", thread[s].c, thread[s].v, "part")
<1>1. /\ thread[s].pc = "open" /\ part' = "empty" /\ thread' = [thread EXCEPT ![s] = new]
      /\ UNCHANGED <<edits, acked, at, port, starts, air, paired, losses, obj>>
  BY DEF R!Open, R!clients, R!relay
<1>2. /\ new.pc = "write" /\ new.c = thread[s].c /\ new.v = thread[s].v /\ new.fd = "part"
      /\ new \in [pc : {"write"}, c : Client \cup {0}, v : 0 .. MaxVersions, fd : {"part"}]
  BY DEF MInv, R!TypeOK, R!Handling
<1> HIDE DEF new
<1>3. \A r \in Slot : thread'[r] = IF r = s THEN new ELSE thread[r]
  BY <1>1 DEF MInv, R!TypeOK
<1>4. R!TypeOK'
  BY <1>1, <1>2 DEF MInv, R!TypeOK, R!Content
<1>5. Links'
  BY <1>1, <1>2, <1>3 DEF MInv, Links
<1>6. Writers'
  BY <1>1, <1>2, <1>3 DEF Writers, R!NoFile, Active
<1>7. \A c \in Client : Owing(c) => Owing(c)'
  BY <1>1, <1>2, <1>3 DEF MInv, Links, Owing
<1> QED BY <1>1, <1>4, <1>5, <1>6, <1>7 DEF MInv, Owed

LEMMA WriteInv == ASSUME MInv, NEW s \in Slot, R!Write(s) PROVE MInv'
<1> DEFINE new == R!Handling("rename", thread[s].c, thread[s].v, thread[s].fd)
<1>1. /\ thread[s].pc = "write" /\ thread' = [thread EXCEPT ![s] = new]
      /\ UNCHANGED <<edits, acked, at, port, starts, air, paired, losses>>
  BY DEF R!Write, R!clients, R!relay
<1>2. \/ thread[s].fd = "part" /\ part' \in R!Over(part) /\ obj' = obj
      \/ thread[s].fd = "obj" /\ obj' \in R!Over(obj) /\ part' = part
      \/ thread[s].fd = "gone" /\ part' = part /\ obj' = obj
  BY DEF R!Write, R!files
<1>3. /\ new.pc = "rename" /\ new.c = thread[s].c /\ new.v = thread[s].v
      /\ new.fd = thread[s].fd
      /\ new \in [pc : {"rename"}, c : Client \cup {0}, v : 0 .. MaxVersions,
                  fd : {"part", "obj", "gone"}]
  BY DEF MInv, R!TypeOK, R!Handling
<1> HIDE DEF new
<1>4. \A r \in Slot : thread'[r] = IF r = s THEN new ELSE thread[r]
  BY <1>1 DEF MInv, R!TypeOK
<1>5. R!TypeOK'
  BY <1>1, <1>2, <1>3 DEF MInv, R!TypeOK, R!Content, R!Over
<1>6. Links'
  BY <1>1, <1>3, <1>4 DEF MInv, Links
<1>7. Writers'
  <2>1. CASE thread[s].fd = "part"
    <3>1. part # R!NoFile /\ part \in R!Content /\ part' \in R!Over(part) /\ Active(s)
      BY <1>1, <1>2, <2>1 DEF MInv, R!TypeOK, Writers, Active
    <3>2. part' \in {"whole", "torn"}
      BY <3>1 DEF R!Over
    <3>3. part' = "whole" => \E r \in Slot : thread'[r].pc = "rename" /\ thread'[r].fd = "part"
      BY <1>3, <1>4, <2>1
    <3>4. ASSUME part' = "torn"
          PROVE  \E q, r \in Slot : /\ q # r /\ Active(q)' /\ Active(r)'
                                    /\ thread'[q].fd = "part" /\ thread'[r].fd = "part"
      <4>1. part \in {"whole", "torn"}
        BY <3>1, <3>4 DEF R!Over, R!Content, R!NoFile
      <4>2. PICK r \in Slot : r # s /\ Active(r) /\ thread[r].fd = "part"
        BY <1>1, <3>1, <4>1 DEF MInv, Writers, Active
      <4>3. Active(r)' /\ Active(s)' /\ thread'[r].fd = "part" /\ thread'[s].fd = "part"
        BY <1>3, <1>4, <2>1, <4>2 DEF Active
      <4> QED BY <4>2, <4>3
    <3> QED BY <3>2, <3>3, <3>4 DEF Writers, R!NoFile
  <2>2. CASE thread[s].fd # "part"
    <3>1. part' = part
      BY <1>2, <2>2
    <3>2. \A r \in Slot : Active(r)' <=> Active(r)
      BY <1>1, <1>3, <1>4 DEF Active
    <3>3. \A r \in Slot : thread'[r].fd = thread[r].fd
      BY <1>3, <1>4
    <3>4. \A r \in Slot : thread[r].fd = "part" => thread'[r] = thread[r]
      BY <1>4, <2>2
    <3> QED BY <3>1, <3>2, <3>3, <3>4 DEF MInv, Writers
  <2> QED BY <2>1, <2>2
<1>8. \A c \in Client : Owing(c) => Owing(c)'
  BY <1>1, <1>3, <1>4 DEF MInv, Links, Owing
<1>9. thread[s].c \in Client /\ Owing(thread[s].c)
  BY <1>1, ThreadOwes DEF MInv
<1> QED BY <1>2, <1>5, <1>6, <1>7, <1>8, <1>9 DEF MInv, Owed

LEMMA RenameInv == ASSUME MInv, NEW s \in Slot, R!Rename(s) PROVE MInv'
<1>1. /\ thread[s].pc = "rename"
      /\ UNCHANGED <<edits, acked, at, port, starts, air, paired, losses>>
  BY DEF R!Rename, R!clients, R!relay
<1>2. CASE part = R!NoFile
  <2> DEFINE new == R!Handling("failed", thread[s].c, thread[s].v, "gone")
  <2>1. thread' = [thread EXCEPT ![s] = new] /\ part' = part /\ obj' = obj
    BY <1>2 DEF R!Rename, R!files
  <2>2. /\ new.pc = "failed" /\ new.c = thread[s].c /\ new.v = thread[s].v
        /\ new.fd = "gone"
        /\ new \in [pc : {"failed"}, c : Client \cup {0}, v : 0 .. MaxVersions, fd : {"gone"}]
    BY DEF MInv, R!TypeOK, R!Handling
  <2> HIDE DEF new
  <2>3. \A r \in Slot : thread'[r] = IF r = s THEN new ELSE thread[r]
    BY <2>1 DEF MInv, R!TypeOK
  <2>4. R!TypeOK'
    BY <1>1, <2>1, <2>2 DEF MInv, R!TypeOK
  <2>5. Links'
    BY <1>1, <2>2, <2>3 DEF MInv, Links
  <2>6. Writers'
    BY <1>2, <2>1, <2>2, <2>3 DEF MInv, Writers
  <2>7. \A c \in Client : Owing(c) => Owing(c)'
    BY <1>1, <2>2, <2>3 DEF MInv, Links, Owing
  <2> QED BY <2>1, <2>4, <2>5, <2>6, <2>7 DEF MInv, Owed
<1>3. CASE part # R!NoFile
  <2>1. thread' = R!RenamedBy(s) /\ part' = R!NoFile /\ obj' = part
    BY <1>3 DEF R!Rename
  <2>2. \A r \in Slot :
           /\ thread'[r] \in [pc : {"free", "open", "write", "rename", "done", "failed"},
                              c : Client \cup {0}, v : 0 .. MaxVersions, fd : {"obj", "gone"}]
           /\ thread'[r].pc = IF r = s THEN "done" ELSE thread[r].pc
           /\ thread'[r].c = thread[r].c /\ thread'[r].v = thread[r].v
    BY <2>1 DEF MInv, R!TypeOK, R!RenamedBy, R!Handling, R!Moved
  <2>3. R!TypeOK'
    <3>1. thread' \in [Slot -> [pc : {"free", "open", "write", "rename", "done", "failed"},
                               c : Client \cup {0}, v : 0 .. MaxVersions, fd : {"obj", "gone"}]]
      BY <2>1, <2>2 DEF R!RenamedBy
    <3> QED BY <1>1, <2>1, <3>1 DEF MInv, R!TypeOK, R!NoFile, R!Content
  <2>4. Links'
    BY <1>1, <2>2 DEF MInv, Links
  <2>5. Writers'
    BY <2>1, <2>2 DEF Writers
  <2>6. ASSUME part # "whole" PROVE \E c \in Client : Owing(c)'
    <3>1. PICK r \in Slot : r # s /\ Active(r)
      BY <1>1, <1>3, <2>6 DEF MInv, R!TypeOK, Writers, Active, R!Content, R!NoFile
    <3>2. thread[r].c \in Client /\ Owing(thread[r].c) /\ at[thread[r].c].ref = r
      <4>1. thread[r].pc \notin {"free", "done"}
        BY <3>1 DEF Active
      <4>2. thread[r].c \in Client /\ Owing(thread[r].c)
        BY <4>1, ThreadOwes DEF MInv
      <4>3. at[thread[r].c] = R!Waiting(r)
        BY <4>1 DEF MInv, Links
      <4> QED BY <4>2, <4>3 DEF R!Waiting
    <3>3. Owing(thread[r].c)'
      <4> DEFINE c == thread[r].c
      <4>1. acked'[c] # edits'[c] /\ at'[c].ref = r /\ thread'[r].pc # "done"
        BY <1>1, <2>2, <3>1, <3>2 DEF Owing, Active
      <4> QED BY <1>1, <2>2, <3>1, <3>2, <4>1 DEF Owing
    <3> QED BY <2>2, <3>1, <3>2, <3>3
  <2> QED BY <2>1, <2>3, <2>4, <2>5, <2>6 DEF MInv, Owed
<1> QED BY <1>2, <1>3

LEMMA AnswerInv == ASSUME MInv, MaxVersions \in Nat, NEW s \in Slot, R!Answer(s) PROVE MInv'
<1> DEFINE c == thread[s].c
<1>1. /\ thread[s].pc \in {"done", "failed"}
      /\ at' = [at EXCEPT ![c] = R!Idle]
      /\ acked' = IF thread[s].pc = "done" THEN [acked EXCEPT ![c] = thread[s].v] ELSE acked
      /\ thread' = [thread EXCEPT ![s] = R!Free]
      /\ UNCHANGED <<edits, port, starts, air, paired, losses, part, obj>>
  BY DEF R!Answer, R!relay, R!files
<1>2. /\ c \in Client /\ at[c] = R!Waiting(s) /\ thread[s].v \in 0 .. MaxVersions
      /\ acked[c] < thread[s].v /\ thread[s].v <= edits[c]
  BY <1>1 DEF MInv, R!TypeOK, Links
<1> HIDE DEF c
<1>3. /\ \A d \in Client : at'[d] = IF d = c THEN R!Idle ELSE at[d]
      /\ \A r \in Slot : thread'[r] = IF r = s THEN R!Free ELSE thread[r]
      /\ \A d \in Client : acked'[d] = IF d = c /\ thread[s].pc = "done" THEN thread[s].v
                                       ELSE acked[d]
  BY <1>1, <1>2 DEF MInv, R!TypeOK
<1>4. R!Idle.pc = "idle" /\ R!Free.pc = "free" /\ R!Free.fd = "gone"
  BY DEF R!Idle, R!Free, R!Handling
<1>5. \A d \in Client : d # c /\ at[d].pc = "waiting" => at[d].ref # s
  BY DEF MInv, Links, c
<1>6. R!TypeOK'
  <2>1. /\ R!Idle \in [pc : {"idle"}, ref : Nat]
        /\ R!Free \in [pc : {"free"}, c : {0}, v : {0}, fd : {"gone"}]
    BY DEF R!Idle, R!Free, R!Handling
  <2>2. 0 \in 0 .. MaxVersions
    BY <1>2
  <2>3. at' \in [Client -> [pc : {"idle", "found", "waiting"}, ref : Nat \cup Slot]]
    BY <1>1, <2>1 DEF MInv, R!TypeOK
  <2>4. thread' \in [Slot -> Requests]
    <3>1. R!Free \in Requests
      BY <2>1, <2>2 DEF Requests
    <3>2. thread \in [Slot -> Requests]
      BY DEF MInv, R!TypeOK, Requests
    <3> QED BY <1>1, <3>1, <3>2
  <2>5. acked' \in [Client -> 0 .. MaxVersions]
    BY <1>1, <1>2 DEF MInv, R!TypeOK
  <2> QED BY <1>1, <2>3, <2>4, <2>5 DEF MInv, R!TypeOK, Requests
<1>7. Links'
  <2>1. ASSUME NEW d \in Client PROVE acked'[d] <= edits'[d]
    BY <1>1, <1>2, <1>3 DEF MInv, Links
  <2>2. ASSUME NEW d \in Client
        PROVE  /\ at'[d].pc = "found" => acked'[d] < edits'[d]
               /\ at'[d].pc = "waiting" => /\ at'[d].ref \in Slot
                                          /\ thread'[at'[d].ref].pc # "free"
                                          /\ thread'[at'[d].ref].c = d
    BY <1>1, <1>3, <1>4, <1>5 DEF MInv, Links
  <2>3. ASSUME NEW r \in Slot, thread'[r].pc # "free"
        PROVE  /\ thread'[r].c \in Client /\ at'[thread'[r].c] = R!Waiting(r)
               /\ acked'[thread'[r].c] < thread'[r].v
               /\ thread'[r].v <= edits'[thread'[r].c]
    <3>1. r # s /\ thread'[r] = thread[r]
      BY <1>3, <1>4, <2>3
    <3>2. thread[r].c # c
      <4>1. at[thread[r].c] = R!Waiting(r)
        BY <2>3, <3>1 DEF MInv, Links
      <4> QED BY <1>2, <3>1, <4>1 DEF R!Waiting
    <3> QED BY <1>1, <1>3, <2>3, <3>1, <3>2 DEF MInv, Links
  <2> QED BY <2>1, <2>2, <2>3 DEF Links
<1>8. Writers'
  <2>1. \A r \in Slot : Active(r)' <=> Active(r)
    BY <1>1, <1>3, <1>4 DEF Active
  <2>2. \A r \in Slot : Active(r) => thread'[r] = thread[r]
    BY <1>1, <1>3 DEF Active
  <2> QED BY <1>1, <1>3, <1>4, <2>1, <2>2 DEF MInv, Writers, Active
<1>9. \A d \in Client : Owing(d) => Owing(d)'
  BY <1>1, <1>2, <1>3, <1>4, <1>5 DEF Owing, R!Waiting
<1> QED BY <1>1, <1>6, <1>7, <1>8, <1>9 DEF MInv, Owed

-----------------------------------------------------------------------------
(* The steps of clients and of the relay's process.                        *)

LEMMA SendInv == ASSUME MInv, NEW c \in Client, R!Send(c) PROVE MInv'
<1>1. /\ at[c].pc = "found"
      /\ UNCHANGED <<edits, acked, port, starts, air, paired, losses, part, obj>>
  BY DEF R!Send, R!relay, R!files
<1>2. /\ R!Idle.pc = "idle" /\ R!Idle \in [pc : {"idle"}, ref : Nat]
      /\ acked[c] < edits[c]
  BY <1>1 DEF R!Idle, MInv, Links
<1>3. CASE at' = [at EXCEPT ![c] = R!Idle] /\ UNCHANGED thread
  <2>1. \A d \in Client : at'[d] = IF d = c THEN R!Idle ELSE at[d]
    BY <1>3 DEF MInv, R!TypeOK
  <2>2. R!TypeOK'
    BY <1>1, <1>2, <1>3 DEF MInv, R!TypeOK
  <2>3. Links'
    BY <1>1, <1>2, <1>3, <2>1 DEF MInv, Links, R!Waiting
  <2>4. Writers'
    BY <1>1, <1>3 DEF MInv, Writers, Active
  <2>5. \A d \in Client : Owing(d) => Owing(d)'
    BY <1>1, <1>2, <1>3, <2>1 DEF Owing
  <2> QED BY <1>1, <2>2, <2>3, <2>4, <2>5 DEF MInv, Owed
<1>4. ASSUME NEW s \in R!FreeSlots,
             thread' = [thread EXCEPT ![s] = R!Request(c, edits[c])],
             at' = [at EXCEPT ![c] = R!Waiting(s)]
      PROVE  MInv'
  <2> DEFINE new == R!Request(c, edits[c])
             there == R!Waiting(s)
  <2>1. s \in Slot /\ thread[s].pc = "free"
    BY <1>4 DEF R!FreeSlots, R!Free, R!Handling
  <2>2. /\ new.pc = "open" /\ new.c = c /\ new.v = edits[c] /\ new.fd = "gone"
        /\ there.pc = "waiting" /\ there.ref = s
    BY DEF R!Request, R!Handling, R!Waiting
  <2>3. new \in Requests /\ there \in [pc : {"waiting"}, ref : Slot]
    BY <2>1 DEF R!Request, R!Handling, R!Waiting, Requests, MInv, R!TypeOK
  <2>4. thread' = [thread EXCEPT ![s] = new] /\ at' = [at EXCEPT ![c] = there]
    BY <1>4
  <2> HIDE DEF new
  <2>5. /\ \A d \in Client : at'[d] = IF d = c THEN there ELSE at[d]
        /\ \A r \in Slot : thread'[r] = IF r = s THEN new ELSE thread[r]
    BY <2>4 DEF MInv, R!TypeOK
  <2>6. R!TypeOK'
    <3>1. thread \in [Slot -> Requests]
      BY DEF MInv, R!TypeOK, Requests
    <3>2. thread' \in [Slot -> Requests]
      BY <2>3, <2>4, <3>1
    <3>3. at' \in [Client -> [pc : {"idle", "found", "waiting"}, ref : Nat \cup Slot]]
      BY <2>3, <2>4 DEF MInv, R!TypeOK
    <3> QED BY <1>1, <3>2, <3>3 DEF MInv, R!TypeOK, Requests
  <2>7. Links'
    <3>1. ASSUME NEW d \in Client
          PROVE  /\ acked'[d] <= edits'[d]
                 /\ at'[d].pc = "found" => acked'[d] < edits'[d]
                 /\ at'[d].pc = "waiting" => /\ at'[d].ref \in Slot
                                            /\ thread'[at'[d].ref].pc # "free"
                                            /\ thread'[at'[d].ref].c = d
      BY <1>1, <2>1, <2>2, <2>5 DEF MInv, Links
    <3>2. ASSUME NEW r \in Slot, thread'[r].pc # "free"
          PROVE  /\ thread'[r].c \in Client /\ at'[thread'[r].c] = R!Waiting(r)
                 /\ acked'[thread'[r].c] < thread'[r].v
                 /\ thread'[r].v <= edits'[thread'[r].c]
      <4>1. CASE r = s
        BY <1>1, <1>2, <2>2, <2>5, <4>1 DEF MInv, R!TypeOK
      <4>2. CASE r # s
        <5>1. thread'[r] = thread[r] /\ at[thread[r].c] = R!Waiting(r)
          BY <2>5, <3>2, <4>2 DEF MInv, Links
        <5>2. thread[r].c # c
          BY <1>1, <5>1 DEF R!Waiting
        <5> QED BY <1>1, <2>5, <3>2, <5>1, <5>2 DEF MInv, Links
      <4> QED BY <4>1, <4>2
    <3> QED BY <3>1, <3>2 DEF Links
  <2>8. Writers'
    <3>1. \A r \in Slot : Active(r)' <=> Active(r)
      BY <2>1, <2>2, <2>5 DEF Active
    <3>2. \A r \in Slot : Active(r) => thread'[r] = thread[r]
      BY <2>1, <2>5 DEF Active
    <3> QED BY <1>1, <2>2, <2>5, <3>1, <3>2 DEF MInv, Writers, Active
  <2>9. \A d \in Client : Owing(d) => Owing(d)'
    <3>1. \A d \in Client : at[d].pc = "waiting" => at[d].ref \in Slot /\ at[d].ref # s
      BY <2>1 DEF MInv, Links
    <3>2. Owing(c) => Owing(c)'
      BY <1>1, <2>1, <2>2, <2>5 DEF Owing
    <3>3. \A d \in Client : d # c /\ Owing(d) => Owing(d)'
      BY <1>1, <2>5, <3>1 DEF Owing
    <3> QED BY <3>2, <3>3
  <2> QED BY <1>1, <2>6, <2>7, <2>8, <2>9 DEF MInv, Owed
<1>5. CASE ~(at[c].ref # port \/ R!FreeSlots = {} \/ ~R!Authorized(c))
  <2> DEFINE s == CHOOSE s \in R!FreeSlots : TRUE
  <2>1. s \in R!FreeSlots
    BY <1>5
  <2>2. thread' = [thread EXCEPT ![s] = R!Request(c, edits[c])] /\ at' = [at EXCEPT ![c] = R!Waiting(s)]
    BY <1>5 DEF R!Send
  <2> HIDE DEF s
  <2> QED BY <1>4, <2>1, <2>2
<1> QED BY <1>3, <1>5 DEF R!Send

\* Threads end, their clients with them (Lose, Stop): S says which.
LEMMA DropInv ==
  ASSUME MInv, NEW S \in SUBSET Slot, S = Slot \/ \A s \in S : thread[s].pc \in {"done", "failed"},
         \A s \in Slot : thread'[s] = IF s \in S THEN R!Free ELSE thread[s],
         thread' \in [Slot -> Requests],
         at' \in [Client -> [pc : {"idle", "found", "waiting"}, ref : Nat \cup Slot]],
         \A c \in Client : at'[c] = IF at[c].pc = "waiting" /\ at[c].ref \in S THEN R!Idle ELSE at[c],
         port' \in Nat, UNCHANGED <<edits, acked, starts, air, paired, part, obj>>
  PROVE  MInv'
<1>1. R!Idle.pc = "idle" /\ R!Free.pc = "free" /\ R!Free.fd = "gone"
  BY DEF R!Idle, R!Free, R!Handling
<1>2. R!TypeOK'
  BY DEF MInv, R!TypeOK, Requests
<1>3. Links'
  <2>1. ASSUME NEW d \in Client
        PROVE  /\ acked'[d] <= edits'[d]
               /\ at'[d].pc = "found" => acked'[d] < edits'[d]
               /\ at'[d].pc = "waiting" => /\ at'[d].ref \in Slot
                                          /\ thread'[at'[d].ref].pc # "free"
                                          /\ thread'[at'[d].ref].c = d
    BY <1>1 DEF MInv, Links
  <2>2. ASSUME NEW r \in Slot, thread'[r].pc # "free"
        PROVE  /\ thread'[r].c \in Client /\ at'[thread'[r].c] = R!Waiting(r)
               /\ acked'[thread'[r].c] < thread'[r].v
               /\ thread'[r].v <= edits'[thread'[r].c]
    <3>1. r \notin S /\ thread'[r] = thread[r] /\ at[thread[r].c] = R!Waiting(r)
      BY <1>1, <2>2 DEF MInv, Links
    <3>2. at'[thread[r].c] = at[thread[r].c]
      BY <2>2, <3>1 DEF MInv, Links, R!Waiting
    <3> QED BY <2>2, <3>1, <3>2 DEF MInv, Links
  <2> QED BY <2>1, <2>2 DEF Links
<1>4. Writers'
  <2>1. CASE S = Slot
    BY <1>1, <2>1 DEF Writers, Active
  <2>2. CASE \A s \in S : thread[s].pc \in {"done", "failed"}
    <3>1. \A r \in Slot : Active(r)' <=> Active(r)
      BY <1>1, <2>2 DEF Active
    <3>2. \A r \in Slot : Active(r) => thread'[r] = thread[r]
      BY <2>2 DEF Active
    <3> QED BY <1>1, <3>1, <3>2 DEF MInv, Writers, Active
  <2> QED BY <2>1, <2>2
<1>5. \A d \in Client : Owing(d) => Owing(d)'
  BY <1>1 DEF Owing, MInv, Links
<1> QED BY <1>2, <1>3, <1>4, <1>5 DEF MInv, Owed

LEMMA MStepInv == ASSUME MInv, MaxVersions \in Nat, [R!Next]_(R!vars) PROVE MInv'
<1>1. CASE R!Start \/ R!Announce \/ R!Expire \/ UNCHANGED R!vars
  <2>1. UNCHANGED <<edits, acked, at, thread, paired, part, obj>>
    BY <1>1 DEF R!Start, R!Announce, R!Expire, R!vars, R!clients, R!relay, R!files
  <2>2. port' \in Nat /\ starts' \in Nat /\ air' \subseteq Nat
    <3>1. port \in Nat /\ starts \in Nat /\ air \subseteq Nat
      BY DEF MInv, R!TypeOK
    <3>2. CASE R!Start
      BY <3>1, <3>2 DEF R!Start
    <3>3. CASE R!Announce
      BY <3>1, <3>3 DEF R!Announce
    <3>4. CASE R!Expire
      BY <3>1, <3>4 DEF R!Expire
    <3>5. CASE UNCHANGED R!vars
      BY <3>1, <3>5 DEF R!vars, R!relay
    <3> QED BY <1>1, <3>2, <3>3, <3>4, <3>5
  <2>3. R!TypeOK' /\ Links' /\ Writers'
    BY <2>1, <2>2 DEF MInv, R!TypeOK, Links, Writers, Active
  <2> QED BY <2>1, <2>3 DEF MInv, Owed, Owing
<1>2. CASE R!Stop
  <2>1. /\ thread' = [s \in Slot |-> R!Free] /\ port' = 0
        /\ at' = [c \in Client |-> IF at[c].pc = "waiting" THEN R!Idle ELSE at[c]]
        /\ UNCHANGED <<edits, acked, starts, air, paired, losses, part, obj>>
    BY <1>2 DEF R!Stop, R!files
  <2>2. R!Free \in Requests /\ R!Idle \in [pc : {"idle"}, ref : Nat]
    BY DEF R!Free, R!Handling, Requests, R!Idle
  <2>3. thread' \in [Slot -> Requests]
    BY <2>1, <2>2
  <2>4. at' \in [Client -> [pc : {"idle", "found", "waiting"}, ref : Nat \cup Slot]]
    BY <2>1, <2>2 DEF MInv, R!TypeOK
  <2>5. \A c \in Client : at'[c] = IF at[c].pc = "waiting" /\ at[c].ref \in Slot THEN R!Idle
                                  ELSE at[c]
    BY <2>1 DEF MInv, Links
  <2>6. \A s \in Slot : thread'[s] = IF s \in Slot THEN R!Free ELSE thread[s]
    BY <2>1
  <2> QED BY <2>1, <2>3, <2>4, <2>5, <2>6, DropInv
<1>3. ASSUME NEW c \in Client, R!Lose(c) PROVE MInv'
  <2> DEFINE s == at[c].ref
  <2>1. /\ at[c].pc = "waiting" /\ thread[s].pc \in {"done", "failed"}
        /\ thread' = [thread EXCEPT ![s] = R!Free] /\ at' = [at EXCEPT ![c] = R!Idle]
        /\ UNCHANGED <<edits, acked, port, starts, air, paired, part, obj>>
    BY <1>3 DEF R!Lose, R!files
  <2>2. s \in Slot /\ thread[s].c = c
    BY <2>1 DEF MInv, Links
  <2> HIDE DEF s
  <2>3. R!Free \in Requests /\ R!Idle \in [pc : {"idle"}, ref : Nat]
    BY DEF R!Free, R!Handling, Requests, R!Idle
  <2>4. thread' \in [Slot -> Requests] /\ \A r \in Slot : thread'[r] = IF r \in {s} THEN R!Free ELSE thread[r]
    BY <2>1, <2>3 DEF MInv, R!TypeOK, Requests
  <2>5. at' \in [Client -> [pc : {"idle", "found", "waiting"}, ref : Nat \cup Slot]]
    BY <2>1, <2>3 DEF MInv, R!TypeOK
  <2>6. \A d \in Client : at'[d] = IF at[d].pc = "waiting" /\ at[d].ref \in {s} THEN R!Idle ELSE at[d]
    <3>1. \A d \in Client : at[d].pc = "waiting" /\ at[d].ref = s <=> d = c
      BY <2>1, <2>2 DEF MInv, Links, s
    <3> QED BY <2>1, <3>1 DEF MInv, R!TypeOK
  <2>7. port' \in Nat
    BY <2>1 DEF MInv, R!TypeOK
  <2>8. {s} \in SUBSET Slot /\ \A r \in {s} : thread[r].pc \in {"done", "failed"}
    BY <2>1, <2>2
  <2> QED BY <2>1, <2>4, <2>5, <2>6, <2>7, <2>8, DropInv
<1>4. ASSUME NEW c \in Client, R!Unpair(c) PROVE MInv'
  <2>1. UNCHANGED <<edits, acked, at, thread, port, starts, air, part, obj>>
        /\ paired' \subseteq Client
    BY <1>4 DEF R!Unpair, R!clients, R!files, MInv, R!TypeOK
  <2>2. R!TypeOK' /\ Links' /\ Writers'
    BY <2>1 DEF MInv, R!TypeOK, Links, Writers, Active
  <2> QED BY <2>1, <2>2 DEF MInv, Owed, Owing
<1>5. ASSUME NEW c \in Client, R!Edit(c) PROVE MInv'
  <2>1. /\ edits[c] < MaxVersions /\ edits' = [edits EXCEPT ![c] = edits[c] + 1]
        /\ UNCHANGED <<acked, at, thread, port, starts, air, paired, losses, part, obj>>
    BY <1>5 DEF R!Edit, R!relay, R!files
  <2>2. \A d \in Client : edits'[d] = IF d = c THEN edits[d] + 1 ELSE edits[d]
    BY <2>1 DEF MInv, R!TypeOK
  <2>3. \A d \in Client : edits[d] \in Int /\ acked[d] \in Int /\ acked[d] <= edits[d]
    BY DEF MInv, R!TypeOK, Links
  <2>4. R!TypeOK'
    BY <2>1, <2>3 DEF MInv, R!TypeOK
  <2>5. Links'
    <3>1. \A s \in Slot : thread[s].v \in Int
      BY DEF MInv, R!TypeOK
    <3> QED BY <2>1, <2>2, <2>3, <3>1 DEF MInv, Links
  <2>6. Writers'
    BY <2>1 DEF MInv, Writers, Active
  <2>7. \A d \in Client : Owing(d) => Owing(d)'
    BY <2>1, <2>2, <2>3 DEF Owing
  <2> QED BY <2>1, <2>4, <2>5, <2>6, <2>7 DEF MInv, Owed
<1>6. ASSUME NEW c \in Client, R!Discover(c) PROVE MInv'
  <2>1. PICK p \in air : at' = [at EXCEPT ![c] = R!Found(p)]
    BY <1>6 DEF R!Discover
  <2>2. /\ at[c].pc = "idle" /\ acked[c] # edits[c]
        /\ UNCHANGED <<edits, acked, thread, port, starts, air, paired, losses, part, obj>>
    BY <1>6 DEF R!Discover, R!Idle, R!relay, R!files
  <2>3. R!Found(p).pc = "found" /\ R!Found(p) \in [pc : {"found"}, ref : Nat]
    BY DEF R!Found, MInv, R!TypeOK
  <2>4. \A d \in Client : at'[d] = IF d = c THEN R!Found(p) ELSE at[d]
    BY <2>1 DEF MInv, R!TypeOK
  <2>5. R!TypeOK'
    BY <2>1, <2>2, <2>3 DEF MInv, R!TypeOK
  <2>6. acked[c] < edits[c]
    <3>1. acked[c] \in 0 .. MaxVersions /\ edits[c] \in 0 .. MaxVersions /\ acked[c] <= edits[c]
      BY DEF MInv, R!TypeOK, Links
    <3> QED BY <2>2, <3>1
  <2>7. Links'
    BY <2>2, <2>3, <2>4, <2>6 DEF MInv, Links, R!Waiting
  <2>8. Writers'
    BY <2>2 DEF MInv, Writers, Active
  <2>9. \A d \in Client : Owing(d) => Owing(d)'
    BY <2>2, <2>3, <2>4 DEF Owing
  <2> QED BY <2>2, <2>5, <2>7, <2>8, <2>9 DEF MInv, Owed
<1>7. CASE R!ThreadStep
  BY <1>7, OpenInv, WriteInv, RenameInv, AnswerInv DEF R!ThreadStep
<1> QED BY <1>1, <1>2, <1>3, <1>4, <1>5, <1>6, <1>7, SendInv DEF R!Next, R!Radio

\* Pushes of one key run into each other and threads end anywhere; an object that
\* cannot be read is still owed by a client, whose push was not answered and who
\* pushes it again (FolderTransport::push, relay.rs serve), for any number of
\* clients, threads, versions, restarts, removed devices and lost answers.
THEOREM UnreadableIsOwed ==
  ASSUME MaxVersions \in Nat
  PROVE  R!Spec => []TornIsOwed
<1>1. MInv => TornIsOwed
  BY DEF MInv, Owed, Owing, TornIsOwed, R!TornIsOwed, R!Readable
<1> QED BY <1>1, MInitInv, MStepInv, PTL DEF R!Spec

=============================================================================
