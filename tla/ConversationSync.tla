-------------------------- MODULE ConversationSync --------------------------
(***************************************************************************)
(* One conversation and its messages, as ConversationStore edits them      *)
(* (crates/pai-agent/src/store.rs) and the sync engine ships them          *)
(* (crates/pai-sync/src/engine.rs).  The conversation is a last-writer-wins*)
(* row; messages are immutable, pushed once, and only land under a live    *)
(* conversation.                                                           *)
(*                                                                         *)
(* The transport is a directory.  On one NFS share or on the relay every   *)
(* device reads the same files; a directory that Syncthing or rsync        *)
(* replicates brings the files over one by one, in any order.              *)
(***************************************************************************)
EXTENDS Naturals, FiniteSets

CONSTANTS
    Device,
    Msg,          \* message ids
    Author,       \* Author[m]: the device that writes message m
    MaxEdits,     \* bound: writes to the conversation row
    MaxDeletes    \* bound: deletions of the conversation

ASSUME ConversationAssumption ==
    /\ Author \in [Msg -> Device]
    /\ MaxEdits \in Nat
    /\ MaxDeletes \in Nat

VARIABLES
    replicated, \* TRUE: each device has its own copy of the directory
    clock,    \* updated_at of the last write of the row, on any device
    deletes,  \* deletions so far
    written,  \* messages written so far
    conv,     \* conv[d]: the conversation row on d
    msgs,     \* msgs[d]: the message rows on d
    mirrored, \* mirrored[d]: what d's sync_objects records of the conversation and messages
    folder,   \* the directory: the conversation's file and the message files
    view      \* view[d]: d's copy of the directory

vars == <<replicated, clock, deletes, written, conv, msgs, mirrored, folder, view>>

\* A conversation row: updated_at, deleted, sync_scope='synchronized'.
Row(t, del, sync) == [t |-> t, del |-> del, sync |-> sync]

RowType == [t: Nat, del: BOOLEAN, sync: BOOLEAN]

NoConv == Row(0, FALSE, FALSE)

\* The conversation's object: its updated_at and tombstone flag, and the pusher
\* (a set: empty while there is no such file).
File(t, del, writer) == [t |-> t, del |-> del, writer |-> writer]

FileType == [t: Nat, del: BOOLEAN, writer: SUBSET Device]

\* A directory: the conversation's file, and for every message file its pusher.
DirType == [conv: FileType, msgs: SUBSET (Msg \X Device)]

Live(r) == r.t > 0 /\ ~r.del

Dir(d) == IF replicated THEN view[d] ELSE folder

-----------------------------------------------------------------------------
Init ==
    /\ replicated \in BOOLEAN
    /\ clock = 0
    /\ deletes = 0
    /\ written = {}
    /\ conv = [d \in Device |-> NoConv]
    /\ msgs = [d \in Device |-> {}]
    /\ mirrored = [d \in Device |-> [conv |-> 0, msgs |-> {}]]
    /\ folder = [conv |-> File(0, FALSE, {}), msgs |-> {}]
    /\ view = [d \in Device |-> folder]

(* ConversationStore *)

\* Every write of the row stamps updated_at with now(), later than the ones before.
Stamp(d, del, sync) ==
    /\ clock < MaxEdits
    /\ clock' = clock + 1
    /\ conv' = [conv EXCEPT ![d] = Row(clock + 1, del, sync)]

\* create: an id of its own, device_local.
Create(d) ==
    /\ clock = 0
    /\ Stamp(d, FALSE, FALSE)
    /\ UNCHANGED <<replicated, deletes, written, msgs, mirrored, folder, view>>

\* rename and set_title_if_empty: a title; the other columns keep their values.
Rename(d) ==
    /\ conv[d].t > 0
    /\ Stamp(d, conv[d].del, conv[d].sync)
    /\ UNCHANGED <<replicated, deletes, written, msgs, mirrored, folder, view>>

\* set_sync_scope: share the conversation, or pull it back to this device.
SetSyncScope(d, sync) ==
    /\ conv[d].t > 0
    /\ conv[d].sync # sync
    /\ Stamp(d, conv[d].del, sync)
    /\ UNCHANGED <<replicated, deletes, written, msgs, mirrored, folder, view>>

\* delete: the messages go, the row stays as a tombstone.
Delete(d) ==
    /\ conv[d].t > 0
    /\ deletes < MaxDeletes
    /\ deletes' = deletes + 1
    /\ msgs' = [msgs EXCEPT ![d] = {}]
    /\ Stamp(d, TRUE, conv[d].sync)
    /\ UNCHANGED <<replicated, written, mirrored, folder, view>>

\* append: the foreign key asks for the conversation row, deleted or not; the
\* row's updated_at is left alone.
Append(d, m) ==
    /\ Author[m] = d
    /\ m \notin written
    /\ conv[d].t > 0
    /\ written' = written \cup {m}
    /\ msgs' = [msgs EXCEPT ![d] = @ \cup {m}]
    /\ UNCHANGED <<replicated, clock, deletes, conv, mirrored, folder, view>>

-----------------------------------------------------------------------------
(* push: push_conversations, then push_messages *)

ConvToPush(d) == conv[d].sync /\ conv[d].t > mirrored[d].conv

\* Sensitivity variant of MsgsToPush: messages travel only with a changed row.
MsgsToPushWithConv(d) ==
    IF ConvToPush(d) /\ Live(conv[d]) THEN msgs[d] \ mirrored[d].msgs ELSE {}

MsgsToPush(d) ==
    IF conv[d].sync /\ Live(conv[d]) THEN msgs[d] \ mirrored[d].msgs ELSE {}

Push(d) ==
    /\ ConvToPush(d) \/ MsgsToPush(d) # {}
    /\ folder' =
         [conv |-> IF ConvToPush(d) THEN File(conv[d].t, conv[d].del, {d})
                                    ELSE folder.conv,
          msgs |-> {f \in folder.msgs : f[1] \notin MsgsToPush(d)}
                     \cup (MsgsToPush(d) \X {d})]
    /\ mirrored' = [mirrored EXCEPT ![d] =
         [conv |-> IF ConvToPush(d) THEN conv[d].t ELSE mirrored[d].conv,
          msgs |-> mirrored[d].msgs \cup MsgsToPush(d)]]
    /\ UNCHANGED <<replicated, clock, deletes, written, conv, msgs, view>>

\* The replication tool copies one file into d's directory.
DeliverConv(d) ==
    /\ replicated
    /\ view[d].conv # folder.conv
    /\ view' = [view EXCEPT ![d] = [conv |-> folder.conv, msgs |-> view[d].msgs]]
    /\ UNCHANGED <<replicated, clock, deletes, written, conv, msgs, mirrored, folder>>

DeliverMsg(d, f) ==
    /\ replicated
    /\ f \notin view[d].msgs
    /\ view' = [view EXCEPT ![d] =
         [conv |-> view[d].conv,
          msgs |-> {g \in view[d].msgs : g[1] # f[1]} \cup {f}]]
    /\ UNCHANGED <<replicated, clock, deletes, written, conv, msgs, mirrored, folder>>

-----------------------------------------------------------------------------
(* pull: the conversation's object first (kind_rank), then the messages *)

\* Another device wrote the file, and it is newer than the mirror.
ConvPending(d) ==
    LET f == Dir(d).conv IN f.t > mirrored[d].conv /\ d \notin f.writer

MsgsPending(d) ==
    {m \in Msg : /\ m \notin mirrored[d].msgs
                 /\ \E e \in Device \ {d} : <<m, e>> \in Dir(d).msgs}

\* apply_conversation: the upsert is guarded, revives the row and shares it.
ApplyConversation(r, f) == IF f.t > r.t THEN Row(f.t, FALSE, TRUE) ELSE r

\* Sensitivity variant of ApplyTombstone: the row loses its sync_scope.
ApplyTombstoneNoScope(r, f) ==
    IF r.t > 0 /\ r.t < f.t THEN [t |-> f.t, del |-> TRUE] ELSE r

\* apply_conv_tombstone, first statement: the update is guarded.
ApplyTombstone(r, f) ==
    IF r.t > 0 /\ r.t < f.t THEN Row(f.t, TRUE, r.sync) ELSE r

\* The row after the pull.
PulledRow(d) ==
    LET f == Dir(d).conv
    IN  CASE ~ConvPending(d) -> conv[d]
          [] ConvPending(d) /\ f.del -> ApplyTombstone(conv[d], f)
          [] ConvPending(d) /\ ~f.del -> ApplyConversation(conv[d], f)

\* apply_conv_tombstone, second statement: DELETE FROM messages, unguarded.
KeptMessages(d) ==
    IF ConvPending(d) /\ Dir(d).conv.del THEN {} ELSE msgs[d]

\* Sensitivity variant of LandedMessages: the conversation is not looked at.
LandedAnyway(d) == MsgsPending(d)

\* apply_message: INSERT OR IGNORE when the conversation is live, else dropped.
LandedMessages(d) == IF Live(PulledRow(d)) THEN MsgsPending(d) ELSE {}

\* Everything pending is mirrored, what was dropped included.
Pull(d) ==
    /\ ConvPending(d) \/ MsgsPending(d) # {}
    /\ conv' = [conv EXCEPT ![d] = PulledRow(d)]
    /\ msgs' = [msgs EXCEPT ![d] = KeptMessages(d) \cup LandedMessages(d)]
    /\ mirrored' = [mirrored EXCEPT ![d] =
         [conv |-> IF ConvPending(d) THEN Dir(d).conv.t ELSE mirrored[d].conv,
          msgs |-> mirrored[d].msgs \cup MsgsPending(d)]]
    /\ UNCHANGED <<replicated, clock, deletes, written, folder, view>>

-----------------------------------------------------------------------------
Store(d) ==
    \/ Create(d) \/ Rename(d) \/ Delete(d)
    \/ \E sync \in BOOLEAN : SetSyncScope(d, sync)
    \/ \E m \in Msg : Append(d, m)

Deliver(d) == DeliverConv(d) \/ \E f \in folder.msgs : DeliverMsg(d, f)

Next == \E d \in Device : Store(d) \/ Push(d) \/ Deliver(d) \/ Pull(d)

Spec == Init /\ [][Next]_vars

\* `pai sync run` is started again and again, and the tool copies every file.
FairSpec ==
    /\ Spec
    /\ \A d \in Device : WF_vars(Push(d)) /\ WF_vars(Pull(d)) /\ WF_vars(Deliver(d))

-----------------------------------------------------------------------------
\* Types of the tables, of the mirror and of the directories.
TypeOK ==
    /\ replicated \in BOOLEAN
    /\ clock \in 0 .. MaxEdits
    /\ deletes \in 0 .. MaxDeletes
    /\ written \in SUBSET Msg
    /\ conv \in [Device -> RowType]
    /\ msgs \in [Device -> SUBSET Msg]
    /\ mirrored \in [Device -> [conv: Nat, msgs: SUBSET Msg]]
    /\ folder \in DirType
    /\ view \in [Device -> DirType]

\* A device keeps no message of another device under a conversation that is
\* absent or deleted there: tombstones clear them and apply_message lets none
\* back in, in whatever order the files arrive.
NoForeignRemains ==
    \A d \in Device : ~Live(conv[d]) => \A m \in msgs[d] : Author[m] = d

\* "devices converge" (lib.rs): on one shared directory, a message of a conversation
\* that nobody deletes and that stays shared reaches every device.
SharedForGood ==
    <>[](\E d \in Device : conv[d].sync /\ clock = conv[d].t)

MessagesArrive ==
    (~replicated /\ [](deletes = 0) /\ SharedForGood)
        => <>[](\A d \in Device : msgs[d] = written)
=============================================================================
