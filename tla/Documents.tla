----------------------------- MODULE Documents -----------------------------
(***************************************************************************)
(* A document on several devices: its row, its sections and the keyword    *)
(* index over them (pai-documents), and its object in the shared directory *)
(* (push_documents, apply_document, apply_doc_tombstone).                  *)
(*                                                                         *)
(* On a device the user's calls and the sync are threads of one process,   *)
(* which use the database in turn: what is done with the connection in     *)
(* hand is one step, but no transaction, so a process that dies leaves its *)
(* first statements.                                                       *)
(***************************************************************************)
EXTENDS Naturals, FiniteSets

CONSTANTS
    Device,
    MaxSections,  \* bound: sections of the document
    MaxEdits,     \* bound: writes of the row
    MaxCrashes    \* bound: processes that die

VARIABLES
    clock,        \* updated_at of the last write of the row, on any device
    deletes,      \* deletions so far
    crashes,
    content,      \* the sections that were extracted
    row,          \* row[d]: updated_at (0: no row), deleted, synchronized
    secs,         \* secs[d]: document_sections
    fts,          \* fts[d]: documents_fts, by the sections' rowids
    ingesting,    \* ingesting[d]: sections that ingest has yet to store
    applying,     \* applying[d]: objects apply_document has found newer (none or one)
    mirrored,     \* mirrored[d]: sync_objects
    file,         \* the object
    raced         \* raced[d]: history: written as deleted while an ingest or apply was under way

index == <<secs, fts>>
shared == <<mirrored, file>>
vars == <<clock, deletes, crashes, content, row, index, ingesting, applying, shared, raced>>

Section == 1 .. MaxSections
Row(t, del, sync) == [t |-> t, del |-> del, sync |-> sync]
NoRow == Row(0, FALSE, FALSE)
Payload(t, del, s, writer) == [t |-> t, del |-> del, secs |-> s, writer |-> writer]

Init ==
    /\ clock = 0 /\ deletes = 0 /\ crashes = 0 /\ content = {}
    /\ row = [d \in Device |-> NoRow]
    /\ secs = [d \in Device |-> {}] /\ fts = [d \in Device |-> {}]
    /\ ingesting = [d \in Device |-> {}] /\ applying = [d \in Device |-> {}]
    /\ mirrored = [d \in Device |-> 0]
    /\ file = Payload(0, FALSE, {}, {})
    /\ raced = [d \in Device |-> FALSE]

\* Either the process lives, or it dies and takes all its threads with it.
Lives == UNCHANGED crashes
Dies(d) ==
    /\ crashes < MaxCrashes /\ crashes' = crashes + 1
    /\ ingesting' = [ingesting EXCEPT ![d] = {}]
    /\ applying' = [applying EXCEPT ![d] = {}]
Indexed(d, s, f) == secs' = [secs EXCEPT ![d] = s] /\ fts' = [fts EXCEPT ![d] = f]
Busy(d) == ingesting[d] # {} \/ applying[d] # {}
Raced(d) == raced' = [raced EXCEPT ![d] = @ \/ Busy(d)]

-----------------------------------------------------------------------------
(* The document store *)

\* What the extractors find: nothing where they fail or know no such format.
Extracted == {{}, Section}

\* ingest: the row first; what is extracted comes later, and the row stays.
Ingest(d) ==
    /\ clock = 0 /\ clock' = 1
    /\ row' = [row EXCEPT ![d] = Row(1, FALSE, FALSE)]
    /\ content' \in Extracted
    /\ ingesting' = [ingesting EXCEPT ![d] = content']
    /\ UNCHANGED <<deletes, crashes, index, applying, shared, raced>>

\* One section is embedded, stored and indexed; whether the row is still there
\* does not matter.
StoreSection(d) ==
    \E x \in ingesting[d] :
        /\ \A y \in ingesting[d] : x <= y
        /\ \/ /\ Lives
              /\ Indexed(d, secs[d] \cup {x}, fts[d] \cup {x})
              /\ ingesting' = [ingesting EXCEPT ![d] = @ \ {x}]
              /\ UNCHANGED applying
           \/ /\ Dies(d)
              /\ Indexed(d, secs[d] \cup {x}, fts[d])
        /\ UNCHANGED <<clock, deletes, content, row, shared, raced>>

\* `pai docs sync ID', by who has the id that ingest returned; it does not ask
\* whether the document is deleted.
SetSyncScope(d, sync) ==
    /\ row[d].t > 0 /\ ingesting[d] = {} /\ row[d].sync # sync
    /\ clock < MaxEdits /\ clock' = clock + 1
    /\ row' = [row EXCEPT ![d] = Row(clock', @.del, sync)]
    /\ IF row[d].del THEN Raced(d) ELSE UNCHANGED raced
    /\ UNCHANGED <<deletes, crashes, content, index, ingesting, applying, shared>>

\* Sensitivity variant of Delete: the sections before their index.
DeleteSectionsFirst(d) ==
    /\ row[d].t > 0 /\ ~row[d].del
    /\ clock < MaxEdits /\ clock' = clock + 1
    /\ deletes' = deletes + 1
    /\ \/ /\ Lives
          /\ Indexed(d, {}, {})
          /\ row' = [row EXCEPT ![d] = Row(clock', TRUE, @.sync)]
          /\ UNCHANGED <<ingesting, applying>>
       \/ Dies(d) /\ Indexed(d, {}, fts[d]) /\ UNCHANGED row
    /\ Raced(d)
    /\ UNCHANGED <<content, shared>>

\* delete: index, sections, row, in this order.
Delete(d) ==
    /\ row[d].t > 0 /\ ~row[d].del
    /\ clock < MaxEdits /\ clock' = clock + 1
    /\ deletes' = deletes + 1
    /\ \/ /\ Lives
          /\ Indexed(d, {}, {})
          /\ row' = [row EXCEPT ![d] = Row(clock', TRUE, @.sync)]
          /\ UNCHANGED <<ingesting, applying>>
       \/ Dies(d) /\ (Indexed(d, secs[d], {}) \/ Indexed(d, {}, {})) /\ UNCHANGED row
    /\ Raced(d)
    /\ UNCHANGED <<content, shared>>

-----------------------------------------------------------------------------
(* The exchange *)

\* push_documents: what is newer than the mirror, with the sections there are.
Push(d) ==
    /\ row[d].sync /\ row[d].t > mirrored[d]
    /\ file' = Payload(row[d].t, row[d].del, IF row[d].del THEN {} ELSE secs[d], {d})
    /\ mirrored' = [mirrored EXCEPT ![d] = row[d].t]
    /\ UNCHANGED <<clock, deletes, crashes, content, row, index, ingesting, applying,
                   raced>>

ToPull(d) == file.t > mirrored[d] /\ d \notin file.writer /\ applying[d] = {}
Seen(d, f) == mirrored' = [mirrored EXCEPT ![d] = f.t]

\* apply_doc_tombstone: index and sections go even if the row is newer.
PullTombstone(d) ==
    /\ ToPull(d) /\ file.del
    /\ Indexed(d, {}, {})
    /\ LET wins == row[d].t > 0 /\ row[d].t < file.t IN
       /\ row' = IF wins THEN [row EXCEPT ![d] = Row(file.t, TRUE, @.sync)] ELSE row
       /\ IF wins THEN Raced(d) ELSE UNCHANGED raced
    /\ Seen(d, file)
    /\ UNCHANGED <<clock, deletes, crashes, content, ingesting, applying, file>>

\* apply_document looks at the row's updated_at.
PullCheck(d) ==
    /\ ToPull(d) /\ ~file.del
    /\ IF row[d].t >= file.t
       THEN Seen(d, file) /\ UNCHANGED applying
       ELSE applying' = [applying EXCEPT ![d] = {file}] /\ UNCHANGED mirrored
    /\ UNCHANGED <<clock, deletes, crashes, content, row, index, ingesting, file, raced>>

\* It stores the blob, then the row unless that is newer by now, and in any case
\* rebuilds index and sections.  A row that was there keeps its scope.
Upserted(r, f) == IF f.t > r.t THEN Row(f.t, FALSE, r.t = 0 \/ r.sync) ELSE r

\* Sensitivity variant of PullRebuild: it adds to the sections there are.
PullRebuildAdds(d) ==
    \E f \in applying[d] :
        /\ row' = [row EXCEPT ![d] = Upserted(@, f)]
        /\ Lives /\ Seen(d, f)
        /\ Indexed(d, f.secs, fts[d] \cup f.secs)
        /\ applying' = [applying EXCEPT ![d] = {}]
        /\ UNCHANGED <<clock, deletes, content, ingesting, file, raced>>

PullRebuild(d) ==
    \E f \in applying[d] :
        /\ row' = [row EXCEPT ![d] = Upserted(@, f)]
        /\ \/ /\ Lives /\ Seen(d, f)
              /\ Indexed(d, f.secs, f.secs)
              /\ applying' = [applying EXCEPT ![d] = {}]
              /\ UNCHANGED ingesting
           \/ /\ Dies(d) /\ UNCHANGED mirrored
              /\ \/ Indexed(d, secs[d], {})
                 \/ \E n \in 0 .. Cardinality(f.secs) :
                       Indexed(d, 1 .. n, 1 .. n) \/ Indexed(d, 1 .. n, 1 .. (n - 1))
        /\ UNCHANGED <<clock, deletes, content, file, raced>>

-----------------------------------------------------------------------------
Next ==
    \E d \in Device :
        \/ Ingest(d) \/ StoreSection(d) \/ Delete(d)
        \/ \E sync \in BOOLEAN : SetSyncScope(d, sync)
        \/ Push(d) \/ PullTombstone(d) \/ PullCheck(d) \/ PullRebuild(d)

Spec == Init /\ [][Next]_vars
-----------------------------------------------------------------------------
TypeOK ==
    /\ row \in [Device -> [t : 0 .. MaxEdits, del : BOOLEAN, sync : BOOLEAN]]
    /\ secs \in [Device -> SUBSET Section] /\ fts \in [Device -> SUBSET Section]
    /\ mirrored \in [Device -> 0 .. MaxEdits]
    /\ \A d \in Device : Cardinality(applying[d]) <= 1

\* SQLite gives the rowid of a deleted section to the next one: an index entry
\* must not outlive its section, wherever a process dies.
IndexHasSections == \A d \in Device : fts[d] \subseteq secs[d]

\* search does not look at documents.deleted: only what is gone is not found.  A
\* deletion, or a change of the scope of a deleted document, that meets an ingest
\* or an apply halfway is the exception.
DeletedIsNotFound ==
    \A d \in Device : (row[d].del /\ ~raced[d]) \/ row[d].t = 0 => secs[d] = {}

\* Until somebody deletes or dies, a document has all its sections on every device
\* that has it.
SectionsTravel ==
    deletes = 0 /\ crashes = 0 =>
        \A d \in Device : row[d].t > 0 /\ ingesting[d] = {} => fts[d] = content

SearchIsSound ==
    TypeOK /\ IndexHasSections /\ DeletedIsNotFound /\ SectionsTravel
=============================================================================
