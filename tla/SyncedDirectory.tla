-------------------------- MODULE SyncedDirectory --------------------------
(* What a directory carries for a set of devices: conversations              *)
(* (ConversationSync) and documents (Documents, as D), and what carries it   *)
(* (Transports).                                                             *)
EXTENDS ConversationSync, Transports

CONSTANTS MaxSections, MaxWrites, MaxCrashes
VARIABLES docClock, docDeletes, crashes, content, row, secs, fts, ingesting, applying,
    docMirrored, file, raced

dvars == <<docClock, docDeletes, crashes, content, row, secs, fts, ingesting, applying,
           docMirrored, file, raced>>

D == INSTANCE Documents WITH
    MaxEdits <- MaxWrites, clock <- docClock, deletes <- docDeletes, mirrored <- docMirrored

\* The search index has sections that are there, and what is deleted is not
\* found (pai-documents, engine.rs), but where a deletion meets an ingest or an
\* apply halfway.
SearchIsSound == D!SearchIsSound
============================================================================
