----------------------------- MODULE Transports -----------------------------
(* What carries the objects: the relay of a paired device (MeshRelay, as R)  *)
(* and the choice of a folder or a relay (SyncTarget, as T).                 *)
EXTENDS Naturals

CONSTANTS Client, Slot, MaxVersions, MaxStarts, MaxUnpairs, MaxLosses
VARIABLES edits, acked, at, thread, port, starts, air, paired, losses, part, obj

rvars == <<edits, acked, at, thread, port, starts, air, paired, losses, part, obj>>

R == INSTANCE MeshRelay WITH MaxEdits <- MaxVersions

CONSTANTS Folder, Url, Local, MaxCalls
VARIABLES saved, auto, due, job, calls, consented, used

tvars == <<saved, auto, due, job, calls, consented, used>>

T == INSTANCE SyncTarget

\* An object that cannot be read is still owed by a client (lan_mesh.rs).
TornIsOwed == R!TypeOK /\ R!TornIsOwed

\* Nothing goes to a public relay without consent (pai-ffi, run_sync).
PublicByConsent == T!TypeOK /\ T!PublicByConsent
=============================================================================
