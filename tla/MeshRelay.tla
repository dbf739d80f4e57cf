----------------------------- MODULE MeshRelay -----------------------------
(***************************************************************************)
(* The relay that a device serves its paired devices on the local network *)
(* (pai-mesh, relay.rs), down to the files under its directory             *)
(* (FolderTransport).                                                      *)
(*                                                                         *)
(* One object, which several clients push.  A push writes KEY.part and     *)
(* renames it: all pushes of a key write to the same name, from threads    *)
(* that no lock holds apart.  Clients find the relay's port by what it     *)
(* announces.                                                              *)
(***************************************************************************)
EXTENDS Naturals, FiniteSets

CONSTANTS
    Client,       \* devices paired with the relay's
    Slot,         \* MAX_REQUESTS threads
    MaxEdits,     \* bound: versions of a client's row
    MaxStarts,    \* bound: starts of the relay
    MaxUnpairs,   \* bound: devices unpaired
    MaxLosses     \* bound: answers that are lost

VARIABLES
    edits,        \* edits[c]: the version of the row on c
    acked,        \* acked[c]: the version that sync_mirror records
    at,           \* at[c]: idle, found (a port), or waiting (for a thread)
    thread,       \* thread[s]: the request that a thread of the relay handles
    port,         \* where the relay listens, 0 when it is down
    starts,
    air,          \* ports announced in datagrams that verify
    paired,       \* peers of the relay's device
    losses,
    part,         \* the content of KEY.part, or no file
    obj           \* the content of KEY.syncobj

clients == <<edits, acked, at>>
files == <<part, obj>>
relay == <<port, starts, air, paired, losses>>
vars == <<clients, thread, relay, files>>

Idle == [pc |-> "idle", ref |-> 0]
Found(p) == [pc |-> "found", ref |-> p]
Waiting(s) == [pc |-> "waiting", ref |-> s]
Handling(pc, c, v, fd) == [pc |-> pc, c |-> c, v |-> v, fd |-> fd]
Free == Handling("free", 0, 0, "gone")
Request(c, v) == Handling("open", c, v, "gone")

\* Contents: no file, empty (just truncated), torn (bytes of two writers), or
\* all of what one client wrote.
NoFile == "none"
Content == {NoFile, "empty", "torn", "whole"}

Init ==
    /\ edits = [c \in Client |-> 0] /\ acked = [c \in Client |-> 0]
    /\ at = [c \in Client |-> Idle]
    /\ thread = [s \in Slot |-> Free]
    /\ port = 0 /\ starts = 0 /\ losses = 0 /\ air = {} /\ paired = Client
    /\ part = NoFile /\ obj = NoFile

\* FolderTransport::pull and list: what does not parse is no object.
Readable == obj = "whole"

-----------------------------------------------------------------------------
(* The relay's process *)

\* `pai sync serve --announce', on any port.
Start ==
    /\ port = 0 /\ starts < MaxStarts
    /\ starts' = starts + 1 /\ port' = starts + 1
    /\ UNCHANGED <<clients, thread, air, paired, losses, files>>

\* It ends with all its threads, wherever they are; the files stay.
Stop ==
    /\ port # 0 /\ starts < MaxStarts
    /\ port' = 0
    /\ thread' = [s \in Slot |-> Free]
    /\ at' = [c \in Client |-> IF at[c].pc = "waiting" THEN Idle ELSE at[c]]
    /\ UNCHANGED <<edits, acked, starts, air, paired, losses, files>>

\* Every two seconds, signed; what was announced is heard (again) until it is
\* older than MAX_SKEW_SECS.
Announce ==
    /\ port # 0 /\ port \notin air
    /\ air' = air \cup {port}
    /\ UNCHANGED <<clients, thread, port, starts, paired, losses, files>>
Expire ==
    /\ \E p \in air : p # port /\ air' = air \ {p}
    /\ UNCHANGED <<clients, thread, port, starts, paired, losses, files>>

Unpair(c) ==
    /\ c \in paired /\ Cardinality(Client \ paired) < MaxUnpairs
    /\ paired' = paired \ {c}
    /\ UNCHANGED <<clients, thread, port, starts, air, losses, files>>

-----------------------------------------------------------------------------
(* A client *)

Edit(c) ==
    /\ edits[c] < MaxEdits
    /\ edits' = [edits EXCEPT ![c] = @ + 1]
    /\ UNCHANGED <<acked, at, thread, relay, files>>

\* lan_transport: of the announcements of a device, the last one received.
Discover(c) ==
    /\ at[c] = Idle /\ acked[c] # edits[c]
    /\ \E p \in air : at' = [at EXCEPT ![c] = Found(p)]
    /\ UNCHANGED <<edits, acked, thread, relay, files>>

\* The bearer tokens of the peers, as they are at each request.
Authorized(c) == c \in paired

FreeSlots == {s \in Slot : thread[s] = Free}

\* RelayTransport::push and serve: nobody listens at that port any more, all
\* threads are busy (503), the token is not a peer's (401), or a thread takes it.
Send(c) ==
    /\ at[c].pc = "found"
    /\ IF at[c].ref # port \/ FreeSlots = {} \/ ~Authorized(c)
       THEN at' = [at EXCEPT ![c] = Idle] /\ UNCHANGED thread
       ELSE LET s == CHOOSE s \in FreeSlots : TRUE IN
            /\ thread' = [thread EXCEPT ![s] = Request(c, edits[c])]
            /\ at' = [at EXCEPT ![c] = Waiting(s)]
    /\ UNCHANGED <<edits, acked, relay, files>>

\* The answer is lost (the client's timeout is longer than a thread is at its
\* files).
Lose(c) ==
    /\ at[c].pc = "waiting" /\ thread[at[c].ref].pc \in {"done", "failed"}
    /\ losses < MaxLosses /\ losses' = losses + 1
    /\ thread' = [thread EXCEPT ![at[c].ref] = Free]
    /\ at' = [at EXCEPT ![c] = Idle]
    /\ UNCHANGED <<edits, acked, port, starts, air, paired, files>>

-----------------------------------------------------------------------------
(* FolderTransport::push, in a thread *)

\* fs::write opens KEY.part: a file that is there is truncated and shared.
Open(s) ==
    /\ thread[s].pc = "open"
    /\ part' = "empty"
    /\ thread' = [thread EXCEPT ![s] = Handling("write", @.c, @.v, "part")]
    /\ UNCHANGED <<clients, relay, obj>>

\* It writes to the file it opened, under whatever name that is by now.  What
\* another thread wrote before shows through unless it is the shorter one.
Over(content) == IF content = "empty" THEN {"whole"} ELSE {"whole", "torn"}
Write(s) ==
    /\ thread[s].pc = "write"
    /\ \/ thread[s].fd = "part" /\ part' \in Over(part) /\ UNCHANGED obj
       \/ thread[s].fd = "obj" /\ obj' \in Over(obj) /\ UNCHANGED part
       \/ thread[s].fd = "gone" /\ UNCHANGED files
    /\ thread' = [thread EXCEPT ![s] = Handling("rename", @.c, @.v, @.fd)]
    /\ UNCHANGED <<clients, relay>>

\* Every open file keeps its identity through the rename.
Moved(fd) == IF fd = "part" THEN "obj" ELSE "gone"
RenamedBy(s) ==
    [r \in Slot |->
        IF r = s THEN Handling("done", thread[s].c, thread[s].v, "gone")
        ELSE Handling(thread[r].pc, thread[r].c, thread[r].v, Moved(thread[r].fd))]

\* Sensitivity variant of Rename: a file that is no longer there was renamed.
RenameIdempotent(s) ==
    /\ thread[s].pc = "rename"
    /\ IF part = NoFile
       THEN /\ thread' = [thread EXCEPT ![s] = Handling("done", @.c, @.v, "gone")]
            /\ UNCHANGED files
       ELSE /\ obj' = part /\ part' = NoFile
            /\ thread' = RenamedBy(s)
    /\ UNCHANGED <<clients, relay>>

\* Renamed (204), or another thread renamed it before (500).
Rename(s) ==
    /\ thread[s].pc = "rename"
    /\ IF part = NoFile
       THEN /\ thread' = [thread EXCEPT ![s] = Handling("failed", @.c, @.v, "gone")]
            /\ UNCHANGED files
       ELSE /\ obj' = part /\ part' = NoFile
            /\ thread' = RenamedBy(s)
    /\ UNCHANGED <<clients, relay>>

\* The client records what was stored; what was not it pushes with its next sync.
Answer(s) ==
    /\ thread[s].pc \in {"done", "failed"}
    /\ LET c == thread[s].c IN
       /\ at' = [at EXCEPT ![c] = Idle]
       /\ acked' = IF thread[s].pc = "done" THEN [acked EXCEPT ![c] = thread[s].v]
                   ELSE acked
    /\ thread' = [thread EXCEPT ![s] = Free]
    /\ UNCHANGED <<edits, relay, files>>

-----------------------------------------------------------------------------
ThreadStep == \E s \in Slot : Open(s) \/ Write(s) \/ Rename(s) \/ Answer(s)
Radio == Announce \/ Expire

Next ==
    \/ Start \/ Stop \/ Radio
    \/ \E c \in Client : Unpair(c) \/ Edit(c) \/ Discover(c) \/ Send(c) \/ Lose(c)
    \/ ThreadStep

\* Threads run, datagrams are sent and grow old, devices sync again and again.
Fairness ==
    /\ WF_vars(ThreadStep) /\ WF_vars(Radio)
    /\ \A c \in Client : WF_vars(Discover(c) \/ Send(c))

Spec == Init /\ [][Next]_vars /\ Fairness
-----------------------------------------------------------------------------
TypeOK ==
    /\ acked \in [Client -> 0 .. MaxEdits] /\ edits \in [Client -> 0 .. MaxEdits]
    /\ at \in [Client -> [pc : {"idle", "found", "waiting"}, ref : Nat \cup Slot]]
    /\ thread \in [Slot -> [pc : {"free", "open", "write", "rename", "done", "failed"},
                            c : Client \cup {0}, v : 0 .. MaxEdits,
                            fd : {"part", "obj", "gone"}]]
    /\ port \in Nat /\ starts \in Nat /\ air \subseteq Nat
    /\ part \in Content /\ obj \in Content
    /\ paired \subseteq Client

\* Pushes of one key run into each other, and threads end anywhere: an object
\* that cannot be read is still owed by a client, whose push was not answered
\* and who pushes it again.
TornIsOwed == obj # NoFile /\ ~Readable => \E c \in Client : acked[c] # edits[c]

\* What paired devices push through a relay that they can find is stored, whole.
Stored == \A c \in Client : acked[c] = edits[c] /\ (edits[c] > 0 => Readable)
Settles == <>[](port # 0 /\ paired = Client => Stored)
=============================================================================
