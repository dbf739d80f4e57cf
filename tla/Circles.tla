------------------------------ MODULE Circles -------------------------------
(***************************************************************************)
(* One circle and one memory (pai-sync/circle.rs, crypto.rs, engine.rs):   *)
(* the key goes from member to member by grants, a memory with the         *)
(* circle's tag is sealed under that key, and who leaves drops the key and *)
(* keeps what he has to himself.                                           *)
(*                                                                         *)
(* All devices are paired and have the vault key.  A key of the circle is  *)
(* a number, in the order they were made.  Versions are times; edits get   *)
(* different ones.  Tombstones are left to SyncEngine.                     *)
(***************************************************************************)
EXTENDS Naturals, FiniteSets

CONSTANTS
    Device,
    Nobody,
    MaxKeys, MaxEdits, MaxGrants, MaxLeaves

VARIABLES
    stay,      \* nobody leaves, one device makes the circle and hands it on
    keys,      \* keys of the circle made so far
    key,       \* circle_key of a device
    listed,    \* the row of `circles' is there and not deleted
    had,       \* devices that ever had a key of the circle
    row,       \* the memory on a device
    mirror,    \* versions in sync_objects: of the memory, of the own grant
    remote,    \* the object memory/<id> on the transport
    grants,    \* the objects ckg/<circle>/<device>
    clock, gclock, leaves,
    leaving,   \* the key is dropped, the rows are not fenced off yet
    pc, got,   \* a sync: how far, and the objects a pull has fetched
    out        \* the row a push has read

work == <<pc, got, out>>
vars == <<stay, keys, key, listed, had, row, mirror, remote, grants, clock,
          gclock, leaves, leaving, work>>

NoCircle == 0
Row(at, tag, local, secret) ==
    [at |-> at, tag |-> tag, local |-> local, secret |-> secret]
Obj(at, writer, sealed, secret) ==
    [at |-> at, writer |-> writer, sealed |-> sealed, secret |-> secret]
GrantBy(at, writer, gives) == [at |-> at, writer |-> writer, gives |-> gives]
Fetched(mem, ckg) == [mem |-> mem, ckg |-> ckg]
NoRow == Row(0, FALSE, FALSE, FALSE)
NoObj == Obj(0, Nobody, 0, FALSE)
NoGrant == GrantBy(0, Nobody, 0)
Nothing == Fetched(NoObj, NoGrant)

Init ==
    /\ stay \in BOOLEAN
    /\ keys = 0 /\ key = [d \in Device |-> 0]
    /\ listed = [d \in Device |-> FALSE] /\ had = {}
    /\ row = [d \in Device |-> NoRow] /\ mirror = [d \in Device |-> [mem |-> 0, ckg |-> 0]]
    /\ remote = NoObj /\ grants = [d \in Device |-> NoGrant]
    /\ clock = 0 /\ gclock = 0 /\ leaves = 0 /\ leaving = [d \in Device |-> FALSE]
    /\ pc = [d \in Device |-> "idle"]
    /\ got = [d \in Device |-> Nothing]
    /\ out = [d \in Device |-> NoRow]

At(d, s) == pc' = [pc EXCEPT ![d] = s]

-----------------------------------------------------------------------------
(* Membership: commands, beside whatever sync is running *)

\* circle_key: membership is having the key.
Member(d) == key[d] # 0

\* circle_key_or_generate and the row; with a key it only lists the circle again.
Create(d) ==
    /\ ~leaving[d] /\ (key[d] = 0 => keys < MaxKeys)
    /\ stay => keys = 0
    /\ keys' = IF key[d] = 0 THEN keys + 1 ELSE keys
    /\ key' = IF key[d] = 0 THEN [key EXCEPT ![d] = keys + 1] ELSE key
    /\ listed' = [listed EXCEPT ![d] = TRUE]
    /\ had' = had \cup {d}
    /\ UNCHANGED <<stay, row, mirror, remote, grants, clock, gclock, leaves,
                   leaving, work>>

\* push_circle_grant: sealed to one peer.  The granter mirrors it, but pulls
\* only grants to itself.
Grant(d, e) ==
    /\ e # d /\ Member(d) /\ gclock < MaxGrants
    /\ gclock' = gclock + 1
    /\ grants' = [grants EXCEPT ![e] = GrantBy(gclock + 1, d, key[d])]
    /\ UNCHANGED <<stay, keys, key, listed, had, row, mirror, remote, clock, leaves,
                   leaving, work>>

\* leave_circle: first the key ...
Leave(d) ==
    /\ ~stay /\ ~leaving[d] /\ listed[d] /\ leaves < MaxLeaves
    /\ key' = [key EXCEPT ![d] = 0]
    /\ leaves' = leaves + 1
    /\ leaving' = [leaving EXCEPT ![d] = TRUE]
    /\ UNCHANGED <<stay, keys, listed, had, row, mirror, remote, grants, clock,
                   gclock, work>>

\* Sensitivity variant of Fenced: rows that leave the circle join the vault.
FencedOpen(r) == Row(r.at, FALSE, r.local, r.secret)

\* A row of the circle stays on this device from now on.
Fenced(r) == IF r.tag THEN Row(r.at, FALSE, TRUE, r.secret) ELSE r

\* ... then the circle and its rows, in one transaction.
LeaveRows(d) ==
    /\ leaving[d]
    /\ listed' = [listed EXCEPT ![d] = FALSE]
    /\ row' = [row EXCEPT ![d] = Fenced(@)]
    /\ leaving' = [leaving EXCEPT ![d] = FALSE]
    /\ UNCHANGED <<stay, keys, key, had, mirror, remote, grants, clock, gclock,
                   leaves, work>>

\* A process that dies in between leaves rows with the tag and without a key.
LeaveDies(d) ==
    /\ leaving[d]
    /\ leaving' = [leaving EXCEPT ![d] = FALSE]
    /\ UNCHANGED <<stay, keys, key, listed, had, row, mirror, remote, grants,
                   clock, gclock, leaves, work>>

-----------------------------------------------------------------------------
(* The memory *)

\* memory.store with a circle, memory.correct, and memory.share, which sets or
\* clears the tag; nobody asks whether the device has the key.  What is written
\* under the tag is secret until somebody takes the tag off.
Write(d) ==
    /\ clock < MaxEdits
    /\ clock' = clock + 1
    /\ \E tag \in BOOLEAN :
          /\ stay => tag /\ Member(d)
          /\ row' = [row EXCEPT ![d] =
                       Row(clock + 1, tag, @.local, tag \/ (@.local /\ @.secret))]
    /\ UNCHANGED <<stay, keys, key, listed, had, mirror, remote, grants, gclock,
                   leaves, leaving, work>>

-----------------------------------------------------------------------------
(* SyncEngine::push *)

News(o, d, seen) == o.writer \notin {Nobody, d} /\ o.at > seen
ToPush(d) == ~row[d].local /\ mirror[d].mem < row[d].at

\* A sync pushes and then pulls; one that has nothing to do is left out.  The
\* rows of the memories are read, those the mirror has are skipped ...
PushRead(d) ==
    /\ pc[d] = "idle"
    /\ ToPush(d) \/ News(remote, d, mirror[d].mem) \/ News(grants[d], d, mirror[d].ckg)
    /\ out' = [out EXCEPT ![d] = IF ToPush(d) THEN row[d] ELSE NoRow]
    /\ At(d, IF ToPush(d) THEN "push" ELSE "list")
    /\ UNCHANGED <<stay, keys, key, listed, had, row, mirror, remote, grants,
                   clock, gclock, leaves, leaving, got>>

\* Sensitivity variant of SealKey: without the circle's key, the vault's.
SealKeyVault(d, r) == IF r.tag /\ Member(d) THEN {key[d]} ELSE {NoCircle}

\* The circle's key where the row read has the tag; none, no push.
SealKey(d, r) ==
    IF ~r.tag THEN {NoCircle} ELSE IF Member(d) THEN {key[d]} ELSE {}

\* ... the others are sealed and sent.
PushSend(d) ==
    /\ pc[d] = "push"
    /\ IF SealKey(d, out[d]) # {}
       THEN /\ \E k \in SealKey(d, out[d]) :
                  remote' = Obj(out[d].at, d, k, out[d].secret)
            /\ mirror' = [mirror EXCEPT ![d].mem = out[d].at]
       ELSE UNCHANGED <<remote, mirror>>
    /\ out' = [out EXCEPT ![d] = NoRow]
    /\ At(d, "list")
    /\ UNCHANGED <<stay, keys, key, listed, had, row, grants, clock, gclock, leaves, leaving, got>>

-----------------------------------------------------------------------------
(* SyncEngine::pull *)

\* The list, and the objects that the mirror does not have.
PullList(d) ==
    /\ pc[d] = "list"
    /\ got' = [got EXCEPT ![d] =
          Fetched(IF News(remote, d, mirror[d].mem) THEN remote ELSE NoObj,
                  IF News(grants[d], d, mirror[d].ckg) THEN grants[d] ELSE NoGrant)]
    /\ At(d, IF News(grants[d], d, mirror[d].ckg) THEN "grant" ELSE "memory")
    /\ UNCHANGED <<stay, keys, key, listed, had, row, mirror, remote, grants,
                   clock, gclock, leaves, leaving, out>>

Done(d) ==
    /\ got' = [got EXCEPT ![d] = Nothing]
    /\ At(d, "idle")

\* adopt_circle_key
Conflict(d) == key[d] \notin {0, got[d].ckg.gives}

\* Grants come first.  A different key is an error and ends the pull, with all
\* that it has fetched: this time, and every time until the user leaves.
ApplyGrant(d) ==
    /\ pc[d] = "grant"
    /\ IF Conflict(d)
       THEN Done(d) /\ UNCHANGED <<key, listed, had, mirror>>
       ELSE /\ key' = [key EXCEPT ![d] = got[d].ckg.gives]
            /\ listed' = [listed EXCEPT ![d] = TRUE]
            /\ had' = had \cup {d}
            /\ mirror' = [mirror EXCEPT ![d].ckg = got[d].ckg.at]
            /\ At(d, "memory") /\ UNCHANGED got
    /\ UNCHANGED <<stay, keys, row, remote, grants, clock, gclock, leaves, leaving, out>>

\* list_circles: the keys there are to try.
Candidates(d) == IF listed[d] /\ Member(d) THEN {key[d]} ELSE {}

\* open_scoped: the vault's key, else the circle's.
Opens(d, o) == o.sealed \in {NoCircle} \cup Candidates(d)

\* Sensitivity variant of Seen: what cannot be opened is not looked at again.
SeenAnyway(d) == TRUE

\* Only what was applied gets into the mirror.
Seen(d) == Opens(d, got[d].mem)

OpenMemory(d) ==
    /\ pc[d] = "memory"
    /\ IF got[d].mem # NoObj /\ Opens(d, got[d].mem)
       THEN At(d, "apply") /\ UNCHANGED <<mirror, got>>
       ELSE /\ Done(d)
            /\ mirror' = IF got[d].mem # NoObj /\ Seen(d)
                         THEN [mirror EXCEPT ![d].mem = got[d].mem.at] ELSE mirror
    /\ UNCHANGED <<stay, keys, key, listed, had, row, remote, grants, clock, gclock,
                   leaves, leaving, out>>

\* The tag of the row is what opened the object.  The scope of a row that is
\* there is left alone.
ApplyMemory(d) ==
    /\ pc[d] = "apply"
    /\ LET o == got[d].mem IN
       /\ row' = IF row[d].at >= o.at THEN row
                 ELSE [row EXCEPT ![d] =
                               Row(o.at, o.sealed # NoCircle, @.local, o.secret)]
       /\ mirror' = [mirror EXCEPT ![d].mem = o.at]
    /\ Done(d)
    /\ UNCHANGED <<stay, keys, key, listed, had, remote, grants, clock, gclock,
                   leaves, leaving, out>>

Sync(d) ==
    \/ PushRead(d) \/ PushSend(d) \/ PullList(d)
    \/ ApplyGrant(d) \/ OpenMemory(d) \/ ApplyMemory(d)
\* pai circle create, grant and leave
Command(d) ==
    \/ Create(d) \/ Leave(d) \/ LeaveRows(d) \/ LeaveDies(d)
    \/ \E e \in Device : Grant(d, e)

Next == \E d \in Device : Command(d) \/ Write(d) \/ Sync(d)

\* A sync goes on, and there is always another one.
Fairness == \A d \in Device : WF_vars(Sync(d))
Spec == Init /\ [][Next]_vars
-----------------------------------------------------------------------------
TypeOK ==
    /\ keys \in 0 .. MaxKeys /\ key \in [Device -> 0 .. keys]
    /\ had \subseteq Device /\ {d \in Device : key[d] # 0} \subseteq had
    /\ remote.sealed \in 0 .. keys
    /\ pc \in [Device -> {"idle", "push", "list", "grant", "memory", "apply"}]

\* "The federation boundary is cryptographic": what was written under the tag is
\* on no device that never had a key of the circle, while members leave and
\* come back, die in the middle of it, and sync.
Boundary == \A d \in Device : row[d].secret => d \in had \/ row[d].tag

\* "They become device_local so nothing leaks": what somebody wrote under the
\* tag is never on the transport under the vault's key.
NoLeak == remote.secret => remote.sealed # NoCircle

CircleIsKept == TypeOK /\ Boundary /\ NoLeak

\* Nobody leaves: in the end every member has the newest version that reached
\* the transport, also one that was there before its grant.
MembersRead == stay => \A d \in had : row[d].at >= remote.at
=============================================================================
