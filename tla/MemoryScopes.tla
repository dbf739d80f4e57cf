---------------------------- MODULE MemoryScopes ----------------------------
(***************************************************************************)
(* Which memories a run may see and how it tags its own (pai-memory, the   *)
(* memory tools of pai-tools, memory_query of the agent), with the memories *)
(* and the conversation synchronized between devices.                      *)
(*                                                                         *)
(* There is one conversation, whose mode is shared or isolated; runs take  *)
(* place in it or outside of it.  A run reads the mode where it starts and *)
(* awaits an embedder, a model and a user after that; meanwhile, users and *)
(* the sync change everything.                                             *)
(***************************************************************************)
EXTENDS Naturals

CONSTANTS
    Device,
    First,        \* the device where the conversation was created
    Mem,          \* memories that may be written
    NoMem,
    MaxClock,     \* bound: time-stamped writes
    MaxTouches,   \* bound: those of the conversation
    MaxModes,     \* bound: changes of the mode
    MaxCrashes    \* bound: processes that die

VARIABLES
    clock,        \* the last time stamp, on any device
    touches, modes, crashes,
    conv,         \* conv[d]: the conversation: updated_at (0: no row), memory_scope, deleted
    convMirror,   \* convMirror[d]: sync_objects
    convFile,     \* its object
    mem,          \* mem[d][m]: the memory: updated_at, conversation_id, deleted
    memMirror,
    memFile,
    writing,      \* writing[d]: the memory object apply_memory is about to write
    run,          \* run[d]: the agent's run
    confided,     \* history: memories tagged with the conversation when written
    toldOutside,  \* history: memories that runs outside of the conversation were told
    forgot,       \* forgot[d][m]: history: when it was last deleted on d
    raced         \* raced[d]: history: deleted while being written by apply_memory

counts == <<clock, touches, modes, crashes>>
convs == <<conv, convMirror, convFile>>
mems == <<mem, memMirror, memFile, writing>>
history == <<confided, toldOutside, forgot, raced>>
vars == <<counts, convs, mems, run, history>>

Place == {"inside", "outside"}

\* conversation_id: this conversation, or NULL for the memories of all.
Tag == {"inside", "global"}

Conv(t, mode, del) == [t |-> t, mode |-> mode, del |-> del]
Row(t, tag, del) == [t |-> t, tag |-> tag, del |-> del]
NoRow == Row(0, "global", FALSE)
Object(m, t, tag, del, writer) == [m |-> m, t |-> t, tag |-> tag, del |-> del,
                                   writer |-> writer]
NoObject(m) == Object(m, 0, "global", FALSE, {})
Run(pc, place, sees, tag, m) == [pc |-> pc, place |-> place, sees |-> sees, tag |-> tag,
                                 m |-> m]
Idle == Run("idle", "outside", {}, "global", NoMem)

Init ==
    /\ clock = 1 /\ touches = 0 /\ modes = 0 /\ crashes = 0
    /\ conv = [d \in Device |-> Conv(IF d = First THEN 1 ELSE 0, "shared", FALSE)]
    /\ convMirror = [d \in Device |-> 0]
    /\ convFile = [t |-> 0, mode |-> "shared", del |-> FALSE, writer |-> {}]
    /\ mem = [d \in Device |-> [m \in Mem |-> NoRow]]
    /\ memMirror = [d \in Device |-> [m \in Mem |-> 0]]
    /\ memFile = [m \in Mem |-> NoObject(m)]
    /\ writing = [d \in Device |-> {}]
    /\ run = [d \in Device |-> Idle]
    /\ confided = {} /\ toldOutside = {} /\ raced = {}
    /\ forgot = [d \in Device |-> [m \in Mem |-> 0]]

Tick == clock < MaxClock /\ clock' = clock + 1

-----------------------------------------------------------------------------
(* The conversation *)

\* set_memory_scope: the row's updated_at stays.
SetMemoryScope(d, mode) ==
    /\ conv[d].t > 0 /\ conv[d].mode # mode
    /\ modes < MaxModes /\ modes' = modes + 1
    /\ conv' = [conv EXCEPT ![d] = Conv(@.t, mode, @.del)]
    /\ UNCHANGED <<clock, touches, crashes, convMirror, convFile, mems, run, history>>

\* rename, set_title_if_empty; delete, which keeps the memories.
Touch(d, del) ==
    /\ conv[d].t > 0 /\ ~conv[d].del
    /\ touches < MaxTouches /\ touches' = touches + 1
    /\ Tick
    /\ conv' = [conv EXCEPT ![d] = Conv(clock', @.mode, del)]
    /\ UNCHANGED <<modes, crashes, convMirror, convFile, mems, run, history>>

PushConv(d) ==
    /\ conv[d].t > convMirror[d]
    /\ convFile' = [t |-> conv[d].t, mode |-> conv[d].mode, del |-> conv[d].del,
                    writer |-> {d}]
    /\ convMirror' = [convMirror EXCEPT ![d] = conv[d].t]
    /\ UNCHANGED <<counts, conv, mems, run, history>>

\* apply_conversation, apply_conv_tombstone: the later row, with its mode.
PullConv(d) ==
    /\ convFile.t > convMirror[d] /\ d \notin convFile.writer
    /\ convMirror' = [convMirror EXCEPT ![d] = convFile.t]
    /\ conv' = IF convFile.del
               THEN IF conv[d].t \in 1 .. (convFile.t - 1)
                    THEN [conv EXCEPT ![d] = Conv(convFile.t, @.mode, TRUE)] ELSE conv
               ELSE IF conv[d].t < convFile.t
                    THEN [conv EXCEPT ![d] = Conv(convFile.t, convFile.mode, FALSE)]
                    ELSE conv
    /\ UNCHANGED <<counts, convFile, mems, run, history>>

-----------------------------------------------------------------------------
(* A run *)

\* A conversation that is not found counts as shared.
Isolated(d) == conv[d].t > 0 /\ ~conv[d].del /\ conv[d].mode = "isolated"

\* memory_query and conversation_clause.
Visible(d, place) ==
    IF place = "outside" THEN {"global"}
    ELSE IF Isolated(d) THEN {"inside"} ELSE {"inside", "global"}

Recall(d, tags) == {m \in Mem : mem[d][m].t > 0 /\ ~mem[d][m].del /\ mem[d][m].tag \in tags}
Tell(place, found) ==
    toldOutside' = IF place = "outside" THEN toldOutside \cup found ELSE toldOutside
Step(d, r) == run' = [run EXCEPT ![d] = r]

Start(d) ==
    /\ run[d] = Idle
    /\ \E place \in Place :
          /\ place = "inside" => conv[d].t > 0 /\ ~conv[d].del
          /\ Step(d, Run("recall", place, Visible(d, place), "global", NoMem))
    /\ UNCHANGED <<counts, convs, mems, history>>

\* build_request: recall embeds the input, then queries the rows.
RecallInput(d) ==
    /\ run[d].pc = "recall"
    /\ Tell(run[d].place, Recall(d, run[d].sees))
    /\ Step(d, Run("scope", run[d].place, {}, "global", NoMem))
    /\ UNCHANGED <<counts, convs, mems, confided, forgot, raced>>

\* Isolated conversations tag their writes; the mode is read again.
Scope(d) ==
    /\ run[d].pc = "scope"
    /\ LET tag == IF Visible(d, run[d].place) = {"inside"} THEN "inside" ELSE "global"
       IN Step(d, Run("tools", run[d].place, {}, tag, NoMem))
    /\ UNCHANGED <<counts, convs, mems, history>>

Call(d, pc, m) == Step(d, Run(pc, run[d].place, {}, run[d].tag, m))
Written == {m \in Mem : \E d \in Device : mem[d][m].t > 0}
Pending == {run[d].m : d \in Device}

\* memory.remember: put embeds the content, then inserts the row.
Remember(d) ==
    /\ run[d].pc = "tools"
    /\ \E m \in Mem \ (Written \cup Pending) : Call(d, "put", m)
    /\ UNCHANGED <<counts, convs, mems, history>>
Put(d) ==
    /\ run[d].pc = "put" /\ Tick
    /\ LET m == run[d].m IN
       /\ mem' = [mem EXCEPT ![d][m] = Row(clock', run[d].tag, FALSE)]
       /\ confided' = IF run[d].tag = "inside" THEN confided \cup {m} ELSE confided
    /\ Call(d, "tools", NoMem)
    /\ UNCHANGED <<touches, modes, crashes, convs, memMirror, memFile, writing, toldOutside,
                   forgot, raced>>

Deleted(d, m) ==
    /\ Tick
    /\ mem' = [mem EXCEPT ![d][m] = Row(clock', @.tag, TRUE)]
    /\ forgot' = [forgot EXCEPT ![d][m] = clock']
    /\ raced' = IF \E f \in writing[d] : f.m = m THEN raced \cup {d} ELSE raced
    /\ UNCHANGED <<touches, modes, crashes, memMirror, memFile, writing, confided>>

\* memory.forget by a query: the best hit of a recall, with global memories also
\* in an isolated conversation; then that row is deleted, whatever it is by now,
\* and its content is the tool's answer.
Forget(d) ==
    /\ run[d].pc = "tools"
    /\ LET tags == IF run[d].tag = "inside" THEN {"inside", "global"} ELSE {"global"}
       IN \E m \in Recall(d, tags) : Call(d, "forget", m)
    /\ UNCHANGED <<counts, convs, mems, history>>
ForgetHit(d) ==
    /\ run[d].pc = "forget"
    /\ Deleted(d, run[d].m)
    /\ Tell(run[d].place, {run[d].m})
    /\ Call(d, "tools", NoMem)
    /\ UNCHANGED convs

End(d) ==
    /\ run[d].pc = "tools"
    /\ Step(d, Idle)
    /\ UNCHANGED <<counts, convs, mems, history>>

\* The process dies with the run and the sync; a run that has a checkpoint is
\* resumed where it would read the mode.
Die(d) ==
    /\ crashes < MaxCrashes /\ crashes' = crashes + 1
    /\ writing' = [writing EXCEPT ![d] = {}]
    /\ Step(d, IF run[d].pc \in {"tools", "put", "forget"}
               THEN Run("cut", run[d].place, {}, "global", NoMem) ELSE Idle)
    /\ UNCHANGED <<clock, touches, modes, convs, mem, memMirror, memFile, history>>
Resume(d) ==
    /\ run[d].pc = "cut"
    /\ Step(d, Run("scope", run[d].place, {}, "global", NoMem))
    /\ UNCHANGED <<counts, convs, mems, history>>

-----------------------------------------------------------------------------
(* The user and the exchange *)

\* The memory browser: forget by id, any memory that is there.
UserForget(d, m) ==
    /\ mem[d][m].t > 0 /\ ~mem[d][m].del
    /\ Deleted(d, m)
    /\ UNCHANGED <<convs, run, toldOutside>>

\* `pai memories share': set_share_circle does not ask whether it is deleted.
Share(d, m) ==
    /\ mem[d][m].t > 0 /\ Tick
    /\ mem' = [mem EXCEPT ![d][m] = Row(clock', @.tag, @.del)]
    /\ UNCHANGED <<touches, modes, crashes, convs, memMirror, memFile, writing, run, history>>

PushMem(d, m) ==
    /\ mem[d][m].t > memMirror[d][m]
    /\ memFile' = [memFile EXCEPT ![m] = Object(m, mem[d][m].t, mem[d][m].tag,
                                                mem[d][m].del, {d})]
    /\ memMirror' = [memMirror EXCEPT ![d][m] = mem[d][m].t]
    /\ UNCHANGED <<counts, convs, mem, writing, run, history>>

ToPull(d, m) ==
    memFile[m].t > memMirror[d][m] /\ d \notin memFile[m].writer /\ writing[d] = {}
Mirror(d, f) == memMirror' = [memMirror EXCEPT ![d][f.m] = f.t]

\* apply_tombstone.
PullTombstone(d, m) ==
    /\ ToPull(d, m) /\ memFile[m].del
    /\ mem' = IF mem[d][m].t \in 1 .. (memFile[m].t - 1)
              THEN [mem EXCEPT ![d][m] = Row(memFile[m].t, @.tag, TRUE)] ELSE mem
    /\ Mirror(d, memFile[m])
    /\ UNCHANGED <<counts, convs, memFile, writing, run, history>>

\* apply_memory: it compares in one transaction and overwrites in another.
PullCheck(d, m) ==
    /\ ToPull(d, m) /\ ~memFile[m].del
    /\ IF mem[d][m].t >= memFile[m].t
       THEN Mirror(d, memFile[m]) /\ UNCHANGED writing
       ELSE writing' = [writing EXCEPT ![d] = {memFile[m]}] /\ UNCHANGED memMirror
    /\ UNCHANGED <<counts, convs, mem, memFile, run, history>>

\* Sensitivity variant of PullWrite: the conversation does not travel with it.
PullWriteUntagged(d) ==
    \E f \in writing[d] :
        /\ mem' = [mem EXCEPT ![d][f.m] = Row(f.t, "global", FALSE)]
        /\ writing' = [writing EXCEPT ![d] = {}]
        /\ Mirror(d, f)
        /\ UNCHANGED <<counts, convs, memFile, run, history>>

PullWrite(d) ==
    \E f \in writing[d] :
        /\ mem' = [mem EXCEPT ![d][f.m] = Row(f.t, f.tag, FALSE)]
        /\ writing' = [writing EXCEPT ![d] = {}]
        /\ Mirror(d, f)
        /\ UNCHANGED <<counts, convs, memFile, run, history>>

-----------------------------------------------------------------------------
Next ==
    \E d \in Device :
        \/ \E mode \in {"shared", "isolated"} : SetMemoryScope(d, mode)
        \/ \E del \in BOOLEAN : Touch(d, del)
        \/ PushConv(d) \/ PullConv(d)
        \/ Start(d) \/ RecallInput(d) \/ Scope(d) \/ Remember(d) \/ Put(d)
        \/ Forget(d) \/ ForgetHit(d) \/ End(d) \/ Die(d) \/ Resume(d)
        \/ \E m \in Mem : \/ UserForget(d, m) \/ Share(d, m)
                          \/ PushMem(d, m) \/ PullTombstone(d, m) \/ PullCheck(d, m)
        \/ PullWrite(d)

Spec == Init /\ [][Next]_vars
-----------------------------------------------------------------------------
TypeOK ==
    /\ conv \in [Device -> [t : 0 .. MaxClock, mode : {"shared", "isolated"},
                            del : BOOLEAN]]
    /\ mem \in [Device -> [Mem -> [t : 0 .. MaxClock, tag : Tag, del : BOOLEAN]]]
    /\ \A d \in Device :
          run[d].pc \in {"idle", "recall", "scope", "tools", "put", "forget", "cut"}
    /\ toldOutside \subseteq Mem

\* What a run wrote in isolation is never told to a run outside of its
\* conversation, on any device: whatever the mode there is, whoever deletes the
\* conversation, and in whatever order rows and objects are overwritten.
ToldInConfidence == \A m \in confided : m \notin toldOutside

\* A device on which a memory was deleted has it back only as a later row, unless
\* it was deleted between the two halves of apply_memory.
ForgottenUnlessLater ==
    \A d \in Device \ raced, m \in Mem :
        forgot[d][m] > 0 /\ ~mem[d][m].del => mem[d][m].t > forgot[d][m]

MemoriesKeepTheirPlace == TypeOK /\ ToldInConfidence /\ ForgottenUnlessLater
=============================================================================
