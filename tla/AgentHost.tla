----------------------------- MODULE AgentHost -----------------------------
(* What a host of the agent keeps: the runs (AgentRun), the chat of its      *)
(* clients (HostChat, as H) and the memories of conversations (MemoryScopes, *)
(* as S).                                                                    *)
EXTENDS AgentRun

\* Whether one process alone drives the run, and the writes of its row succeed.
VARIABLE alone

CONSTANTS Req, NoReq, Slots
VARIABLES native, convs, active, ids, op, on, hpc, lock, inflight, tokens,
    stopped, token, reads, pending, verdict, events, shown, given, pressed, hit

hvars == <<native, convs, active, ids, op, on, hpc, lock, inflight, tokens,
           stopped, token, reads, pending, verdict, events, shown, given,
           pressed, hit>>

H == INSTANCE HostChat WITH pc <- hpc

CONSTANTS Device, First, Mem, NoMem, MaxClock, MaxTouches, MaxModes, MaxCrashes
VARIABLES clock, touches, modes, crashes, conv, convMirror, convFile, mem, memMirror,
    memFile, writing, run, confided, toldOutside, forgot, raced

mvars == <<clock, touches, modes, crashes, conv, convMirror, convFile, mem,
           memMirror, memFile, writing, run, confided, toldOutside, forgot, raced>>

S == INSTANCE MemoryScopes

\* What a run executes is bounded: a cancelled run at most the call on its way,
\* and, for one driver and writes that do not fail, the run over its whole life
\* the steps it was allowed and one for every resumption (pai-agent, lib.rs).
WorkIsBounded == CancelStopsSoon /\ (alone => RepeatsOnlyOnResume)

\* One message at a time, and every client sees its own (pai-ffi).
ChatIsSound == H!ChatIsSound

\* What is told in a conversation that keeps its memories to itself stays there,
\* and what is forgotten with it stays forgotten (pai-memory, pai-agent).
MemoriesKeepTheirPlace == S!MemoriesKeepTheirPlace
============================================================================
