----------------------------- MODULE BrokerCalls -----------------------------
(***************************************************************************)
(* Calls of one paired device to another: crates/pai-broker/src/rpc.rs,    *)
(* the serve loop of `pai broker serve' (apps/cli/src/cmds/broker.rs) and  *)
(* the job rows of media generation on both sides (apps/cli/src/cmds/      *)
(* media.rs, crates/pai-media/src/jobs.rs).                                *)
(*                                                                         *)
(* The caller pushes a request object and polls for a response object; the *)
(* worker lists the requests, runs each through its handler, pushes the    *)
(* response and deletes the request.  A streamed response is a chunk       *)
(* object per sequence number and a final object.  The transport keeps     *)
(* objects; any push, pull, list or delete may fail, a caller may quit and *)
(* the worker may be restarted, which empties its set of served requests.  *)
(***************************************************************************)
EXTENDS Naturals, Sequences, FiniteSets

CONSTANTS
    Calls,       \* the calls
    NoCall,      \* no call: none is being run
    MaxChunks,   \* bound: chunks a handler emits
    Timeout,     \* how long a caller waits
    Margin,      \* EXPIRY_MARGIN
    MaxTime,     \* bound: the clock
    MaxFaults    \* bound: failed transport calls, quits and restarts together

ASSUME BrokerAssumption ==
    /\ NoCall \notin Calls
    /\ MaxChunks \in Nat /\ Timeout \in Nat /\ Margin \in Nat
    /\ MaxTime \in Nat /\ MaxFaults \in Nat

VARIABLES
    clock,
    breq,      \* the calls whose request object is on the transport
    bres,      \* bres[c]: the final response object of c
    chunks,    \* chunks[c]: the sequence numbers of its chunk objects
    streamed,  \* the calls that ask for a streamed response
    pc,        \* pc[c]: where the caller of c is
    deadline,  \* deadline[c]: when it gives up
    next,      \* next[c]: the next sequence number to hand over
    todo,      \* todo[c]: the chunk objects listed and not looked at yet
    pend,      \* pend[c]: the sequence numbers drained
    ans,       \* ans[c]: the final response in hand
    job,       \* job[c]: the caller's row in media_jobs
    started,   \* started[c]: how many runs of c the worker has started
    done,      \* done[c]: those whose row it recorded as done
    spc, scan, cur, emitted, said,   \* the worker: where it is, the requests
               \* listed, the one it runs, its chunks so far, the response in hand
    served,    \* the worker's set of served requests, in memory
    repush,    \* pushes of the worker that failed
    restarts,  \* restarts of the worker
    faults     \* all faults so far

caller == <<streamed, pc, deadline, next, todo, pend, ans, job>>
worker == <<spc, scan, cur, emitted, said, served, repush, restarts, started, done>>
objects == <<breq, bres, chunks>>
vars == <<clock, objects, caller, worker, faults>>

\* The answer of a run, with the number of chunks it pushed.
Answer(r, ok, n) == [run |-> r, ok |-> ok, n |-> n]
NoAnswer == Answer(0, FALSE, 0)

Ended == {"refused", "ok", "error", "timeout", "quit"}

InitAt(t) ==
    /\ clock = t
    /\ breq = {}
    /\ bres = [c \in Calls |-> NoAnswer]
    /\ chunks = [c \in Calls |-> {}]
    /\ streamed = {}
    /\ pc = [c \in Calls |-> "new"]
    /\ deadline = [c \in Calls |-> 0]
    /\ next = [c \in Calls |-> 0]
    /\ todo = [c \in Calls |-> {}]
    /\ pend = [c \in Calls |-> {}]
    /\ ans = [c \in Calls |-> NoAnswer]
    /\ job = [c \in Calls |-> "none"]
    /\ started = [c \in Calls |-> 0]
    /\ done = [c \in Calls |-> {}]
    /\ spc = "idle" /\ scan = {} /\ cur = NoCall
    /\ emitted = 0 /\ said = NoAnswer
    /\ served = {}
    /\ repush = 0 /\ restarts = 0 /\ faults = 0
Init == InitAt(0)

\* One more fault.
Fault == faults < MaxFaults /\ faults' = faults + 1

\* A best-effort delete (`.await.ok()'): it may fail, which changes nothing.
DeleteOf(var, without) ==
    \/ var' = without /\ UNCHANGED faults
    \/ var' = var /\ Fault

-----------------------------------------------------------------------------
(* The caller.                                                             *)

\* The job is recorded, queued, before anything else.
Enqueue(c) ==
    /\ pc[c] = "new"
    /\ pc' = [pc EXCEPT ![c] = "queued"]
    /\ job' = [job EXCEPT ![c] = "queued"]
    /\ UNCHANGED <<clock, objects, streamed, deadline, next, todo, pend, ans,
                   worker, faults>>

\* The end of a call: the job row has its outcome.
Finish(c, how) ==
    /\ pc' = [pc EXCEPT ![c] = how]
    /\ job' = [job EXCEPT ![c] = IF how = "ok" THEN "done" ELSE "failed"]
    /\ todo' = [todo EXCEPT ![c] = {}]
    /\ pend' = [pend EXCEPT ![c] = {}]

\* No peer announces the operation, no vault key, no transport.
NoPeer(c) ==
    /\ pc[c] = "queued"
    /\ Finish(c, "refused")
    /\ UNCHANGED <<clock, objects, streamed, deadline, next, ans, worker,
                   faults>>

\* push_request; a push that fails may have stored the object all the same.
Ask(c) ==
    /\ pc[c] = "queued"
    /\ clock + Timeout < MaxTime      \* bound: its deadline comes
    /\ pc' = [pc EXCEPT ![c] = "poll"]
    /\ job' = [job EXCEPT ![c] = "running"]
    /\ breq' = breq \cup {c}
    /\ streamed' \in {streamed, streamed \cup {c}}
    /\ deadline' = [deadline EXCEPT ![c] = clock + Timeout]
    /\ UNCHANGED <<clock, bres, chunks, next, todo, pend, ans, worker, faults>>

\* Sensitivity variant of AskFails: a request that may be stored passes for
\* one that was never sent.
AskFailsUnsent(c) ==
    /\ pc[c] = "queued"
    /\ Fault
    /\ Finish(c, "refused")
    /\ breq' \in {breq, breq \cup {c}}
    /\ streamed' \in {streamed, streamed \cup {c}}
    /\ deadline' = [deadline EXCEPT ![c] = clock + Timeout]
    /\ UNCHANGED <<clock, bres, chunks, next, ans, worker>>

AskFails(c) ==
    /\ pc[c] = "queued"
    /\ Fault
    /\ Finish(c, "error")
    /\ breq' \in {breq, breq \cup {c}}
    /\ streamed' \in {streamed, streamed \cup {c}}
    /\ deadline' = [deadline EXCEPT ![c] = clock + Timeout]
    /\ UNCHANGED <<clock, bres, chunks, next, ans, worker>>

\* call: the response is there.
Take(c) ==
    /\ pc[c] = "poll" /\ c \notin streamed
    /\ clock <= deadline[c] /\ bres[c] # NoAnswer
    /\ ans' = [ans EXCEPT ![c] = bres[c]]
    /\ pc' = [pc EXCEPT ![c] = "took"]
    /\ UNCHANGED <<clock, objects, streamed, deadline, next, todo, pend, job,
                   worker, faults>>

\* call_stream: one round lists the chunk objects,
List(c) ==
    /\ pc[c] = "poll" /\ c \in streamed
    /\ clock <= deadline[c]
    /\ chunks[c] # {} \/ bres[c] # NoAnswer
    /\ todo' = [todo EXCEPT ![c] = chunks[c]]
    /\ pc' = [pc EXCEPT ![c] = "scan"]
    /\ UNCHANGED <<clock, objects, streamed, deadline, next, pend, ans, job,
                   worker, faults>>

\* takes them in the order of the listing, handing over the one that is next,
Scan(c) ==
    /\ pc[c] = "scan"
    /\ \E i \in todo[c] :
         /\ todo' = [todo EXCEPT ![c] = @ \ {i}]
         /\ IF i = next[c] /\ i \in chunks[c]
            THEN /\ next' = [next EXCEPT ![c] = @ + 1]
                 /\ DeleteOf(chunks, [chunks EXCEPT ![c] = @ \ {i}])
            ELSE UNCHANGED <<next, chunks, faults>>
    /\ UNCHANGED <<clock, breq, bres, streamed, pc, deadline, pend, ans, job,
                   worker>>

\* Sensitivity variant of Final: the chunks listed at the start of the round
\* are taken for all there are.
FinalNoDrain(c) ==
    /\ pc[c] = "scan" /\ todo[c] = {}
    /\ pc' = [pc EXCEPT ![c] = IF bres[c] = NoAnswer THEN "poll" ELSE "took"]
    /\ ans' = [ans EXCEPT ![c] = bres[c]]
    /\ UNCHANGED <<clock, objects, streamed, deadline, next, todo, pend, job,
                   worker, faults>>

\* then pulls the final object; without it, it sleeps and starts over.
Final(c) ==
    /\ pc[c] = "scan" /\ todo[c] = {}
    /\ IF bres[c] = NoAnswer
       THEN /\ pc' = [pc EXCEPT ![c] = "poll"]
            /\ UNCHANGED <<todo, ans>>
       ELSE /\ pc' = [pc EXCEPT ![c] = "drain"]
            /\ todo' = [todo EXCEPT ![c] = chunks[c]]
            /\ ans' = [ans EXCEPT ![c] = bres[c]]
    /\ UNCHANGED <<clock, objects, streamed, deadline, next, pend, job, worker,
                   faults>>

\* With the final object: the remaining chunks are collected and deleted,
Drain(c) ==
    /\ pc[c] = "drain"
    /\ \E i \in todo[c] :
         /\ todo' = [todo EXCEPT ![c] = @ \ {i}]
         /\ IF i \in chunks[c]
            THEN /\ pend' = [pend EXCEPT ![c] = @ \cup {i}]
                 /\ DeleteOf(chunks, [chunks EXCEPT ![c] = @ \ {i}])
            ELSE UNCHANGED <<pend, chunks, faults>>
    /\ UNCHANGED <<clock, breq, bres, streamed, pc, deadline, next, ans, job,
                   worker>>

\* sorted, and handed over up to the first gap.
Drained(c) ==
    /\ pc[c] = "drain" /\ todo[c] = {}
    /\ \E n \in next[c] .. next[c] + MaxChunks :
         /\ next[c] .. n - 1 \subseteq pend[c] /\ n \notin pend[c]
         /\ next' = [next EXCEPT ![c] = n]
    /\ pend' = [pend EXCEPT ![c] = {}]
    /\ pc' = [pc EXCEPT ![c] = "took"]
    /\ UNCHANGED <<clock, objects, streamed, deadline, todo, ans, job, worker,
                   faults>>

\* Sensitivity variant of Return: an error of the peer is returned as data.
ReturnAll(c) ==
    /\ pc[c] = "took"
    /\ DeleteOf(bres, [bres EXCEPT ![c] = NoAnswer])
    /\ Finish(c, "ok")
    /\ UNCHANGED <<clock, breq, chunks, streamed, deadline, next, ans, worker>>

\* The final object is deleted and the answer returned.
Return(c) ==
    /\ pc[c] = "took"
    /\ DeleteOf(bres, [bres EXCEPT ![c] = NoAnswer])
    /\ Finish(c, IF ans[c].ok THEN "ok" ELSE "error")
    /\ UNCHANGED <<clock, breq, chunks, streamed, deadline, next, ans, worker>>

\* Sensitivity variant of GiveUp: the deadline is looked at only when the
\* worker has shown some sign.
GiveUpLate(c) ==
    /\ pc[c] = "poll" /\ clock > deadline[c] /\ bres[c] # NoAnswer
    /\ Finish(c, "timeout")
    /\ UNCHANGED <<clock, objects, streamed, deadline, next, ans, worker,
                   faults>>

GiveUp(c) ==
    /\ pc[c] = "poll" /\ clock > deadline[c]
    /\ Finish(c, "timeout")
    /\ UNCHANGED <<clock, objects, streamed, deadline, next, ans, worker,
                   faults>>

\* list and pull fail with `?', and so does a response that cannot be opened.
CallFails(c) ==
    /\ pc[c] \in {"poll", "scan", "drain"}
    /\ Fault
    /\ Finish(c, "error")
    /\ UNCHANGED <<clock, objects, streamed, deadline, next, ans, worker>>

\* The calling process ends: nobody updates the row any more.
Quit(c) ==
    /\ pc[c] \in {"queued", "poll", "scan", "drain", "took"}
    /\ Fault
    /\ pc' = [pc EXCEPT ![c] = IF @ = "queued" THEN "refused" ELSE "quit"]
    /\ todo' = [todo EXCEPT ![c] = {}]
    /\ pend' = [pend EXCEPT ![c] = {}]
    /\ UNCHANGED <<clock, objects, streamed, deadline, next, ans, job, worker>>

CallerStep(c) ==
    \/ Enqueue(c) \/ NoPeer(c) \/ Ask(c) \/ AskFails(c)
    \/ Take(c) \/ List(c) \/ Scan(c) \/ Final(c) \/ Drain(c) \/ Drained(c)
    \/ Return(c) \/ GiveUp(c) \/ CallFails(c) \/ Quit(c)

-----------------------------------------------------------------------------
(* The worker: serve_once, one pass after the other.                       *)

Pass ==
    /\ spc = "idle" /\ breq # {}
    /\ scan' = breq
    /\ spc' = "scan"
    /\ UNCHANGED <<clock, objects, caller, cur, emitted, said, served, repush,
                   restarts, started, done, faults>>

\* Requests already served are passed over, ...
Skip(c) ==
    /\ spc = "scan" /\ c \in scan /\ c \in served
    /\ scan' = scan \ {c}
    /\ UNCHANGED <<clock, objects, caller, spc, cur, emitted, said, served,
                   repush, restarts, started, done, faults>>

Expired(c) == clock > deadline[c] + Margin

\* Sensitivity variant of Expire: an expired request is passed over.
ExpireKeep(c) ==
    /\ spc = "scan" /\ c \in scan /\ c \notin served
    /\ Expired(c)
    /\ scan' = scan \ {c}
    /\ UNCHANGED <<clock, objects, caller, spc, cur, emitted, said, served,
                   repush, restarts, started, done, faults>>

\* ... expired ones are deleted, ...
Expire(c) ==
    /\ spc = "scan" /\ c \in scan /\ c \notin served
    /\ Expired(c)
    /\ scan' = scan \ {c}
    /\ served' = served \cup {c}
    /\ DeleteOf(breq, breq \ {c})
    /\ UNCHANGED <<clock, bres, chunks, caller, spc, cur, emitted, said,
                   repush, restarts, started, done>>

\* Sensitivity variants of Start: the worker keeps no row; the served set is
\* not looked at.
StartUnrecorded(c) ==
    /\ spc = "scan" /\ c \in scan /\ c \notin served
    /\ ~Expired(c)
    /\ scan' = scan \ {c}
    /\ cur' = c /\ emitted' = 0
    /\ spc' = "run"
    /\ UNCHANGED <<clock, objects, caller, said, served, repush, restarts,
                   started, done, faults>>

StartAgain(c) ==
    /\ spc = "scan" /\ c \in scan
    /\ ~Expired(c)
    /\ scan' = scan \ {c}
    /\ started' = [started EXCEPT ![c] = @ + 1]
    /\ cur' = c /\ emitted' = 0
    /\ spc' = "run"
    /\ UNCHANGED <<clock, objects, caller, said, served, repush, restarts,
                   done, faults>>

\* ... the others are run: media_run_op records the job as running.
Start(c) ==
    /\ spc = "scan" /\ c \in scan /\ c \notin served
    /\ ~Expired(c)
    /\ scan' = scan \ {c}
    /\ started' = [started EXCEPT ![c] = @ + 1]
    /\ cur' = c /\ emitted' = 0
    /\ spc' = "run"
    /\ UNCHANGED <<clock, objects, caller, said, served, repush, restarts,
                   done, faults>>

EndPass ==
    /\ spc = "scan" /\ scan = {}
    /\ spc' = "idle"
    /\ UNCHANGED <<clock, objects, caller, scan, cur, emitted, said, served,
                   repush, restarts, started, done, faults>>

\* serve_stream: a chunk of the handler is pushed under the next number.
Chunk ==
    /\ spc = "run" /\ cur \in streamed
    /\ emitted < MaxChunks
    /\ chunks' = [chunks EXCEPT ![cur] = @ \cup {emitted}]
    /\ emitted' = emitted + 1
    /\ UNCHANGED <<clock, breq, bres, caller, spc, scan, cur, said, served,
                   repush, restarts, started, done, faults>>

\* The handler is through: the row of the job says how.
Handled ==
    /\ spc = "run"
    /\ \E ok \in BOOLEAN :
         /\ said' = Answer(started[cur], ok, emitted)
         /\ done' = IF ok
                    THEN [done EXCEPT ![cur] = @ \cup {started[cur]}]
                    ELSE done
    /\ spc' = "answer"
    /\ UNCHANGED <<clock, objects, caller, scan, cur, emitted, served, repush,
                   restarts, started, faults>>

PushFinal ==
    /\ spc = "answer"
    /\ bres' = [bres EXCEPT ![cur] = said]
    /\ spc' = "delete"
    /\ UNCHANGED <<clock, breq, chunks, caller, scan, cur, emitted, said,
                   served, repush, restarts, started, done, faults>>

\* Sensitivity variant of Delete: the request is only remembered.
DeleteNothing ==
    /\ spc = "delete"
    /\ served' = served \cup {cur}
    /\ spc' = "scan" /\ cur' = NoCall /\ emitted' = 0
    /\ said' = NoAnswer
    /\ UNCHANGED <<clock, objects, caller, scan, repush, restarts, started,
                   done, faults>>

\* The request is deleted, best effort, and remembered as served.
Delete ==
    /\ spc = "delete"
    /\ DeleteOf(breq, breq \ {cur})
    /\ served' = served \cup {cur}
    /\ spc' = "scan" /\ cur' = NoCall /\ emitted' = 0
    /\ said' = NoAnswer
    /\ UNCHANGED <<clock, bres, chunks, caller, scan, repush, restarts,
                   started, done>>

\* A push of a chunk or of the response fails: `?' ends the pass, and the
\* request is not remembered.
PushFails ==
    /\ spc = "answer" \/ (spc = "run" /\ cur \in streamed)
    /\ Fault
    /\ repush' = repush + 1
    /\ spc' = "idle" /\ scan' = {} /\ cur' = NoCall /\ emitted' = 0
    /\ said' = NoAnswer
    /\ UNCHANGED <<clock, objects, caller, served, restarts, started, done>>

\* The worker ends, anywhere, and `pai broker serve' is started again.
Restart ==
    /\ Fault
    /\ restarts' = restarts + 1
    /\ spc' = "idle" /\ scan' = {} /\ cur' = NoCall /\ emitted' = 0
    /\ said' = NoAnswer
    /\ served' = {}
    /\ UNCHANGED <<clock, objects, caller, repush, started, done>>

ScanStep == EndPass \/ \E c \in Calls : Skip(c) \/ Expire(c) \/ Start(c)
ServeStep ==
    \/ Pass \/ ScanStep \/ Chunk \/ Handled \/ PushFinal \/ Delete

Tick ==
    /\ clock < MaxTime
    /\ clock' = clock + 1
    /\ UNCHANGED <<objects, caller, worker, faults>>

Next ==
    \/ \E c \in Calls : CallerStep(c)
    \/ ServeStep \/ PushFails \/ Restart \/ Tick

\* The caller polls, the worker serves and handlers end, time passes.
Fairness ==
    /\ \A c \in Calls :
          /\ WF_vars(Take(c)) /\ WF_vars(List(c)) /\ WF_vars(Scan(c))
          /\ WF_vars(Final(c)) /\ WF_vars(Drain(c)) /\ WF_vars(Drained(c))
          /\ WF_vars(Return(c)) /\ WF_vars(GiveUp(c))
          /\ WF_vars(NoPeer(c) \/ Ask(c))
    /\ WF_vars(Pass) /\ WF_vars(ScanStep) /\ WF_vars(Handled)
    /\ WF_vars(PushFinal) /\ WF_vars(Delete)
    /\ WF_vars(Tick)

Spec == Init /\ [][Next]_vars
FairSpec == Spec /\ Fairness
-----------------------------------------------------------------------------
PCs == Ended \cup {"new", "queued", "poll", "scan", "drain", "took"}
Answers == [run : Nat, ok : BOOLEAN, n : Nat]

TypeOK ==
    /\ clock \in Nat
    /\ streamed \subseteq Calls /\ breq \subseteq Calls /\ served \subseteq Calls
    /\ bres \in [Calls -> Answers] /\ ans \in [Calls -> Answers]
    /\ said \in Answers
    /\ chunks \in [Calls -> SUBSET Nat] /\ todo \in [Calls -> SUBSET Nat]
    /\ pend \in [Calls -> SUBSET Nat]
    /\ pc \in [Calls -> PCs]
    /\ deadline \in [Calls -> Nat] /\ next \in [Calls -> Nat]
    /\ job \in [Calls -> {"none", "queued", "running", "done", "failed"}]
    /\ started \in [Calls -> Nat]
    /\ \A c \in Calls : done[c] \subseteq 1 .. started[c]
    /\ spc \in {"idle", "scan", "run", "answer", "delete"}
    /\ scan \subseteq Calls
    /\ cur \in Calls \cup {NoCall} /\ emitted \in Nat
    /\ spc \in {"run", "answer", "delete"} => cur \in Calls /\ started[cur] > 0
    /\ repush \in Nat /\ restarts \in Nat /\ faults \in Nat

\* A job the requester records as done was done by the worker: the two rows,
\* on two devices, agree.
DoneWasRun ==
    \A c \in Calls : job[c] = "done" => ans[c].run \in done[c]

\* A stream that ends well handed over every chunk of the run that ended it,
\* in order and without a gap, whatever the order of the listings, the runs
\* that broke off before and the deletes that failed ("the final object means
\* the server wrote every chunk").
WholeStream ==
    \A c \in streamed : pc[c] = "ok" => next[c] >= ans[c].n

\* A request is run a second time only after a restart of the worker or a
\* push of it that failed: the served set and the deletes cover every other
\* case, lost deletes included.
RunsOnce == \A c \in Calls : started[c] <= 1 + restarts + repush

\* Nothing is left on the transport by a call that returned, once the worker
\* is done with it, when no transport call failed and nobody quit.
Busy(c) == cur = c \/ c \in scan
NothingLeft ==
    faults = 0 => \A c \in Calls :
        pc[c] \in {"ok", "error"} /\ ~Busy(c) /\ c \in served
        => c \notin breq /\ bres[c] = NoAnswer /\ chunks[c] = {}

\* Streams are whole, and calls leave nothing on the transport.
StreamsWhole == TypeOK /\ WholeStream /\ NothingLeft

\* Every call that is made ends, with an answer or at its deadline; a request that was sent
\* is served or deleted even when its caller is gone.
CallsEnd == \A c \in Calls : pc[c] # "new" ~> pc[c] \in Ended
RequestsEnd == \A c \in Calls : c \in breq ~> (c \notin breq \/ c \in served)

\* The calls do what RemoteCall promises.
Known(where) ==
    IF where \in {"new", "queued"} THEN "unasked"
    ELSE IF where \in {"poll", "scan", "drain", "took"} THEN "open"
    ELSE IF where \in {"refused", "ok"} THEN where
    ELSE "failed"

Remote == INSTANCE RemoteCall WITH
    state <- [c \in Calls |-> Known(pc[c])],
    ran <- [c \in Calls |-> Cardinality(done[c])]
RemoteSpec == Remote!Spec
=============================================================================
